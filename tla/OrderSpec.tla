-------------------------------- MODULE OrderSpec --------------------------------
(***************************************************************************)
(* What Reorder of order.h promises: the one order that its matches end up *)
(* in, stated without an algorithm.                                        *)
(***************************************************************************)
EXTENDS Naturals, Sequences

CONSTANT None  \* no position in one of the two sequences

ASSUME NoneAssumption == None \notin Nat

\* A match is a pair of optional positions.
Match == (Nat \cup {None}) \X (Nat \cup {None})

\* The places of the common matches that precede a match in the second sequence.
Anchors(matches, m) ==
  {matches[i][1] + 1 : i \in {j \in 1 .. Len(matches) :
                               /\ None \notin {matches[j][1], matches[j][2]}
                               /\ matches[j][2] < m[2]}}

\* The last of some places, or the front.
Furthest(p, places) == p \in places \cup {0} /\ \A q \in places : p >= q

\* Every match of the first sequence has its place there.  A match of the second
\* sequence only goes after the common match that precedes it in the second
\* sequence and is furthest on in the first; such matches keep the second
\* sequence's order.
Place(matches, m) ==
  IF m[1] # None THEN m[1] + 1
  ELSE CHOOSE p \in Anchors(matches, m) \cup {0} : Furthest(p, Anchors(matches, m))

Before(matches, x, y) ==
  LET place1 == Place(matches, x)
      place2 == Place(matches, y)
  IN  \/ place1 < place2
      \/ place1 = place2 /\ x[1] # None /\ y[1] = None
      \/ place1 = place2 /\ x[1] = None /\ y[1] = None /\ x[2] < y[2]
================================================================================
