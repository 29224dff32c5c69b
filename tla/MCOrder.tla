--------------------------------- MODULE MCOrder ---------------------------------
(***************************************************************************)
(* Reorder on all sequences of at most MaxMatches matches, as a matching   *)
(* process makes them: the positions of each side are 0, 1, ... n - 1.     *)
(***************************************************************************)
EXTENDS Order

CONSTANT MaxMatches  \* bound on the number of matches

Numberings(I) ==
  {p \in [I -> 0 .. Cardinality(I) - 1] : \A i, j \in I : i # j => p[i] # p[j]}

Matches(I, J) ==
  LET At(p, i) == IF i \in DOMAIN p THEN p[i] ELSE None
  IN  {[i \in I \cup J |-> <<At(p, i), At(q, i)>>] :
         p \in Numberings(I), q \in Numberings(J)}

MCInputs ==
  UNION {UNION {UNION {Matches(I, J) : J \in {K \in SUBSET (1 .. n) : I \cup K = 1 .. n}} :
                  I \in SUBSET (1 .. n)} : n \in 0 .. MaxMatches}
================================================================================
