-------------------------------- MODULE Positions --------------------------------
(***************************************************************************)
(* Sequences of anything, and sets of positions of a sequence, in order.   *)
(***************************************************************************)
EXTENDS Naturals, Sequences, FiniteSets

IsSequence(s) == s \in Seq({s[i] : i \in DOMAIN s})

\* The members of S with k members up to them: the k-th one.
Ranked(S, k) == {i \in S : Cardinality({j \in S : j <= i}) = k}

Nth(S, k) == CHOOSE i \in Ranked(S, k) : TRUE

\* What f has at the positions S, in order.
ValuesAt(f, S) == [k \in 1 .. Cardinality(S) |-> f[Nth(S, k)]]
================================================================================
