------------------------------- MODULE PositionsProofs -------------------------------
(***************************************************************************)
(* Lemmas about sets of positions in order, by induction on a bound of the *)
(* positions.  Induction is over sets: the set of the numbers for which    *)
(* something holds.                                                        *)
(***************************************************************************)
EXTENDS Positions, FiniteSetTheorems, SequenceTheorems, WellFoundedInduction, TLAPS

\* A set that has 0 and with every number the next one has all of them.
LEMMA NatSet ==
  ASSUME NEW S, 0 \in S, \A n \in Nat : n \in S => n + 1 \in S
  PROVE  Nat \subseteq S
<1> SUFFICES ASSUME Nat \ S # {} PROVE FALSE
  OBVIOUS
<1> DEFINE T == Nat \ S
           R == {ss \in Nat \X Nat : ss[1] < ss[2]}
<1>1. IsWellFoundedOn(R, Nat)
  BY NatLessThanWellFounded DEF OpToRel
<1>2. PICK n \in T : \A m \in T : ~ (<<m, n>> \in R)
  <2> HIDE DEF R
  <2> QED BY <1>1, WFMin
<1>3. n \in Nat /\ n # 0 /\ n - 1 \in Nat /\ n - 1 < n
  BY <1>2
<1>4. n - 1 \notin T
  <2>1. <<n - 1, n>> \in R
    BY <1>3
  <2> HIDE DEF R, T
  <2> QED BY <1>2, <2>1
<1>5. n - 1 \in S
  BY <1>3, <1>4
<1> QED BY <1>2, <1>3, <1>5

\* Positions up to a bound are finitely many.
LEMMA FinitePositions ==
  ASSUME NEW n \in Nat, NEW S \in SUBSET (1 .. n)
  PROVE  IsFiniteSet(S) /\ Cardinality(S) \in Nat
<1>1. IsFiniteSet(1 .. n)
  <2>1. 1 \in Int /\ n \in Int
    OBVIOUS
  <2> QED BY <2>1, FS_Interval
<1>2. IsFiniteSet(S)
  BY <1>1, FS_Subset
<1> QED BY <1>2, FS_CardinalityType

\* A position after all others is the last.
LEMMA NextRanked ==
  ASSUME NEW n \in Nat, NEW S \in SUBSET (1 .. n)
  PROVE  /\ Cardinality(S \cup {n + 1}) = Cardinality(S) + 1
         /\ \A k \in 1 .. Cardinality(S) : Ranked(S \cup {n + 1}, k) = Ranked(S, k)
         /\ Ranked(S \cup {n + 1}, Cardinality(S) + 1) = {n + 1}
<1> DEFINE T == S \cup {n + 1}
<1>1. IsFiniteSet(S) /\ Cardinality(S) \in Nat
  BY FinitePositions
<1>2. n + 1 \notin S
  OBVIOUS
<1>3. Cardinality(T) = Cardinality(S) + 1
  BY <1>1, <1>2, FS_AddElement
<1>4. \A i \in S : {j \in T : j <= i} = {j \in S : j <= i}
  OBVIOUS
<1>5. {j \in T : j <= n + 1} = T
  <2>1. \A j \in T : j <= n + 1
    OBVIOUS
  <2> QED BY <2>1, Zenon
<1>6. \A i \in S : Cardinality({j \in S : j <= i}) <= Cardinality(S)
  <2> SUFFICES ASSUME NEW i \in S PROVE Cardinality({j \in S : j <= i}) <= Cardinality(S)
    OBVIOUS
  <2>1. {j \in S : j <= i} \in SUBSET S
    OBVIOUS
  <2> QED BY <1>1, <2>1, FS_Subset
<1>7. \A i \in S : Cardinality({j \in S : j <= i}) \in Nat
  <2> SUFFICES ASSUME NEW i \in S PROVE Cardinality({j \in S : j <= i}) \in Nat
    OBVIOUS
  <2>1. {j \in S : j <= i} \in SUBSET (1 .. n)
    OBVIOUS
  <2> QED BY <2>1, FinitePositions
<1> DEFINE c(i) == Cardinality({j \in T : j <= i})
           d(i) == Cardinality({j \in S : j <= i})
<1>8. /\ \A i \in S : c(i) = d(i) /\ d(i) \in Nat /\ d(i) <= Cardinality(S)
      /\ c(n + 1) = Cardinality(S) + 1
  <2>1. c(n + 1) = Cardinality(S) + 1
    BY <1>3, <1>5, Zenon
  <2>2. \A i \in S : c(i) = d(i)
    BY <1>4, Zenon
  <2> QED BY <1>6, <1>7, <2>1, <2>2, Zenon
<1>9. \A k : Ranked(T, k) = {i \in T : c(i) = k} /\ Ranked(S, k) = {i \in S : d(i) = k}
  BY DEF Ranked
<1> HIDE DEF c, d
<1>10. ASSUME NEW k \in 1 .. Cardinality(S) PROVE Ranked(T, k) = Ranked(S, k)
  <2>1. \A i \in T : c(i) = k => i \in S
    BY <1>1, <1>8
  <2>2. {i \in T : c(i) = k} = {i \in S : d(i) = k}
    BY <1>8, <2>1, Zenon
  <2> QED BY <1>9, <2>2, Zenon
<1>11. Ranked(T, Cardinality(S) + 1) = {n + 1}
  <2> DEFINE k == Cardinality(S) + 1
  <2>1. \A i \in S : c(i) # k
    BY <1>1, <1>8
  <2>2. c(n + 1) = k /\ n + 1 \in T
    BY <1>8
  <2> HIDE DEF k
  <2>3. {i \in T : c(i) = k} = {n + 1}
    BY <2>1, <2>2
  <2> QED BY <1>9, <2>3, Zenon DEF k
<1> QED BY <1>3, <1>10, <1>11

\* Every rank up to the number of positions is some position's, and one only.
LEMMA RankedSingle ==
  ASSUME NEW n \in Nat, NEW S \in SUBSET (1 .. n), NEW k \in 1 .. Cardinality(S)
  PROVE  \E i \in S : Ranked(S, k) = {i}
<1> DEFINE Single(T, j) == \E i \in T : Ranked(T, j) = {i}
           N == {m \in Nat : \A T \in SUBSET (1 .. m) : \A j \in 1 .. Cardinality(T) : Single(T, j)}
<1>1. 0 \in N
  <2> SUFFICES ASSUME NEW T \in SUBSET (1 .. 0), NEW j \in 1 .. Cardinality(T) PROVE FALSE
    BY DEF N
  <2>1. T = {}
    OBVIOUS
  <2> QED BY <2>1, FS_EmptySet
<1>2. ASSUME NEW m \in Nat, m \in N PROVE m + 1 \in N
  <2> SUFFICES ASSUME NEW T \in SUBSET (1 .. m + 1), NEW j \in 1 .. Cardinality(T)
               PROVE  Single(T, j)
    BY DEF N
  <2> DEFINE U == T \ {m + 1}
  <2>1. U \in SUBSET (1 .. m)
    OBVIOUS
  <2>2. \A i \in 1 .. Cardinality(U) : Single(U, i)
    BY <1>2, <2>1
  <2>3. CASE m + 1 \notin T
    <3>1. U = T
      BY <2>3
    <3> QED BY <2>2, <3>1
  <2>4. CASE m + 1 \in T
    <3>1. T = U \cup {m + 1}
      BY <2>4
    <3>2. /\ Cardinality(T) = Cardinality(U) + 1
          /\ \A i \in 1 .. Cardinality(U) : Ranked(T, i) = Ranked(U, i)
          /\ Ranked(T, Cardinality(U) + 1) = {m + 1}
      <4> HIDE DEF U
      <4>1. /\ Cardinality(U \cup {m + 1}) = Cardinality(U) + 1
            /\ \A i \in 1 .. Cardinality(U) : Ranked(U \cup {m + 1}, i) = Ranked(U, i)
            /\ Ranked(U \cup {m + 1}, Cardinality(U) + 1) = {m + 1}
        BY <2>1, NextRanked
      <4> QED BY <3>1, <4>1, Zenon
    <3>3. Cardinality(U) \in Nat
      BY <2>1, FinitePositions
    <3>4. CASE j \in 1 .. Cardinality(U)
      <4>1. PICK i \in U : Ranked(U, j) = {i}
        BY <2>2, <3>4
      <4> QED BY <3>1, <3>2, <3>4, <4>1
    <3>5. CASE j = Cardinality(U) + 1
      BY <2>4, <3>2, <3>5
    <3> QED BY <3>2, <3>3, <3>4, <3>5
  <2> QED BY <2>3, <2>4
<1>3. n \in N
  <2> HIDE DEF N
  <2> QED BY <1>1, <1>2, NatSet
<1> QED BY <1>3

\* The k-th position is one of them, and the one with k positions up to it.
LEMMA NthProperties ==
  ASSUME NEW n \in Nat, NEW S \in SUBSET (1 .. n), NEW k \in 1 .. Cardinality(S)
  PROVE  Nth(S, k) \in S /\ Cardinality({j \in S : j <= Nth(S, k)}) = k
<1>1. PICK i \in S : Ranked(S, k) = {i}
  BY RankedSingle
<1>2. Nth(S, k) \in Ranked(S, k)
  BY <1>1 DEF Nth
<1> QED BY <1>2 DEF Ranked

\* The position with k positions up to it is the k-th.
LEMMA NthUnique ==
  ASSUME NEW n \in Nat, NEW S \in SUBSET (1 .. n), NEW i \in S
  PROVE  LET k == Cardinality({j \in S : j <= i}) IN k \in 1 .. Cardinality(S) /\ Nth(S, k) = i
<1> DEFINE T == {j \in S : j <= i}
           k == Cardinality(T)
<1>1. IsFiniteSet(S) /\ Cardinality(S) \in Nat /\ T \in SUBSET S /\ T \in SUBSET (1 .. n)
  BY FinitePositions
<1>2. IsFiniteSet(T) /\ k \in Nat /\ k <= Cardinality(S)
  BY <1>1, FinitePositions, FS_Subset
<1>3. k # 0
  <2>1. i \in T
    OBVIOUS
  <2> HIDE DEF T
  <2> QED BY <1>2, <2>1, FS_EmptySet
<1>4. i \in Ranked(S, k)
  BY DEF Ranked
<1>5. k \in 1 .. Cardinality(S)
  BY <1>1, <1>2, <1>3
<1> HIDE DEF k
<1>6. PICK j \in S : Ranked(S, k) = {j}
  BY <1>5, RankedSingle
<1>7. Nth(S, k) = i
  BY <1>4, <1>6 DEF Nth
<1> QED BY <1>5, <1>7 DEF k

\* What f has at the positions S.
Image(f, S) == {f[i] : i \in S}

\* One value for each position.
LEMMA ValuesElements ==
  ASSUME NEW f, NEW n \in Nat, NEW S \in SUBSET (1 .. n)
  PROVE  /\ Cardinality(S) \in Nat
         /\ ValuesAt(f, S) \in Seq(Image(f, S)) /\ Len(ValuesAt(f, S)) = Cardinality(S)
         /\ \A k \in 1 .. Cardinality(S) : Nth(S, k) \in S /\ ValuesAt(f, S)[k] = f[Nth(S, k)]
<1> DEFINE s == ValuesAt(f, S)
           V == Image(f, S)
<1>1. Cardinality(S) \in Nat /\ \A k \in 1 .. Cardinality(S) : Nth(S, k) \in S
  BY FinitePositions, NthProperties
<1>2. s = [k \in 1 .. Cardinality(S) |-> f[Nth(S, k)]]
  BY DEF ValuesAt
<1>3. \A k \in 1 .. Cardinality(S) : f[Nth(S, k)] \in V
  BY <1>1 DEF Image
<1> HIDE DEF s, V
<1>6. s \in [1 .. Cardinality(S) -> V]
  BY <1>2, <1>3
<1>4. s \in Seq(V)
  BY <1>1, <1>6, SeqDef
<1>5. Len(s) = Cardinality(S)
  BY <1>1, <1>6, <1>4, LenProperties
<1> QED BY <1>1, <1>2, <1>4, <1>5 DEF s, V

\* The values are those at the positions, and no others.
LEMMA ValuesRange ==
  ASSUME NEW f, NEW n \in Nat, NEW S \in SUBSET (1 .. n)
  PROVE  /\ \A i \in S : \E k \in 1 .. Len(ValuesAt(f, S)) : ValuesAt(f, S)[k] = f[i]
         /\ \A k \in 1 .. Len(ValuesAt(f, S)) : \E i \in S : ValuesAt(f, S)[k] = f[i]
<1> DEFINE s == ValuesAt(f, S)
<1>1. /\ Len(s) = Cardinality(S)
      /\ \A k \in 1 .. Cardinality(S) : Nth(S, k) \in S /\ s[k] = f[Nth(S, k)]
  BY ValuesElements
<1>2. ASSUME NEW i \in S PROVE \E k \in 1 .. Len(s) : s[k] = f[i]
  <2>1. PICK k \in 1 .. Cardinality(S) : Nth(S, k) = i
    BY NthUnique
  <2> HIDE DEF s
  <2> QED BY <1>1, <2>1
<1>3. ASSUME NEW k \in 1 .. Len(s) PROVE \E i \in S : s[k] = f[i]
  <2> HIDE DEF s
  <2> QED BY <1>1
<1> QED BY <1>2, <1>3

LEMMA ValuesType ==
  ASSUME NEW f, NEW n \in Nat, NEW S \in SUBSET (1 .. n), NEW V, \A i \in S : f[i] \in V
  PROVE  ValuesAt(f, S) \in Seq(V)
<1> DEFINE s == ValuesAt(f, S)
<1>1. s \in Seq(Image(f, S))
  BY ValuesElements
<1>2. Image(f, S) \subseteq V
  BY DEF Image
<1> HIDE DEF s
<1>3. \A k \in 1 .. Len(s) : s[k] \in V
  BY <1>1, <1>2, ElementOfSeq
<1> QED BY <1>1, <1>3, SeqDef, LenProperties DEF s

\* No position has no value, and a position after all others has the last one.
LEMMA ValuesNone == ASSUME NEW f PROVE ValuesAt(f, {}) = << >>
BY FS_EmptySet DEF ValuesAt

LEMMA ValuesNext ==
  ASSUME NEW f, NEW n \in Nat, NEW S \in SUBSET (1 .. n)
  PROVE  ValuesAt(f, S \cup {n + 1}) = Append(ValuesAt(f, S), f[n + 1])
<1> DEFINE T == S \cup {n + 1}
           V == Image(f, T)
           a == ValuesAt(f, T)
           s == ValuesAt(f, S)
           b == Append(s, f[n + 1])
           m == Cardinality(S)
<1>1. T \in SUBSET (1 .. n + 1) /\ n + 1 \in Nat
  OBVIOUS
<1>2. /\ m \in Nat /\ Cardinality(T) = m + 1
      /\ \A k \in 1 .. m : Nth(T, k) = Nth(S, k)
      /\ Nth(T, m + 1) = n + 1
  <2>1. m \in Nat
    BY FinitePositions
  <2> QED BY SMTT(30), <2>1, NextRanked DEF Nth
<1>3. /\ a \in Seq(V) /\ Len(a) = m + 1
      /\ \A k \in 1 .. m + 1 : a[k] = f[Nth(T, k)]
  <2> DEFINE l == n + 1
  <2>1. l \in Nat /\ T \in SUBSET (1 .. l)
    BY <1>1
  <2> HIDE DEF l, T
  <2>2. a \in Seq(V) /\ Len(a) = Cardinality(T) /\ \A k \in 1 .. Cardinality(T) : a[k] = f[Nth(T, k)]
    BY <2>1, ValuesElements
  <2> HIDE DEF a, V
  <2> QED BY <1>2, <2>2
<1>4. s \in Seq(V) /\ Len(s) = m /\ \A k \in 1 .. m : s[k] = f[Nth(S, k)]
  <2> DEFINE U == Image(f, S)
  <2>1. s \in Seq(U) /\ Len(s) = m /\ \A k \in 1 .. m : s[k] = f[Nth(S, k)]
    BY ValuesElements
  <2>2. U \subseteq V
    BY DEF Image
  <2> HIDE DEF s, U, V, m
  <2>3. \A k \in 1 .. m : s[k] \in V
    BY <2>1, <2>2, ElementOfSeq
  <2> QED BY <1>2, <2>1, <2>2, <2>3, SeqDef, LenProperties
<1>5. f[n + 1] \in V
  BY DEF Image
<1> HIDE DEF T, V, a, s, m
<1>6. b \in Seq(V) /\ Len(b) = m + 1 /\ b[m + 1] = f[n + 1] /\ \A k \in 1 .. m : b[k] = s[k]
  BY <1>2, <1>4, <1>5, AppendProperties
<1> HIDE DEF b
<1>7. ASSUME NEW k \in 1 .. m + 1 PROVE a[k] = b[k]
  <2>1. CASE k = m + 1
    BY <1>2, <1>3, <1>6, <2>1
  <2>2. CASE k # m + 1
    <3>1. k \in 1 .. m
      BY <1>2, <2>2
    <3> QED BY <1>2, <1>3, <1>4, <1>6, <3>1
  <2> QED BY <2>1, <2>2
<1>8. a = b
  BY <1>3, <1>6, <1>7, SeqEqual
<1> QED BY <1>8 DEF a, b, s, T

--------------------------------------------------------------------------------
(***************************************************************************)
(* Sequences of anything.                                                  *)
(***************************************************************************)

\* A sequence is one of its own elements.
LEMMA OwnElements ==
  ASSUME NEW S, NEW q \in Seq(S)
  PROVE  IsSequence(q)
<1>1. Len(q) \in Nat /\ DOMAIN q = 1 .. Len(q)
  OBVIOUS
<1>2. \A k \in 1 .. Len(q) : q[k] \in {q[j] : j \in DOMAIN q}
  BY <1>1
<1> QED BY SMTT(30), <1>1, <1>2 DEF IsSequence

\* What appending does to a sequence of anything.
LEMMA AppendAny ==
  ASSUME NEW q, IsSequence(q), NEW x
  PROVE  /\ IsSequence(Append(q, x))
         /\ Len(q) \in Nat
         /\ Len(Append(q, x)) = Len(q) + 1
         /\ Append(q, x)[Len(q) + 1] = x
         /\ \A k \in 1 .. Len(q) : Append(q, x)[k] = q[k]
<1> DEFINE S == {q[k] : k \in DOMAIN q} \cup {x}
           r == Append(q, x)
<1>1. q \in Seq(S)
  BY DEF IsSequence
<1>2. /\ r \in Seq(S) /\ Len(r) = Len(q) + 1 /\ Len(q) \in Nat /\ r[Len(q) + 1] = x
      /\ \A k \in 1 .. Len(q) : r[k] = q[k]
  BY <1>1
<1>3. IsSequence(r)
  <2> HIDE DEF r, S
  <2> QED BY <1>2, OwnElements
<1> QED BY <1>2, <1>3

\* What setting one element does to a sequence of anything.
LEMMA SetAny ==
  ASSUME NEW q, IsSequence(q), NEW k \in 1 .. Len(q), NEW x, NEW r, r = [q EXCEPT ![k] = x]
  PROVE  /\ IsSequence(r)
         /\ Len(r) = Len(q)
         /\ r[k] = x
         /\ \A j \in 1 .. Len(q) : j # k => r[j] = q[j]
<1> DEFINE S == {q[j] : j \in DOMAIN q} \cup {x}
<1>1. q \in Seq(S) /\ x \in S
  BY DEF IsSequence
<1>2. /\ r \in Seq(S) /\ Len(r) = Len(q) /\ r[k] = x
      /\ \A j \in 1 .. Len(q) : j # k => r[j] = q[j]
  BY <1>1
<1>3. IsSequence(r)
  <2> HIDE DEF S
  <2> QED BY <1>2, OwnElements
<1> QED BY <1>2, <1>3

\* A sequence is a function on the numbers to its length.
LEMMA SequenceFacts ==
  ASSUME NEW q, IsSequence(q)
  PROVE  Len(q) \in Nat /\ DOMAIN q = 1 .. Len(q) /\ q = [k \in 1 .. Len(q) |-> q[k]]
<1>1. q \in Seq({q[k] : k \in DOMAIN q})
  BY DEF IsSequence
<1> QED BY <1>1
================================================================================
