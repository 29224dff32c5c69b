------------------------------ MODULE PostProcessProofs ------------------------------
(***************************************************************************)
(* For every small report: the three passes lose no line, repeat none and  *)
(* count right.                                                            *)
(***************************************************************************)
EXTENDS PostProcess, PositionsProofs

--------------------------------------------------------------------------------
(***************************************************************************)
(* Sequences of anything, put together.                                    *)
(***************************************************************************)

\* Two sequences with the same elements.
LEMMA SameAny ==
  ASSUME NEW a, IsSequence(a), NEW b, IsSequence(b), Len(a) = Len(b),
         \A k \in 1 .. Len(a) : a[k] = b[k]
  PROVE  a = b
<1>1. a = [k \in 1 .. Len(a) |-> a[k]] /\ b = [k \in 1 .. Len(b) |-> b[k]]
  BY SequenceFacts
<1> QED BY <1>1

\* A function on the numbers to n.
LEMMA MadeAny ==
  ASSUME NEW n \in Nat, NEW f, f = [k \in 1 .. n |-> f[k]]
  PROVE  IsSequence(f) /\ Len(f) = n
<1> DEFINE S == {f[k] : k \in 1 .. n}
<1>1. f \in [1 .. n -> S]
  OBVIOUS
<1>2. f \in Seq(S)
  BY <1>1, SeqDef
<1>3. Len(f) = n
  BY <1>1, <1>2, LenProperties
<1> HIDE DEF S
<1> QED BY <1>2, <1>3, OwnElements

\* No elements, and one.
LEMMA FewAny ==
  /\ IsSequence(<< >>) /\ Len(<< >>) = 0
  /\ \A x : IsSequence(<<x>>) /\ Len(<<x>>) = 1 /\ <<x>>[1] = x
  /\ \A a : IsSequence(a) /\ Len(a) = 0 => a = << >>
<1>1. << >> \in Seq({}) /\ \A x : <<x>> \in Seq({x})
  OBVIOUS
<1>2. IsSequence(<< >>) /\ \A x : IsSequence(<<x>>)
  BY <1>1, OwnElements
<1>3. Len(<< >>) = 0 /\ \A x : Len(<<x>>) = 1 /\ <<x>>[1] = x
  OBVIOUS
<1> QED BY <1>2, <1>3, SameAny

\* One sequence after another.
Joins(c, a, b) ==
  /\ IsSequence(c)
  /\ Len(a) \in Nat /\ Len(b) \in Nat /\ Len(c) = Len(a) + Len(b)
  /\ \A k \in 1 .. Len(a) : c[k] = a[k]
  /\ \A k \in 1 .. Len(b) : c[Len(a) + k] = b[k]

\* One sequence after another has the elements of both, in their places.
LEMMA ConcatAny ==
  ASSUME NEW a, IsSequence(a), NEW b, IsSequence(b)
  PROVE  Joins(a \o b, a, b)
<1> DEFINE S == {a[k] : k \in DOMAIN a} \cup {b[k] : k \in DOMAIN b}
           c == a \o b
<1>1. a \in Seq(S) /\ b \in Seq(S)
  <2>1. a \in Seq({a[k] : k \in DOMAIN a}) /\ b \in Seq({b[k] : k \in DOMAIN b})
    BY DEF IsSequence
  <2> QED BY <2>1, SeqMonotonic
<1> HIDE DEF S
<1>2. /\ c \in Seq(S) /\ Len(c) = Len(a) + Len(b)
      /\ \A k \in 1 .. Len(a) + Len(b) : c[k] = IF k <= Len(a) THEN a[k] ELSE b[k - Len(a)]
  BY <1>1, ConcatProperties
<1>3. Len(a) \in Nat /\ Len(b) \in Nat
  BY SequenceFacts
<1>4. IsSequence(c)
  BY <1>2, OwnElements
<1> HIDE DEF c
<1>5. \A k \in 1 .. Len(b) : Len(a) + k \in 1 .. Len(a) + Len(b) /\ Len(a) + k - Len(a) = k
                              /\ ~(Len(a) + k <= Len(a))
  BY <1>3
<1>6. \A k \in 1 .. Len(b) : c[Len(a) + k] = b[k]
  BY <1>2, <1>5
<1>7. \A k \in 1 .. Len(a) : c[k] = a[k]
  BY <1>2, <1>3
<1>8. Joins(c, a, b)
  BY <1>2, <1>3, <1>4, <1>6, <1>7 DEF Joins
<1> QED BY <1>8 DEF c

\* Nothing added, an element added, and three sequences.
LEMMA ConcatFacts ==
  /\ \A a : IsSequence(a) => a \o << >> = a /\ << >> \o a = a
  /\ \A a, x : IsSequence(a) => a \o <<x>> = Append(a, x)
  /\ \A a, b, c : IsSequence(a) /\ IsSequence(b) /\ IsSequence(c) => (a \o b) \o c = a \o (b \o c)
<1>1. ASSUME NEW a, IsSequence(a) PROVE a \o << >> = a /\ << >> \o a = a
  <2> DEFINE S == {a[k] : k \in DOMAIN a}
  <2>1. a \in Seq(S)
    BY <1>1 DEF IsSequence
  <2> HIDE DEF S
  <2> QED BY <2>1, ConcatEmptySeq
<1>2. ASSUME NEW a, IsSequence(a), NEW o, IsSequence(o), Len(o) = 1
      PROVE  a \o o = Append(a, o[1])
  <2> SUFFICES ASSUME NEW x, x = o[1] PROVE a \o o = Append(a, x)
    OBVIOUS
  <2>1. /\ IsSequence(Append(a, x)) /\ Len(a) \in Nat /\ Len(Append(a, x)) = Len(a) + 1
        /\ Append(a, x)[Len(a) + 1] = x /\ \A k \in 1 .. Len(a) : Append(a, x)[k] = a[k]
    BY <1>2, AppendAny
  <2> DEFINE c == a \o o
  <2>2. Joins(c, a, o)
    BY <1>2, ConcatAny
  <2> HIDE DEF c
  <2>3. c[Len(a) + 1] = x
    BY <1>2, <2>2 DEF Joins
  <2>4. \A k \in 1 .. Len(a) + 1 : c[k] = Append(a, x)[k]
    BY <2>1, <2>2, <2>3 DEF Joins
  <2>5. IsSequence(c) /\ Len(c) = Len(a) + 1
    BY <1>2, <2>2 DEF Joins
  <2>6. c = Append(a, x)
    <3> SUFFICES ASSUME NEW d, d = Append(a, x) PROVE c = d
      OBVIOUS
    <3>1. IsSequence(d) /\ Len(c) = Len(d) /\ \A k \in 1 .. Len(c) : c[k] = d[k]
      BY <2>1, <2>4, <2>5
    <3> QED BY <2>5, <3>1, SameAny
  <2> QED BY <2>6 DEF c
<1>4. \A a, x : IsSequence(a) => a \o <<x>> = Append(a, x)
  BY <1>2, FewAny
<1>3. ASSUME NEW a, NEW b, NEW c, IsSequence(a), IsSequence(b), IsSequence(c)
      PROVE  (a \o b) \o c = a \o (b \o c)
  <2> DEFINE S == {a[k] : k \in DOMAIN a} \cup {b[k] : k \in DOMAIN b} \cup {c[k] : k \in DOMAIN c}
  <2>1. a \in Seq(S) /\ b \in Seq(S) /\ c \in Seq(S)
    <3>1. a \in Seq({a[k] : k \in DOMAIN a}) /\ {a[k] : k \in DOMAIN a} \subseteq S
      BY <1>3 DEF IsSequence
    <3>2. b \in Seq({b[k] : k \in DOMAIN b}) /\ {b[k] : k \in DOMAIN b} \subseteq S
      BY <1>3 DEF IsSequence
    <3>3. c \in Seq({c[k] : k \in DOMAIN c}) /\ {c[k] : k \in DOMAIN c} \subseteq S
      BY <1>3 DEF IsSequence
    <3> HIDE DEF S
    <3>4. a \in Seq(S)
      BY <3>1, SeqMonotonic
    <3>5. b \in Seq(S)
      BY <3>2, SeqMonotonic
    <3>6. c \in Seq(S)
      BY <3>3, SeqMonotonic
    <3> QED BY <3>4, <3>5, <3>6
  <2> HIDE DEF S
  <2> QED BY <2>1, ConcatAssociative
<1> QED BY <1>1, <1>3, <1>4

\* The same by name.
Both(a, b) == a \o b

\* A name for one sequence after another, which the provers do not look into.
LEMMA BothFacts ==
  /\ \A a : IsSequence(a) => Both(a, << >>) = a /\ Both(<< >>, a) = a
  /\ \A a, b : IsSequence(a) /\ IsSequence(b) => IsSequence(Both(a, b))
  /\ \A a, b, c : IsSequence(a) /\ IsSequence(b) /\ IsSequence(c)
                    => Both(Both(a, b), c) = Both(a, Both(b, c))
<1>1. \A a, b : IsSequence(a) /\ IsSequence(b) => IsSequence(a \o b)
  BY ConcatAny DEF Joins
<1>2. \A a : IsSequence(a) => Both(a, << >>) = a /\ Both(<< >>, a) = a
  BY ConcatFacts DEF Both
<1>3. \A a, b, c : IsSequence(a) /\ IsSequence(b) /\ IsSequence(c)
                     => Both(Both(a, b), c) = Both(a, Both(b, c))
  BY ConcatFacts DEF Both
<1> QED BY <1>1, <1>2, <1>3 DEF Both

\* An element is added to the second of two sequences.
LEMMA ConcatAppend ==
  ASSUME NEW a, IsSequence(a), NEW b, IsSequence(b), NEW x
  PROVE  Append(a \o b, x) = a \o Append(b, x)
<1> DEFINE c == a \o b
<1>1. IsSequence(c)
  BY ConcatAny DEF Joins
<1>2. ASSUME NEW o, IsSequence(o) PROVE c \o o = a \o (b \o o)
  BY <1>2, ConcatFacts
<1> HIDE DEF c
<1>3. IsSequence(<<x>>)
  BY FewAny
<1>4. c \o <<x>> = a \o (b \o <<x>>)
  BY <1>2, <1>3
<1>5. c \o <<x>> = Append(c, x)
  BY <1>1, ConcatFacts
<1>6. b \o <<x>> = Append(b, x)
  BY ConcatFacts
<1> QED BY <1>4, <1>5, <1>6 DEF c

\* An element at the end of the second sequence is at the end of both.
LEMMA BothAppend ==
  \A a, b, x : IsSequence(a) /\ IsSequence(b) => Append(Both(a, b), x) = Both(a, Append(b, x))
BY ConcatAppend DEF Both

--------------------------------------------------------------------------------
(***************************************************************************)
(* Sequences of sequences, flattened.                                      *)
(***************************************************************************)

Chunks(q) == IsSequence(q) /\ \A i \in 1 .. Len(q) : IsSequence(q[i])

\* What is flattened after each of the first sequences.
Flattens(f, q, n) ==
  f = [i \in 1 .. n |-> IF i = 1 THEN q[i] ELSE f[i - 1] \o q[i]]

\* There is such a thing.
LEMMA FlattensExists ==
  ASSUME NEW q, NEW n \in Nat
  PROVE  \E f : Flattens(f, q, n)
<1> DEFINE N == {m \in Nat : \E f : Flattens(f, q, m)}
<1>1. 0 \in N
  <2>1. Flattens([i \in 1 .. 0 |-> i], q, 0)
    BY DEF Flattens
  <2> QED BY <2>1
<1>2. ASSUME NEW m \in Nat, m \in N PROVE m + 1 \in N
  <2>1. PICK f : Flattens(f, q, m)
    BY <1>2
  <2> DEFINE x == IF m + 1 = 1 THEN q[1] ELSE f[m] \o q[m + 1]
             g == [i \in 1 .. m + 1 |-> IF i = m + 1 THEN x ELSE f[i]]
  <2>2. ASSUME NEW i \in 1 .. m + 1
        PROVE  g[i] = IF i = 1 THEN q[i] ELSE g[i - 1] \o q[i]
    <3>1. CASE i = m + 1
      <4>1. g[i] = x
        BY <3>1
      <4>2. CASE m = 0
        BY <3>1, <4>1, <4>2
      <4>3. CASE m # 0
        <5>1. m \in 1 .. m + 1 /\ m # m + 1 /\ m + 1 # 1 /\ i - 1 = m
          BY <3>1, <4>3
        <5>2. g[m] = f[m]
          BY <5>1
        <5> HIDE DEF g
        <5> QED BY <3>1, <4>1, <5>1, <5>2
      <4> QED BY <4>2, <4>3
    <3>2. CASE i # m + 1
      <4>1. i \in 1 .. m
        BY <3>2
      <4>2. g[i] = f[i]
        BY <3>2
      <4>3. f[i] = IF i = 1 THEN q[i] ELSE f[i - 1] \o q[i]
        BY <2>1, <4>1 DEF Flattens
      <4>4. i # 1 => i - 1 \in 1 .. m + 1 /\ i - 1 # m + 1
        BY <4>1
      <4>5. i # 1 => g[i - 1] = f[i - 1]
        BY <4>4
      <4> HIDE DEF g
      <4> QED BY <4>2, <4>3, <4>5
    <3> QED BY <3>1, <3>2
  <2>3. Flattens(g, q, m + 1)
    <3>1. g = [i \in 1 .. m + 1 |-> g[i]]
      OBVIOUS
    <3> HIDE DEF g
    <3> QED BY <2>2, <3>1 DEF Flattens
  <2> HIDE DEF g
  <2> QED BY <2>3
<1>3. Nat \subseteq N
  <2> HIDE DEF N
  <2> QED BY <1>1, <1>2, NatSet
<1> QED BY <1>3

\* It is the same for all sequences that start alike.
LEMMA FlattensSame ==
  ASSUME NEW q, NEW p, NEW n \in Nat, NEW m \in Nat, NEW f, NEW g, Flattens(f, q, n),
         Flattens(g, p, m), n <= m, \A i \in 1 .. n : p[i] = q[i]
  PROVE  \A i \in 1 .. n : f[i] = g[i]
<1> DEFINE N == {j \in Nat : j \in 1 .. n => f[j] = g[j]}
<1>4. \A i \in 1 .. n : f[i] = IF i = 1 THEN q[i] ELSE f[i - 1] \o q[i]
  BY DEF Flattens
<1>5. \A i \in 1 .. m : g[i] = IF i = 1 THEN p[i] ELSE g[i - 1] \o p[i]
  BY DEF Flattens
<1>1. 0 \in N
  OBVIOUS
<1>2. ASSUME NEW j \in Nat, j \in N PROVE j + 1 \in N
  <2> SUFFICES ASSUME j + 1 \in 1 .. n PROVE f[j + 1] = g[j + 1]
    OBVIOUS
  <2>1. j + 1 \in 1 .. n /\ j + 1 \in 1 .. m /\ j + 1 - 1 = j
    OBVIOUS
  <2>2. f[j + 1] = IF j + 1 = 1 THEN q[j + 1] ELSE f[j] \o q[j + 1]
    BY <1>4, <2>1
  <2>3. g[j + 1] = IF j + 1 = 1 THEN p[j + 1] ELSE g[j] \o p[j + 1]
    BY <1>5, <2>1
  <2>4. j + 1 # 1 => f[j] = g[j]
    BY <1>2
  <2>5. p[j + 1] = q[j + 1]
    OBVIOUS
  <2> QED BY <2>2, <2>3, <2>4, <2>5
<1>3. Nat \subseteq N
  <2> HIDE DEF N
  <2> QED BY <1>1, <1>2, NatSet
<1> QED BY <1>3

\* FlattenSeq is the last of it.
LEMMA FlattenIs ==
  ASSUME NEW q, IsSequence(q), q # << >>
  PROVE  \E f : Flattens(f, q, Len(q)) /\ FlattenSeq(q) = f[Len(q)]
<1>1. Len(q) \in Nat /\ Len(q) # 0
  BY SequenceFacts, FewAny
<1> DEFINE g == CHOOSE f : Flattens(f, q, Len(q))
<1>2. Flattens(g, q, Len(q))
  BY <1>1, FlattensExists
<1>3. FlattenSeq(q) = g[Len(q)]
  BY <1>1 DEF FlattenSeq, Flattens
<1> QED BY <1>2, <1>3

\* Nothing, and one more.
LEMMA FlattenNone == FlattenSeq(<< >>) = << >>
BY FewAny DEF FlattenSeq

\* One sequence more is put at the end of what is flattened.
LEMMA FlattenNext ==
  ASSUME NEW q, IsSequence(q), NEW x, IsSequence(x)
  PROVE  FlattenSeq(Append(q, x)) = FlattenSeq(q) \o x
<1> DEFINE p == Append(q, x)
           n == Len(q)
<1>1. /\ IsSequence(p) /\ n \in Nat /\ Len(p) = n + 1 /\ p[n + 1] = x
      /\ \A k \in 1 .. n : p[k] = q[k]
  BY AppendAny
<1>2. p # << >>
  BY <1>1, FewAny
<1> HIDE DEF p
<1>3. PICK g : Flattens(g, p, n + 1) /\ FlattenSeq(p) = g[n + 1]
  BY <1>1, <1>2, FlattenIs
<1>4. g[n + 1] = IF n + 1 = 1 THEN x ELSE g[n] \o x
  <2>1. n + 1 \in 1 .. n + 1 /\ n + 1 - 1 = n
    BY <1>1
  <2>2. \A i \in 1 .. n + 1 : g[i] = IF i = 1 THEN p[i] ELSE g[i - 1] \o p[i]
    <3> HIDE DEF n
    <3> QED BY <1>3 DEF Flattens
  <2> HIDE DEF n
  <2> QED BY <1>1, <2>1, <2>2
<1>5. CASE q = << >>
  <2>1. n = 0 /\ n + 1 = 1
    BY <1>5, FewAny
  <2> QED BY <1>3, <1>4, <1>5, <2>1, FlattenNone, ConcatFacts DEF p
<1>6. CASE q # << >>
  <2>1. n \in 1 .. n /\ n + 1 # 1 /\ n <= n + 1
    BY <1>1, <1>6, FewAny
  <2>2. PICK f : Flattens(f, q, n) /\ FlattenSeq(q) = f[n]
    BY <1>6, FlattenIs
  <2>3. \A i \in 1 .. n : f[i] = g[i]
    <3>1. n + 1 \in Nat
      BY <1>1
    <3> HIDE DEF n
    <3> QED BY <1>1, <1>3, <2>1, <2>2, <3>1, FlattensSame
  <2> QED BY <1>3, <1>4, <2>1, <2>2, <2>3 DEF p
<1> QED BY <1>5, <1>6

\* What is flattened is a sequence.
LEMMA FlattenAny ==
  ASSUME NEW q, Chunks(q)
  PROVE  IsSequence(FlattenSeq(q))
<1>1. IsSequence(q) /\ Len(q) \in Nat /\ \A i \in 1 .. Len(q) : IsSequence(q[i])
  BY SequenceFacts DEF Chunks
<1>2. CASE q = << >>
  BY <1>2, FlattenNone, FewAny
<1>3. CASE q # << >>
  <2>1. PICK f : Flattens(f, q, Len(q)) /\ FlattenSeq(q) = f[Len(q)]
    BY <1>1, <1>3, FlattenIs
  <2>2. \A i \in 1 .. Len(q) : f[i] = IF i = 1 THEN q[i] ELSE f[i - 1] \o q[i]
    BY <2>1 DEF Flattens
  <2> DEFINE N == {j \in Nat : j \in 1 .. Len(q) => IsSequence(f[j])}
  <2>3. 0 \in N
    OBVIOUS
  <2>4. ASSUME NEW j \in Nat, j \in N PROVE j + 1 \in N
    <3> SUFFICES ASSUME NEW k \in 1 .. Len(q), k = j + 1 PROVE IsSequence(f[k])
      OBVIOUS
    <3>1. k - 1 = j /\ k \in Nat
      OBVIOUS
    <3>2. IsSequence(q[k])
      BY <1>1
    <3>3. CASE k = 1
      BY <2>2, <3>2, <3>3
    <3>4. CASE k # 1
      <4>1. j \in 1 .. Len(q)
        BY <1>1, <3>4
      <4>2. IsSequence(f[j])
        BY <2>4, <4>1
      <4>3. IsSequence(f[j] \o q[k])
        BY <3>2, <4>2, ConcatAny DEF Joins
      <4>4. f[k] = f[j] \o q[k]
        BY <2>2, <3>1, <3>4
      <4> QED BY <4>3, <4>4
    <3> QED BY <3>3, <3>4
  <2>5. Nat \subseteq N
    <3> HIDE DEF N
    <3> QED BY <2>3, <2>4, NatSet
  <2>6. Len(q) \in 1 .. Len(q)
    BY <1>1, <1>3, FewAny
  <2> QED BY <1>1, <2>1, <2>5, <2>6
<1> QED BY <1>2, <1>3

--------------------------------------------------------------------------------
(***************************************************************************)
(* The third pass.                                                         *)
(***************************************************************************)

Pieces(r, n) == [i \in 1 .. n |-> Replacement(r, i)]
Made(r, n)   == FlattenSeq(Pieces(r, n))

\* What a line becomes is a sequence.
LEMMA ReplacementAny == \A r, i : IsSequence(Replacement(r, i))
<1>1. \A x, y : IsSequence(<<x, y>>)
  <2> SUFFICES ASSUME NEW x, NEW y PROVE IsSequence(<<x, y>>)
    OBVIOUS
  <2>1. <<x, y>> \in Seq({x, y})
    OBVIOUS
  <2> QED BY <2>1, OwnElements
<1>2. \A i, d, names : IsSequence(Summary(i, d, names))
  BY <1>1 DEF Summary
<1> QED BY <1>2, FewAny DEF Replacement

\* What one line more makes.
LEMMA PiecesAny ==
  ASSUME NEW r, NEW n \in Nat
  PROVE  /\ IsSequence(Pieces(r, n)) /\ Len(Pieces(r, n)) = n
         /\ \A i \in 1 .. n : Pieces(r, n)[i] = Replacement(r, i)
<1> DEFINE f == Pieces(r, n)
<1>1. f = [i \in 1 .. n |-> f[i]] /\ \A i \in 1 .. n : f[i] = Replacement(r, i)
  BY DEF Pieces
<1> HIDE DEF f
<1>2. IsSequence(f) /\ Len(f) = n
  BY <1>1, MadeAny
<1> QED BY <1>1, <1>2 DEF f

\* The lines made of one line more.
LEMMA MadeNext ==
  ASSUME NEW r, NEW n \in Nat, NEW m, m = n + 1
  PROVE  /\ IsSequence(Made(r, n))
         /\ Made(r, m) = Made(r, n) \o Replacement(r, m)
<1> SUFFICES ASSUME NEW x, x = Replacement(r, m),
                    NEW f, f = Pieces(r, n), NEW g, g = Pieces(r, m)
             PROVE  /\ IsSequence(FlattenSeq(f))
                    /\ FlattenSeq(g) = FlattenSeq(f) \o x
  BY DEF Made
<1>1. /\ IsSequence(f) /\ Len(f) = n /\ IsSequence(g) /\ Len(g) = n + 1
      /\ \A i \in 1 .. n : f[i] = Replacement(r, i)
      /\ \A i \in 1 .. n + 1 : g[i] = Replacement(r, i)
  <2>1. IsSequence(f) /\ Len(f) = n /\ \A i \in 1 .. n : f[i] = Replacement(r, i)
    BY PiecesAny
  <2>2. m \in Nat
    OBVIOUS
  <2>3. IsSequence(g) /\ Len(g) = m /\ \A i \in 1 .. m : g[i] = Replacement(r, i)
    BY <2>2, PiecesAny
  <2> QED BY <2>1, <2>3
<1>2. IsSequence(x)
  BY ReplacementAny
<1>3. /\ IsSequence(Append(f, x)) /\ Len(Append(f, x)) = n + 1 /\ Append(f, x)[n + 1] = x
      /\ \A k \in 1 .. n : Append(f, x)[k] = f[k]
  BY <1>1, AppendAny
<1>4. g = Append(f, x)
  <2> SUFFICES ASSUME NEW d, d = Append(f, x) PROVE g = d
    OBVIOUS
  <2>1. IsSequence(d) /\ Len(g) = Len(d) /\ \A k \in 1 .. Len(g) : g[k] = d[k]
    BY <1>1, <1>3
  <2> QED BY <1>1, <2>1, SameAny
<1>5. Chunks(f)
  BY <1>1, ReplacementAny DEF Chunks
<1> QED BY <1>1, <1>2, <1>4, <1>5, FlattenAny, FlattenNext

\* Nothing is made of no lines.
LEMMA MadeNone == ASSUME NEW r PROVE Made(r, 0) = << >>
<1>1. Pieces(r, 0) = << >>
  BY PiecesAny, FewAny
<1> QED BY <1>1, FlattenNone DEF Made

\* The report has two tags from a line on.
LEMMA TwoTags ==
  ASSUME NEW r, NEW i \in Int, NEW a, NEW b
  PROVE  Tags(r, i, <<a, b>>) <=> i + 1 <= Len(r) /\ r[i].tag = a /\ r[i + 1].tag = b
<1>1. ASSUME NEW t, Len(t) = 2, DOMAIN t = 1 .. 2, t[1] = a, t[2] = b
      PROVE  Tags(r, i, t) <=> i + 1 <= Len(r) /\ r[i].tag = a /\ r[i + 1].tag = b
  <2>1. i + 1 - 1 = i /\ i + 2 - 1 = i + 1
    OBVIOUS
  <2>2. \A k \in 1 .. 2 : k = 1 \/ k = 2
    OBVIOUS
  <2>3. 1 \in 1 .. 2 /\ 2 \in 1 .. 2
    OBVIOUS
  <2> QED BY <1>1, <2>1, <2>2, <2>3 DEF Tags
<1>2. Len(<<a, b>>) = 2 /\ DOMAIN <<a, b>> = 1 .. 2 /\ <<a, b>>[1] = a /\ <<a, b>>[2] = b
  OBVIOUS
<1> QED BY <1>1, <1>2

\* And three, which the first pass looks for.
LEMMA ThreeTags ==
  ASSUME NEW r, NEW i \in Int, NEW a, NEW b, NEW c
  PROVE  Tags(r, i, <<a, b, c>>) <=> /\ i + 2 <= Len(r)
                                     /\ r[i].tag = a /\ r[i + 1].tag = b /\ r[i + 2].tag = c
<1>1. ASSUME NEW t, Len(t) = 3, DOMAIN t = 1 .. 3, t[1] = a, t[2] = b, t[3] = c
      PROVE  Tags(r, i, t) <=> /\ i + 2 <= Len(r)
                               /\ r[i].tag = a /\ r[i + 1].tag = b /\ r[i + 2].tag = c
  <2>1. i + 1 - 1 = i /\ i + 2 - 1 = i + 1 /\ i + 3 - 1 = i + 2
    OBVIOUS
  <2>2. \A k \in 1 .. 3 : k = 1 \/ k = 2 \/ k = 3
    OBVIOUS
  <2>3. 1 \in 1 .. 3 /\ 2 \in 1 .. 3 /\ 3 \in 1 .. 3
    OBVIOUS
  <2> QED BY <1>1, <2>1, <2>2, <2>3 DEF Tags
<1>2. /\ Len(<<a, b, c>>) = 3 /\ DOMAIN <<a, b, c>> = 1 .. 3
      /\ <<a, b, c>>[1] = a /\ <<a, b, c>>[2] = b /\ <<a, b, c>>[3] = c
  OBVIOUS
<1> QED BY <1>1, <1>2

\* Where a member has moved and nothing else is said of it.
LEMMA OffsetOnlyIs ==
  ASSUME NEW r, NEW i \in Int
  PROVE  OffsetOnly(r, i) <=> /\ i + 2 <= Len(r)
                              /\ i + 1 <= Len(r)
                              /\ r[i].tag = "member" /\ r[i + 1].tag = "offset"
                              /\ r[i].indent + 2 = r[i + 1].indent
                              /\ r[i].indent >= r[i + 2].indent
<1>1. Tags(r, i, <<"member", "offset">>) <=> /\ i + 1 <= Len(r)
                                             /\ r[i].tag = "member" /\ r[i + 1].tag = "offset"
  BY TwoTags
<1> QED BY <1>1 DEF OffsetOnly

\* The members that moved alike on the lines from s on, so many of them.
RunTo(r, s, n) ==
  /\ s \in Nat \ {0} /\ n \in Nat \ {0} /\ s + 2 * n <= Len(r)
  /\ \A k \in 0 .. n - 1 : OffsetOnly(r, s + 2 * k)
  /\ \A k \in 1 .. n - 1 : Continues(r, s + 2 * k)
  /\ ~Continues(r, s)

NamesFrom(r, s, n) == [k \in 1 .. n |-> r[s + 2 * (k - 1)].name]

\* That is what the property finds.
LEMMA RunIs ==
  ASSUME NEW r, IsSequence(r), NEW s, NEW n, RunTo(r, s, n), ~Continues(r, s + 2 * n)
  PROVE  Run(r, s) = NamesFrom(r, s, n)
<1>1. Len(r) \in Nat /\ s \in Nat \ {0} /\ n \in Nat \ {0} /\ s + 2 * n <= Len(r)
  BY SequenceFacts DEF RunTo
<1> DEFINE Right(e) ==
             /\ \A j \in {s + 2 * k : k \in 1 .. Len(r)} : j <= e => Continues(r, j)
             /\ e + 2 > Len(r) \/ ~Continues(r, e + 2)
           last == s + 2 * (n - 1)
<1>2. last \in {s + 2 * k : k \in 0 .. Len(r)}
  <2>1. n - 1 \in 0 .. Len(r)
    BY <1>1
  <2> QED BY <2>1
<1>3. Right(last)
  <2>1. ASSUME NEW k \in 1 .. Len(r), s + 2 * k <= last PROVE Continues(r, s + 2 * k)
    <3>1. k \in 1 .. n - 1
      BY <1>1, <2>1
    <3> QED BY <3>1 DEF RunTo
  <2>2. last + 2 = s + 2 * n
    BY <1>1
  <2> QED BY <2>1, <2>2
<1>4. ASSUME NEW k \in 0 .. Len(r), Right(s + 2 * k) PROVE s + 2 * k = last
  <2>1. CASE k < n - 1
    <3>1. k + 1 \in 1 .. n - 1 /\ s + 2 * k + 2 = s + 2 * (k + 1)
      BY <1>1, <2>1
    <3>2. Continues(r, s + 2 * (k + 1))
      BY <3>1 DEF RunTo
    <3>3. ~(s + 2 * k + 2 > Len(r))
      BY <1>1, <2>1
    <3> QED BY <1>4, <3>1, <3>2, <3>3
  <2>2. CASE k > n - 1
    <3>1. n \in 1 .. Len(r) /\ s + 2 * n <= s + 2 * k
      BY <1>1, <2>2
    <3> QED BY <1>4, <3>1
  <2>3. CASE k = n - 1
    BY <2>3
  <2> QED BY <1>1, <2>1, <2>2, <2>3
<1>5. RunEnd(r, s) = last
  <2>1. RunEnd(r, s) = CHOOSE e \in {s + 2 * k : k \in 0 .. Len(r)} : Right(e)
    BY DEF RunEnd
  <2>2. \A e \in {s + 2 * k : k \in 0 .. Len(r)} : Right(e) => e = last
    BY <1>4
  <2> HIDE DEF Right, last
  <2> QED BY <1>2, <1>3, <2>1, <2>2
<1>6. (last - s) \div 2 + 1 = n
  BY <1>1
<1> QED BY <1>5, <1>6 DEF Run, NamesFrom

\* The lines of a run after the first become nothing.
LEMMA RunRest ==
  ASSUME NEW r, IsSequence(r), NEW s, NEW n, RunTo(r, s, n), NEW j \in s + 1 .. s + 2 * n - 1
  PROVE  Replacement(r, j) = << >>
<1>1. Len(r) \in Nat /\ s \in Nat \ {0} /\ n \in Nat \ {0} /\ s + 2 * n <= Len(r)
  BY SequenceFacts DEF RunTo
<1>2. PICK k \in 0 .. n - 1 : j = s + 2 * k \/ j = s + 2 * k + 1
  <2> DEFINE k == (j - s) \div 2
  <2>1. k \in 0 .. n - 1 /\ (j = s + 2 * k \/ j = s + 2 * k + 1)
    BY <1>1
  <2> QED BY <2>1
<1>3. OffsetOnly(r, s + 2 * k)
  BY DEF RunTo
<1>4. CASE j = s + 2 * k
  <2>1. k \in 1 .. n - 1
    BY <1>1, <1>4
  <2>2. Continues(r, j)
    BY <1>4, <2>1 DEF RunTo
  <2> QED BY <1>3, <1>4, <2>2 DEF Replacement
<1>5. CASE j = s + 2 * k + 1
  <2>1. j - 1 = s + 2 * k /\ j > 1
    BY <1>1, <1>5
  <2> SUFFICES ASSUME NEW i \in Int, i = s + 2 * k PROVE ~OffsetOnly(r, j)
    BY <1>1, <1>3, <2>1 DEF Replacement
  <2>2. r[j].tag = "offset"
    BY <1>3, <1>5, OffsetOnlyIs
  <2> QED BY <2>2, OffsetOnlyIs
<1> QED BY <1>2, <1>4, <1>5

\* A whole run becomes its summary.
LEMMA RunMade ==
  ASSUME NEW r, IsSequence(r), NEW s, NEW n, RunTo(r, s, n), ~Continues(r, s + 2 * n),
         NEW m, m = s + 2 * n - 1, NEW l, l = s - 1
  PROVE  Made(r, m) = Made(r, l) \o Summary(r[s].indent, r[s + 1].offset, NamesFrom(r, s, n))
<1>1. Len(r) \in Nat /\ s \in Nat \ {0} /\ n \in Nat \ {0} /\ l \in Nat /\ s = l + 1
  BY SequenceFacts DEF RunTo
<1>2. OffsetOnly(r, s) /\ ~Continues(r, s)
  <2>1. 0 \in 0 .. n - 1 /\ s + 2 * 0 = s
    BY <1>1
  <2> QED BY <2>1 DEF RunTo
<1>3. Replacement(r, s) = Summary(r[s].indent, r[s + 1].offset, NamesFrom(r, s, n))
  BY <1>2, RunIs DEF Replacement
<1>4. Made(r, s) = Made(r, l) \o Summary(r[s].indent, r[s + 1].offset, NamesFrom(r, s, n))
  <2>1. Made(r, s) = Made(r, l) \o Replacement(r, s)
    BY <1>1, MadeNext
  <2> QED BY <1>3, <2>1
<1> DEFINE N == {j \in Nat : s + j <= m => Made(r, s + j) = Made(r, s)}
<1>5. 0 \in N
  BY <1>1
<1>6. ASSUME NEW j \in Nat, j \in N PROVE j + 1 \in N
  <2> SUFFICES ASSUME s + (j + 1) <= m PROVE Made(r, s + (j + 1)) = Made(r, s)
    OBVIOUS
  <2> SUFFICES ASSUME NEW i, i = s + j, NEW k, k = i + 1 PROVE Made(r, k) = Made(r, s)
    BY <1>1
  <2>1. i \in Nat /\ k \in s + 1 .. s + 2 * n - 1 /\ i <= m
    BY <1>1
  <2>2. Replacement(r, k) = << >>
    BY <2>1, RunRest
  <2>3. Made(r, k) = Made(r, i) \o << >> /\ IsSequence(Made(r, i))
    BY ZenonT(40), <2>1, <2>2, MadeNext
  <2>4. Made(r, i) = Made(r, s)
    BY <1>6, <2>1
  <2> QED BY <2>3, <2>4, ConcatFacts
<1>7. Nat \subseteq N
  <2> HIDE DEF N
  <2> QED BY <1>5, <1>6, NatSet
<1>8. m - s \in Nat /\ s + (m - s) = m
  BY <1>1
<1>9. Made(r, m) = Made(r, s)
  BY <1>7, <1>8
<1> QED BY <1>4, <1>9

\* The first n lines have been dealt with: they are made what they are to become, but for
\* the members held back, which moved alike on the last of these lines.
OffsetsTo(r, n, made, names, i, d) ==
  /\ names = << >> => /\ made = Made(r, n)
                      /\ n > 0 => ~OffsetOnly(r, n)
                      /\ n > 1 => ~OffsetOnly(r, n - 1)
  /\ names # << >> => \E s : /\ RunTo(r, s, Len(names)) /\ s + 2 * Len(names) = n + 1
                             /\ names = NamesFrom(r, s, Len(names))
                             /\ \A k \in 0 .. Len(names) - 1 :
                                  r[s + 2 * k].indent = i /\ r[s + 2 * k + 1].offset = d
                             /\ made = Made(r, s - 1)

Held(names, i, d) == IF names = << >> THEN << >> ELSE Summary(i, d, names)

\* What a pass has held back is made when it does not go on.
LEMMA HeldMade ==
  ASSUME NEW r, IsSequence(r), NEW n \in Nat, NEW made, NEW names, IsSequence(names), NEW i, NEW d,
         OffsetsTo(r, n, made, names, i, d), NEW m, m = n + 1, ~Continues(r, m)
  PROVE  made \o Held(names, i, d) = Made(r, n) /\ IsSequence(Made(r, n))
<1>1. IsSequence(Made(r, n))
  BY MadeNext
<1>2. CASE names = << >>
  <2>1. made = Made(r, n) /\ Held(names, i, d) = << >>
    BY <1>2 DEF OffsetsTo, Held
  <2> QED BY <1>1, <2>1, ConcatFacts
<1>3. CASE names # << >>
  <2>1. PICK s : /\ RunTo(r, s, Len(names)) /\ s + 2 * Len(names) = n + 1
                 /\ names = NamesFrom(r, s, Len(names))
                 /\ \A k \in 0 .. Len(names) - 1 :
                      r[s + 2 * k].indent = i /\ r[s + 2 * k + 1].offset = d
                 /\ made = Made(r, s - 1)
    BY <1>3 DEF OffsetsTo
  <2> SUFFICES ASSUME NEW c, c = Len(names), NEW l, l = s - 1
               PROVE  made \o Held(names, i, d) = Made(r, n)
    BY <1>1
  <2>2. c \in Nat \ {0} /\ s \in Nat \ {0} /\ n = s + 2 * c - 1 /\ s + 2 * c = m
    BY <2>1 DEF RunTo
  <2>3. r[s].indent = i /\ r[s + 1].offset = d
    <3>1. 0 \in 0 .. c - 1 /\ s + 2 * 0 = s
      BY <2>2
    <3> QED BY <2>1, <3>1
  <2>4. Made(r, n) = Made(r, l) \o Summary(r[s].indent, r[s + 1].offset, NamesFrom(r, s, c))
    BY ZenonT(40), <2>1, <2>2, RunMade
  <2> QED BY <1>3, <2>1, <2>3, <2>4 DEF Held
<1> QED BY <1>1, <1>2, <1>3

\* A first member is held.
LEMMA HoldFirst ==
  ASSUME NEW r, IsSequence(r), NEW m \in Nat \ {0}, OffsetOnly(r, m), ~Continues(r, m),
         NEW l, l = m - 1, NEW n, n = m + 1
  PROVE  OffsetsTo(r, n, Made(r, l), <<r[m].name>>, r[m].indent, r[m + 1].offset)
<1>1. Len(r) \in Nat /\ m + 2 <= Len(r)
  BY SequenceFacts DEF OffsetOnly
<1> DEFINE names == NamesFrom(r, m, 1)
<1>2. names = <<r[m].name>> /\ Len(names) = 1 /\ names # << >>
  <2>1. m + 2 * (1 - 1) = m
    OBVIOUS
  <2>2. names = [k \in 1 .. 1 |-> r[m].name]
    BY <2>1 DEF NamesFrom
  <2>3. names = <<r[m].name>>
    BY <2>2
  <2> HIDE DEF names
  <2> QED BY <2>3, FewAny
<1> HIDE DEF names
<1>3. RunTo(r, m, 1)
  <2>1. \A k \in 0 .. 1 - 1 : m + 2 * k = m
    OBVIOUS
  <2>2. 1 .. 1 - 1 = {}
    OBVIOUS
  <2> QED BY <1>1, <2>1, <2>2 DEF RunTo
<1>4. \A k \in 0 .. 1 - 1 : r[m + 2 * k].indent = r[m].indent /\ r[m + 2 * k + 1].offset = r[m + 1].offset
  <2>1. \A k \in 0 .. 1 - 1 : m + 2 * k = m
    OBVIOUS
  <2> QED BY <2>1
<1>5. OffsetsTo(r, n, Made(r, l), names, r[m].indent, r[m + 1].offset)
  <2>1. m + 2 * 1 = n + 1
    OBVIOUS
  <2> QED BY <1>2, <1>3, <1>4, <2>1 DEF OffsetsTo, names
<1> QED BY <1>2, <1>5

\* What is held is a run that ends before this line: does it go on here?
LEMMA GoesOn ==
  ASSUME NEW r, IsSequence(r), NEW n \in Nat, NEW made, NEW names, IsSequence(names), NEW i, NEW d,
         OffsetsTo(r, n, made, names, i, d), NEW m, m = n + 1, OffsetOnly(r, m)
  PROVE  Continues(r, m) <=> /\ names # << >>
                             /\ r[m].indent = i /\ r[m + 1].offset = d
<1>1. CASE names = << >>
  <2>1. m > 2 => ~OffsetOnly(r, m - 2)
    <3>1. m > 2 => n > 1 /\ m - 2 = n - 1
      OBVIOUS
    <3> QED BY <1>1, <3>1 DEF OffsetsTo
  <2> QED BY <1>1, <2>1 DEF Continues
<1>2. CASE names # << >>
  <2>1. PICK s : /\ RunTo(r, s, Len(names)) /\ s + 2 * Len(names) = n + 1
                 /\ \A k \in 0 .. Len(names) - 1 :
                      r[s + 2 * k].indent = i /\ r[s + 2 * k + 1].offset = d
    BY <1>2 DEF OffsetsTo
  <2> SUFFICES ASSUME NEW k, k = Len(names) - 1, NEW p, p = s + 2 * k
               PROVE  Continues(r, m) <=> r[m].indent = i /\ r[m + 1].offset = d
    BY <1>2
  <2>2. k \in 0 .. Len(names) - 1 /\ p \in Nat \ {0} /\ m - 2 = p /\ m - 1 = p + 1 /\ m > 2
    BY SMTT(30), <2>1 DEF RunTo
  <2>3. OffsetOnly(r, p) /\ r[p].indent = i /\ r[p + 1].offset = d
    BY <2>1, <2>2 DEF RunTo
  <2> QED BY <2>2, <2>3 DEF Continues
<1> QED BY <1>1, <1>2

\* A member like those held is held too.
LEMMA HoldNext ==
  ASSUME NEW r, IsSequence(r), NEW n \in Nat, NEW made, NEW names, IsSequence(names), NEW i, NEW d,
         OffsetsTo(r, n, made, names, i, d), NEW m, m = n + 1, OffsetOnly(r, m),
         r[m].indent = i, r[m + 1].offset = d, NEW l, l = n + 2
  PROVE  OffsetsTo(r, l, made, Append(names, r[m].name), i, d)
<1>1. CASE names = << >>
  <2>1. ~Continues(r, m)
    BY <1>1, GoesOn
  <2>2. n = m - 1 /\ l = m + 1 /\ m \in Nat \ {0}
    OBVIOUS
  <2>3. OffsetsTo(r, l, Made(r, n), <<r[m].name>>, r[m].indent, r[m + 1].offset)
    BY <2>1, <2>2, HoldFirst
  <2>4. made = Made(r, n)
    BY <1>1 DEF OffsetsTo
  <2>5. Append(names, r[m].name) = <<r[m].name>>
    BY <1>1, FewAny, ConcatFacts
  <2> QED BY <2>3, <2>4, <2>5
<1>2. CASE names # << >>
  <2>1. PICK s : /\ RunTo(r, s, Len(names)) /\ s + 2 * Len(names) = n + 1
                 /\ names = NamesFrom(r, s, Len(names))
                 /\ \A k \in 0 .. Len(names) - 1 :
                      r[s + 2 * k].indent = i /\ r[s + 2 * k + 1].offset = d
                 /\ made = Made(r, s - 1)
    BY <1>2 DEF OffsetsTo
  <2> SUFFICES ASSUME NEW c, c = Len(names), NEW new, new = Append(names, r[m].name),
                      NEW e, e = c + 1
               PROVE  OffsetsTo(r, l, made, new, i, d)
    OBVIOUS
  <2>2. /\ c \in Nat \ {0} /\ s \in Nat \ {0} /\ s + 2 * c = m /\ s + 2 * e = l + 1
        /\ Len(r) \in Nat /\ e \in Nat \ {0} /\ c = e - 1
    BY <2>1, SequenceFacts DEF RunTo
  <2>3. /\ IsSequence(new) /\ Len(new) = e /\ new[e] = r[m].name
        /\ \A k \in 1 .. c : new[k] = names[k]
    BY AppendAny
  <2>4. Continues(r, m)
    BY <1>2, GoesOn
  <2>5. \A k \in 0 .. e - 1 : k \in 0 .. c - 1 \/ (k = c /\ s + 2 * k = m)
    BY <2>2
  <2>6. RunTo(r, s, e)
    <3>1. s + 2 * e <= Len(r)
      BY <2>2 DEF OffsetOnly
    <3>2. \A k \in 0 .. e - 1 : OffsetOnly(r, s + 2 * k)
      BY <2>1, <2>5 DEF RunTo
    <3>3. \A k \in 1 .. e - 1 : Continues(r, s + 2 * k)
      <4>1. \A k \in 1 .. e - 1 : k \in 1 .. c - 1 \/ (k = c /\ s + 2 * k = m)
        BY <2>2
      <4> QED BY <2>1, <2>4, <4>1 DEF RunTo
    <3>4. e \in Nat \ {0} /\ ~Continues(r, s)
      BY <2>1, <2>2 DEF RunTo
    <3> QED BY <2>2, <3>1, <3>2, <3>3, <3>4 DEF RunTo
  <2>7. new = NamesFrom(r, s, e)
    <3> SUFFICES ASSUME NEW t, t = NamesFrom(r, s, e) PROVE new = t
      OBVIOUS
    <3>1. t = [k \in 1 .. e |-> t[k]] /\ \A k \in 1 .. e : t[k] = r[s + 2 * (k - 1)].name
      BY DEF NamesFrom
    <3>2. IsSequence(t) /\ Len(t) = e
      BY <2>2, <3>1, MadeAny
    <3>3. \A k \in 1 .. c : names[k] = r[s + 2 * (k - 1)].name
      BY <2>1 DEF NamesFrom
    <3>4. s + 2 * (e - 1) = m /\ e \in 1 .. e
      BY <2>2
    <3>5. \A k \in 1 .. e : k \in 1 .. c \/ k = e
      BY <2>2
    <3>6. \A k \in 1 .. e : new[k] = t[k]
      BY <2>3, <3>1, <3>3, <3>4, <3>5
    <3> QED BY <2>3, <3>2, <3>6, SameAny
  <2>8. \A k \in 0 .. e - 1 : r[s + 2 * k].indent = i /\ r[s + 2 * k + 1].offset = d
    BY <2>1, <2>5
  <2>9. new # << >>
    BY <2>2, <2>3, FewAny
  <2>10. /\ RunTo(r, s, Len(new)) /\ s + 2 * Len(new) = l + 1
         /\ new = NamesFrom(r, s, Len(new))
         /\ \A k \in 0 .. Len(new) - 1 : r[s + 2 * k].indent = i /\ r[s + 2 * k + 1].offset = d
         /\ made = Made(r, s - 1)
    BY <2>1, <2>2, <2>3, <2>6, <2>7, <2>8
  <2> QED BY <2>9, <2>10 DEF OffsetsTo
<1> QED BY <1>1, <1>2

\* A line of another kind stays.
LEMMA HoldNone ==
  ASSUME NEW r, IsSequence(r), NEW n \in Nat, NEW made, NEW names, IsSequence(names), NEW i, NEW d,
         OffsetsTo(r, n, made, names, i, d), NEW m, m = n + 1, ~OffsetOnly(r, m),
         NEW j, NEW e
  PROVE  OffsetsTo(r, m, made \o Held(names, i, d) \o <<r[m]>>, << >>, j, e)
<1>1. ~Continues(r, m)
  BY DEF Continues
<1>2. made \o Held(names, i, d) = Made(r, n)
  BY <1>1, HeldMade
<1>3. m > 1 => ~OffsetOnly(r, m - 1)
  <2>1. m - 1 = n /\ (m > 1 => n > 0)
    OBVIOUS
  <2>2. CASE names = << >>
    BY <2>1, <2>2 DEF OffsetsTo
  <2>3. CASE names # << >>
    <3>1. PICK s : RunTo(r, s, Len(names)) /\ s + 2 * Len(names) = n + 1
      BY <2>3 DEF OffsetsTo
    <3> SUFFICES ASSUME NEW k, k = Len(names) - 1, NEW p, p = s + 2 * k PROVE ~OffsetOnly(r, n)
      BY <2>1
    <3>2. k \in 0 .. Len(names) - 1 /\ p \in Int /\ n = p + 1
      BY <3>1 DEF RunTo
    <3>3. OffsetOnly(r, p)
      BY <3>1, <3>2 DEF RunTo
    <3>4. r[n].tag = "offset"
      BY <3>2, <3>3, OffsetOnlyIs
    <3> QED BY <3>4, OffsetOnlyIs
  <2> QED BY <2>2, <2>3
<1>4. Replacement(r, m) = <<r[m]>>
  BY <1>3 DEF Replacement
<1>5. Made(r, m) = Made(r, n) \o <<r[m]>>
  <2>1. Made(r, m) = Made(r, n) \o Replacement(r, m)
    BY MadeNext
  <2> QED BY <1>4, <2>1
<1> QED BY <1>2, <1>3, <1>5 DEF OffsetsTo

\* Nothing is held at the end.
LEMMA HeldAtEnd ==
  ASSUME NEW r, IsSequence(r), NEW n, n = Len(r), NEW made, NEW names, NEW i, NEW d,
         OffsetsTo(r, n, made, names, i, d)
  PROVE  names = << >> /\ made = Made(r, n)
<1> SUFFICES ASSUME names # << >> PROVE FALSE
  BY DEF OffsetsTo
<1>1. PICK s : RunTo(r, s, Len(names)) /\ s + 2 * Len(names) = n + 1
  BY DEF OffsetsTo
<1>2. n \in Nat
  BY SequenceFacts
<1> QED BY <1>1, <1>2 DEF RunTo

--------------------------------------------------------------------------------
(***************************************************************************)
(* What is at some positions.                                              *)
(***************************************************************************)

\* The values at a set of positions are a sequence.
LEMMA ValuesAny ==
  ASSUME NEW f, NEW n \in Nat, NEW S \in SUBSET (1 .. n)
  PROVE  IsSequence(ValuesAt(f, S))
<1> DEFINE V == Image(f, S)
<1>1. ValuesAt(f, S) \in Seq(V)
  BY ValuesElements
<1> HIDE DEF V
<1> QED BY <1>1, OwnElements

\* Nothing but what is there matters.
LEMMA ValuesSame ==
  ASSUME NEW f, NEW g, NEW n \in Nat, NEW S \in SUBSET (1 .. n), \A i \in S : f[i] = g[i]
  PROVE  ValuesAt(f, S) = ValuesAt(g, S)
<1>1. /\ Cardinality(S) \in Nat
      /\ \A k \in 1 .. Cardinality(S) : Nth(S, k) \in S
  BY ValuesElements
<1>2. \A k \in 1 .. Cardinality(S) : f[Nth(S, k)] = g[Nth(S, k)]
  BY <1>1
<1> QED BY <1>2 DEF ValuesAt

\* What is at the positions from n on.
GoesOnAs(f, n, c, d) == IsSequence(d) /\ Len(d) = c /\ \A j \in 1 .. c : f[n + j] = d[j]

Then(f, S, n, c, d) == ValuesAt(f, S \cup (n + 1 .. n + c)) = ValuesAt(f, S) \o d

\* No positions more: the values are the same.
LEMMA ThenNone ==
  ASSUME NEW f, NEW n \in Nat, NEW S \in SUBSET (1 .. n), NEW d, GoesOnAs(f, n, 0, d)
  PROVE  Then(f, S, n, 0, d)
<1>1. d = << >>
  BY FewAny DEF GoesOnAs
<1>2. S \cup (n + 1 .. n + 0) = S
  OBVIOUS
<1>3. ValuesAt(f, S) = ValuesAt(f, S) \o << >>
  BY ValuesAny, ConcatFacts
<1> QED BY <1>1, <1>2, <1>3 DEF Then

\* One position more, after the others.
LEMMA ThenNext ==
  ASSUME NEW f, NEW n \in Nat, NEW S \in SUBSET (1 .. n), NEW c \in Nat, NEW e, e = c + 1,
         NEW d, GoesOnAs(f, n, e, d),
         \A a : GoesOnAs(f, n, c, a) => Then(f, S, n, c, a)
  PROVE  Then(f, S, n, e, d)
<1>1. e \in Nat /\ IsSequence(d) /\ Len(d) = e /\ \A j \in 1 .. e : f[n + j] = d[j]
  BY DEF GoesOnAs
<1>2. PICK a : a = [j \in 1 .. c |-> d[j]]
  OBVIOUS
<1>3. IsSequence(a) /\ Len(a) = c /\ \A j \in 1 .. c : a[j] = d[j]
  <2>1. a = [j \in 1 .. c |-> a[j]] /\ \A j \in 1 .. c : a[j] = d[j]
    BY <1>2
  <2> QED BY <2>1, MadeAny
<1>4. d = Append(a, d[e])
  <2> SUFFICES ASSUME NEW x, x = d[e], NEW u, u = Append(a, x) PROVE d = u
    OBVIOUS
  <2>1. /\ IsSequence(u) /\ Len(u) = c + 1 /\ u[c + 1] = x
        /\ \A k \in 1 .. c : u[k] = a[k]
    BY <1>3, AppendAny
  <2>2. \A k \in 1 .. Len(d) : k \in 1 .. c \/ k = c + 1
    BY <1>1
  <2>3. \A k \in 1 .. Len(d) : d[k] = u[k]
    BY <1>3, <2>1, <2>2
  <2> QED BY <1>1, <2>1, <2>3, SameAny
<1>5. GoesOnAs(f, n, c, a)
  BY <1>1, <1>3 DEF GoesOnAs
<1> DEFINE T == S \cup (n + 1 .. n + c)
<1>6. ValuesAt(f, T) = ValuesAt(f, S) \o a
  BY <1>5 DEF Then
<1> SUFFICES ASSUME NEW m, m = n + c PROVE ValuesAt(f, S \cup (n + 1 .. n + e)) = ValuesAt(f, S) \o d
  BY DEF Then
<1>7. ValuesAt(f, T \cup {m + 1}) = Append(ValuesAt(f, T), f[m + 1])
  <2>1. m \in Nat /\ T \in SUBSET (1 .. m)
    <3>1. m \in Nat /\ n <= m
      OBVIOUS
    <3>2. \A j \in T : j \in 1 .. m
      BY <3>1
    <3> QED BY <3>1, <3>2
  <2> HIDE DEF T
  <2> QED BY <2>1, ValuesNext
<1>8. T \cup {m + 1} = S \cup (n + 1 .. n + e) /\ m + 1 = n + e
  OBVIOUS
<1>9. f[m + 1] = d[e]
  BY <1>1, <1>8
<1>10. Append(ValuesAt(f, S) \o a, d[e]) = ValuesAt(f, S) \o Append(a, d[e])
  BY <1>3, ValuesAny, ConcatAppend
<1> HIDE DEF T
<1> QED BY <1>4, <1>6, <1>7, <1>8, <1>9, <1>10

\* What is at the positions after all others.
LEMMA ValuesMore ==
  ASSUME NEW f, NEW n \in Nat, NEW S \in SUBSET (1 .. n), NEW c, NEW b, GoesOnAs(f, n, c, b)
  PROVE  Then(f, S, n, c, b)
<1> DEFINE N == {m \in Nat : \A d : GoesOnAs(f, n, m, d) => Then(f, S, n, m, d)}
<1>1. 0 \in N
  BY ThenNone
<1>2. ASSUME NEW m \in Nat, m \in N PROVE m + 1 \in N
  BY <1>2, ThenNext
<1>3. Nat \subseteq N
  <2> HIDE DEF N
  <2> QED BY <1>1, <1>2, NatSet
<1>4. c \in Nat
  BY SequenceFacts DEF GoesOnAs
<1> QED BY <1>3, <1>4

--------------------------------------------------------------------------------
(***************************************************************************)
(* The second pass.                                                        *)
(***************************************************************************)

\* What is in the lines the passes make.
LEMMA LineFields ==
  /\ \A n, k, w : /\ Heading(n, k, w).tag = "heading" /\ Heading(n, k, w).count = n
                  /\ Heading(n, k, w).kind = k /\ Heading(n, k, w).which = w
  /\ \A n : Listed(n).tag = "listed" /\ Listed(n).name = n
  /\ \A n, m : Omitted(n, m).tag = "omitted"
  /\ EmptyLine.tag = "empty" /\ CRCLine.tag = "crc"
BY DEF Heading, Listed, Omitted, EmptyLine, CRCLine, Line

RestAt(s) == DOMAIN s \ (HeadingsAt(s) \cup ListedAt(s) \cup BlanksAt(s))

Under(s, k, w) ==
  {i \in ListedAt(s) : LET h == s[HeadingOf(s, i)] IN h.kind = k /\ h.which = w}

\* A report in groups: a heading, as many symbols as it says, and a blank.
HeadingRight(s, h) ==
  /\ s[h].count \in Nat /\ h + s[h].count + 1 <= Len(s)
  /\ s[h + s[h].count + 1].tag = "empty"
  /\ \A i \in h + 1 .. h + s[h].count : s[i].tag = "listed"

HasHeading(s, i) == \E h \in HeadingsAt(s) : i \in h + 1 .. h + s[h].count

Grouped(s) ==
  /\ IsSequence(s)
  /\ \A h \in HeadingsAt(s) : HeadingRight(s, h)
  /\ \A i \in ListedAt(s) : HasHeading(s, i)

\* The lines that a heading announces are those it is the heading of.
LEMMA HeadingFound ==
  ASSUME NEW s, Grouped(s), NEW h \in HeadingsAt(s), NEW i \in h + 1 .. h + s[h].count
  PROVE  i \in ListedAt(s) /\ HeadingOf(s, i) = h
<1>1. /\ DOMAIN s = 1 .. Len(s) /\ Len(s) \in Nat /\ h \in 1 .. Len(s) /\ s[h].tag = "heading"
      /\ HeadingRight(s, h)
  BY SequenceFacts DEF Grouped, HeadingsAt
<1>2. i \in 1 .. Len(s) /\ s[i].tag = "listed" /\ h \in 1 .. i
  BY <1>1 DEF HeadingRight
<1> DEFINE Right(g) == s[g].tag = "heading" /\ \A j \in g + 1 .. i : s[j].tag = "listed"
<1>3. Right(h)
  BY <1>1 DEF HeadingRight
<1>4. ASSUME NEW g \in 1 .. i, Right(g) PROVE g = h
  <2>1. CASE g < h
    <3>1. h \in g + 1 .. i
      BY <1>1, <1>2, <2>1
    <3> QED BY <1>1, <1>4, <3>1
  <2>2. CASE g > h
    <3>1. g \in h + 1 .. h + s[h].count
      BY <1>1, <2>2 DEF HeadingRight
    <3> QED BY <1>1, <1>4, <3>1 DEF HeadingRight
  <2> QED BY <1>1, <2>1, <2>2
<1>5. HeadingOf(s, i) = h
  <2>1. HeadingOf(s, i) = CHOOSE g \in 1 .. i : Right(g)
    BY DEF HeadingOf
  <2> HIDE DEF Right
  <2> QED BY <1>2, <1>3, <1>4, <2>1
<1> QED BY <1>1, <1>2, <1>5 DEF ListedAt

\* So what is under a kind follows the headings of that kind.
UnderRight(s, k, w) ==
  \A i : i \in Under(s, k, w) <=> \E h \in HeadingsAt(s) : /\ i \in h + 1 .. h + s[h].count
                                                        /\ s[h].kind = k /\ s[h].which = w

\* In a report in groups the lines with a heading are those it announces: what the
\* property says of headings.
LEMMA GroupedMeans ==
  ASSUME NEW s, Grouped(s)
  PROVE  /\ \A h \in HeadingsAt(s) :
              {i \in ListedAt(s) : HeadingOf(s, i) = h} = h + 1 .. h + s[h].count
         /\ \A k, w : UnderRight(s, k, w)
<1>1. ASSUME NEW h \in HeadingsAt(s), NEW i \in ListedAt(s), HeadingOf(s, i) = h
      PROVE  i \in h + 1 .. h + s[h].count
  <2>1. PICK g \in HeadingsAt(s) : i \in g + 1 .. g + s[g].count
    BY DEF Grouped, HasHeading
  <2>2. HeadingOf(s, i) = g
    BY <2>1, HeadingFound
  <2> QED BY <1>1, <2>1, <2>2
<1>2. \A h \in HeadingsAt(s) : \A i \in h + 1 .. h + s[h].count :
        i \in ListedAt(s) /\ HeadingOf(s, i) = h
  BY HeadingFound
<1>3. ASSUME NEW k, NEW w, NEW i, i \in Under(s, k, w)
      PROVE  \E h \in HeadingsAt(s) : /\ i \in h + 1 .. h + s[h].count
                                      /\ s[h].kind = k /\ s[h].which = w
  <2>1. i \in ListedAt(s) /\ s[HeadingOf(s, i)].kind = k /\ s[HeadingOf(s, i)].which = w
    BY <1>3 DEF Under
  <2>2. PICK g \in HeadingsAt(s) : i \in g + 1 .. g + s[g].count
    BY <2>1 DEF Grouped, HasHeading
  <2>3. HeadingOf(s, i) = g
    BY <2>2, HeadingFound
  <2> QED BY <2>1, <2>2, <2>3
<1>4. ASSUME NEW k, NEW w, NEW i, NEW h \in HeadingsAt(s), i \in h + 1 .. h + s[h].count,
             s[h].kind = k, s[h].which = w
      PROVE  i \in Under(s, k, w)
  BY <1>2, <1>4 DEF Under
<1>5. \A h \in HeadingsAt(s) :
        {i \in ListedAt(s) : HeadingOf(s, i) = h} = h + 1 .. h + s[h].count
  BY <1>1, <1>2
<1> QED BY <1>3, <1>4, <1>5 DEF UnderRight

\* Names are values.
LEMMA NamesSame ==
  ASSUME NEW s, IsSequence(s), NEW t, IsSequence(t), Len(s) <= Len(t),
         \A j \in 1 .. Len(s) : t[j] = s[j], NEW S \in SUBSET (1 .. Len(s))
  PROVE  NamesAt(t, S) = NamesAt(s, S) /\ ValuesAt(t, S) = ValuesAt(s, S)
         /\ IsSequence(NamesAt(s, S)) /\ IsSequence(ValuesAt(s, S))
<1> DEFINE f == [i \in DOMAIN s |-> s[i].name]
           g == [i \in DOMAIN t |-> t[i].name]
<1>1. Len(s) \in Nat /\ Len(t) \in Nat /\ DOMAIN s = 1 .. Len(s) /\ DOMAIN t = 1 .. Len(t)
  BY SequenceFacts
<1>2. \A i \in S : g[i] = f[i] /\ t[i] = s[i]
  BY <1>1
<1>3. ValuesAt(t, S) = ValuesAt(s, S) /\ IsSequence(ValuesAt(s, S))
  BY <1>1, <1>2, ValuesSame, ValuesAny
<1> HIDE DEF f, g
<1>4. ValuesAt(g, S) = ValuesAt(f, S) /\ IsSequence(ValuesAt(f, S))
  BY <1>1, <1>2, ValuesSame, ValuesAny
<1> QED BY <1>3, <1>4 DEF NamesAt, f, g


\* What is where in a report in groups.
LEMMA GroupedWhere ==
  ASSUME NEW s, Grouped(s)
  PROVE  /\ Len(s) \in Nat /\ DOMAIN s = 1 .. Len(s)
         /\ HeadingsAt(s) \in SUBSET (1 .. Len(s)) /\ ListedAt(s) \in SUBSET (1 .. Len(s))
         /\ BlanksAt(s) \in SUBSET (1 .. Len(s)) /\ RestAt(s) \in SUBSET (1 .. Len(s))
         /\ \A k, w : Under(s, k, w) \in SUBSET (1 .. Len(s))
<1>1. Len(s) \in Nat /\ DOMAIN s = 1 .. Len(s)
  BY SequenceFacts DEF Grouped
<1>2. HeadingsAt(s) \in SUBSET (1 .. Len(s)) /\ ListedAt(s) \in SUBSET (1 .. Len(s))
  BY <1>1 DEF HeadingsAt, ListedAt
<1>3. ASSUME NEW h \in HeadingsAt(s) PROVE h + s[h].count + 1 \in 1 .. Len(s)
  <2>1. HeadingRight(s, h) /\ h \in 1 .. Len(s)
    BY <1>2 DEF Grouped
  <2> QED BY <1>1, <2>1 DEF HeadingRight
<1>4. BlanksAt(s) \in SUBSET (1 .. Len(s))
  BY <1>3 DEF BlanksAt
<1>5. RestAt(s) \in SUBSET (1 .. Len(s))
  BY <1>1 DEF RestAt
<1>6. \A k, w : Under(s, k, w) \in SUBSET (1 .. Len(s))
  BY <1>2 DEF Under
<1> QED BY <1>1, <1>2, <1>4, <1>5, <1>6

\* What later headings add.
UnderMore(s, t, k, w, S) == \A i : i \in Under(t, k, w) <=> i \in Under(s, k, w) \/ i \in S

\* What is under a kind when headings come after those there were.
LEMMA UnderLater ==
  ASSUME NEW s, NEW t, NEW k, NEW w, UnderRight(s, k, w), UnderRight(t, k, w), NEW S,
         HeadingsAt(s) \subseteq HeadingsAt(t), \A h \in HeadingsAt(s) : t[h] = s[h],
         \A i : i \in S <=> \E h \in HeadingsAt(t) \ HeadingsAt(s) :
                  /\ i \in h + 1 .. h + t[h].count /\ t[h].kind = k /\ t[h].which = w
  PROVE  UnderMore(s, t, k, w, S)
<1> SUFFICES ASSUME NEW i PROVE i \in Under(t, k, w) <=> i \in Under(s, k, w) \/ i \in S
  BY DEF UnderMore
<1>1. i \in Under(s, k, w) <=> \E h \in HeadingsAt(s) : /\ i \in h + 1 .. h + s[h].count
                                                       /\ s[h].kind = k /\ s[h].which = w
  BY DEF UnderRight
<1>2. i \in Under(t, k, w) <=> \E h \in HeadingsAt(t) : /\ i \in h + 1 .. h + t[h].count
                                                       /\ t[h].kind = k /\ t[h].which = w
  BY DEF UnderRight
<1> QED BY <1>1, <1>2

\* A line that is not about a group.
AddsOther(s, t, x) ==
  /\ Grouped(t)
  /\ ValuesAt(t, RestAt(t)) = Append(ValuesAt(s, RestAt(s)), x)
  /\ \A k, w : NamesAt(t, Under(t, k, w)) = NamesAt(s, Under(s, k, w))

\* Another line after a report in groups stays what it is, and no symbol gets under a
\* heading by it.
LEMMA AppendOther ==
  ASSUME NEW s, Grouped(s), NEW x, x.tag \notin {"heading", "listed"}, NEW t, t = Append(s, x)
  PROVE  AddsOther(s, t, x)
<1> SUFFICES ASSUME NEW n, n = Len(s)
             PROVE  /\ Grouped(t)
                    /\ ValuesAt(t, RestAt(t)) = Append(ValuesAt(s, RestAt(s)), x)
                    /\ \A k, w : NamesAt(t, Under(t, k, w)) = NamesAt(s, Under(s, k, w))
  BY DEF AddsOther
<1>1. /\ IsSequence(s) /\ n \in Nat /\ DOMAIN s = 1 .. n
      /\ HeadingsAt(s) \in SUBSET (1 .. n) /\ ListedAt(s) \in SUBSET (1 .. n)
      /\ BlanksAt(s) \in SUBSET (1 .. n) /\ RestAt(s) \in SUBSET (1 .. n)
      /\ \A k, w : Under(s, k, w) \in SUBSET (1 .. n)
  BY GroupedWhere DEF Grouped
<1>2. /\ IsSequence(t) /\ Len(t) = n + 1 /\ DOMAIN t = 1 .. n + 1 /\ t[n + 1] = x
      /\ \A j \in 1 .. n : t[j] = s[j]
  <2>1. /\ IsSequence(t) /\ Len(t) = n + 1 /\ t[n + 1] = x /\ \A j \in 1 .. n : t[j] = s[j]
    BY <1>1, AppendAny
  <2> QED BY <2>1, SequenceFacts
<1>3. \A j \in 1 .. n + 1 : j \in 1 .. n \/ j = n + 1
  BY <1>1
<1>4. HeadingsAt(t) = HeadingsAt(s) /\ ListedAt(t) = ListedAt(s)
  <2>1. \A j : j \in 1 .. n => j \in 1 .. n + 1
    BY <1>1
  <2> QED BY <1>1, <1>2, <1>3, <2>1 DEF HeadingsAt, ListedAt
<1>5. \A h \in HeadingsAt(s) : t[h] = s[h]
  BY <1>1, <1>2
<1>6. Grouped(t)
  <2>1. ASSUME NEW h \in HeadingsAt(s) PROVE HeadingRight(t, h)
    <3>1. HeadingRight(s, h) /\ h \in 1 .. n
      BY <1>1 DEF Grouped
    <3> SUFFICES ASSUME NEW c, c = s[h].count PROVE HeadingRight(t, h)
      OBVIOUS
    <3>2. /\ c \in Nat /\ h + c + 1 <= n /\ s[h + c + 1].tag = "empty"
          /\ \A i \in h + 1 .. h + c : s[i].tag = "listed"
      BY <3>1 DEF HeadingRight
    <3>3. t[h + c + 1] = s[h + c + 1] /\ h + c + 1 <= n + 1
      <4>1. h + c + 1 \in 1 .. n
        BY <1>1, <3>1, <3>2
      <4> QED BY <1>1, <1>2, <4>1
    <3>4. \A i \in h + 1 .. h + c : t[i] = s[i]
      <4>1. \A i \in h + 1 .. h + c : i \in 1 .. n
        BY <1>1, <3>1, <3>2
      <4> QED BY <1>2, <4>1
    <3>5. t[h].count = c
      BY <1>5
    <3> QED BY <1>2, <3>2, <3>3, <3>4, <3>5 DEF HeadingRight
  <2>2. ASSUME NEW i \in ListedAt(s) PROVE HasHeading(t, i)
    <3>1. HasHeading(s, i)
      BY DEF Grouped
    <3> QED BY <1>4, <1>5, <3>1 DEF HasHeading
  <2> QED BY <1>2, <1>4, <2>1, <2>2 DEF Grouped
<1>7. BlanksAt(t) = BlanksAt(s)
  BY <1>4, <1>5 DEF BlanksAt
<1>8. RestAt(t) = RestAt(s) \cup {n + 1}
  <2>1. n + 1 \notin HeadingsAt(s) \cup ListedAt(s) \cup BlanksAt(s)
    BY <1>1
  <2>2. 1 .. n + 1 = 1 .. n \cup {n + 1}
    BY <1>1
  <2> QED BY <1>1, <1>2, <1>4, <1>7, <2>1, <2>2 DEF RestAt
<1>9. ASSUME NEW k, NEW w PROVE Under(t, k, w) = Under(s, k, w)
  <2>1. UnderRight(s, k, w) /\ UnderRight(t, k, w)
    BY <1>6, GroupedMeans
  <2>2. UnderMore(s, t, k, w, {})
    <3>1. \A i : i \in {} <=> \E h \in HeadingsAt(t) \ HeadingsAt(s) :
                    /\ i \in h + 1 .. h + t[h].count /\ t[h].kind = k /\ t[h].which = w
      BY <1>4
    <3> QED BY <1>4, <1>5, <2>1, <3>1, UnderLater
  <2>3. \A i : i \in Under(t, k, w) <=> i \in Under(s, k, w)
    BY <2>2 DEF UnderMore
  <2> QED BY <2>3
<1>10. ValuesAt(t, RestAt(t)) = Append(ValuesAt(s, RestAt(s)), x)
  <2>1. ValuesAt(t, RestAt(s) \cup {n + 1}) = Append(ValuesAt(t, RestAt(s)), t[n + 1])
    BY <1>1, ValuesNext
  <2>2. ValuesAt(t, RestAt(s)) = ValuesAt(s, RestAt(s))
    BY <1>1, <1>2, ValuesSame
  <2> QED BY <1>2, <1>8, <2>1, <2>2
<1>11. ASSUME NEW k, NEW w PROVE NamesAt(t, Under(t, k, w)) = NamesAt(s, Under(s, k, w))
  <2>1. Len(s) <= Len(t)
    BY <1>1, <1>2
  <2>2. NamesAt(t, Under(s, k, w)) = NamesAt(s, Under(s, k, w))
    BY <1>1, <1>2, <2>1, NamesSame
  <2> QED BY <1>9, <2>2
<1> QED BY <1>6, <1>10, <1>11

\* A group comes next.
GroupNext(t, n, k, w, names) ==
  /\ IsSequence(t) /\ IsSequence(names) /\ Len(t) = n + Len(names) + 2
  /\ t[n + 1] = Heading(Len(names), k, w)
  /\ \A j \in 1 .. Len(names) : t[n + 1 + j] = Listed(names[j])
  /\ t[n + Len(names) + 2] = EmptyLine

GroupFollows(s, t, k, w, names) ==
  GroupNext(t, Len(s), k, w, names) /\ \A j \in 1 .. Len(s) : t[j] = s[j]

\* A group after a report, line by line.
LEMMA GroupIs ==
  ASSUME NEW s, IsSequence(s), NEW k, NEW w, NEW names, IsSequence(names), names # << >>,
         NEW t, t = s \o Group(k, w, names)
  PROVE  GroupFollows(s, t, k, w, names)
<1> SUFFICES ASSUME NEW c, c = Len(names), NEW n, n = Len(s), NEW x, x = Heading(c, k, w),
                    NEW y, y = EmptyLine, NEW b, b = [i \in DOMAIN names |-> Listed(names[i])]
             PROVE  GroupNext(t, n, k, w, names) /\ \A j \in 1 .. n : t[j] = s[j]
  BY DEF GroupFollows
<1>1. c \in Nat /\ DOMAIN names = 1 .. c /\ n \in Nat
  BY SequenceFacts
<1>2. IsSequence(b) /\ Len(b) = c /\ \A j \in 1 .. c : b[j] = Listed(names[j])
  <2>1. b = [i \in 1 .. c |-> b[i]] /\ \A j \in 1 .. c : b[j] = Listed(names[j])
    BY <1>1
  <2> QED BY <1>1, <2>1, MadeAny
<1>3. Group(k, w, names) = (<<x>> \o b) \o <<y>>
  BY DEF Group
<1>4. PICK a : a = <<x>> \o b
  OBVIOUS
<1>5. IsSequence(a) /\ Len(a) = 1 + c /\ a[1] = x /\ \A j \in 1 .. c : a[1 + j] = b[j]
  <2> SUFFICES ASSUME NEW o, o = <<x>>
               PROVE  IsSequence(a) /\ Len(a) = 1 + c /\ a[1] = x /\ \A j \in 1 .. c : a[1 + j] = b[j]
    OBVIOUS
  <2>1. IsSequence(o) /\ Len(o) = 1 /\ o[1] = x
    BY FewAny
  <2>2. Joins(a, o, b)
    BY <1>2, <1>4, <2>1, ConcatAny
  <2> QED BY <1>2, <2>1, <2>2 DEF Joins
<1>6. PICK g : g = Append(a, y)
  OBVIOUS
<1>7. /\ IsSequence(g) /\ Len(g) = c + 2 /\ g[c + 2] = y /\ g[1] = x
      /\ \A j \in 1 .. c : g[1 + j] = b[j]
  <2>1. IsSequence(g) /\ Len(g) = Len(a) + 1 /\ g[Len(a) + 1] = y /\ \A j \in 1 .. Len(a) : g[j] = a[j]
    BY <1>5, <1>6, AppendAny
  <2>2. 1 \in 1 .. 1 + c /\ \A j \in 1 .. c : 1 + j \in 1 .. 1 + c
    BY <1>1
  <2> QED BY <1>1, <1>5, <2>1, <2>2
<1>8. t = s \o g
  <2>1. a \o <<y>> = Append(a, y)
    BY <1>5, ConcatFacts
  <2>2. Group(k, w, names) = g
    BY <1>3, <1>4, <1>6, <2>1
  <2> QED BY <2>2
<1>9. Joins(t, s, g)
  BY <1>7, <1>8, ConcatAny
<1>10. GroupNext(t, n, k, w, names)
  <2>1. IsSequence(t) /\ Len(t) = n + c + 2
    BY <1>1, <1>7, <1>9 DEF Joins
  <2>2. t[n + 1] = x /\ t[n + (c + 2)] = y
    BY <1>1, <1>7, <1>9 DEF Joins
  <2>3. \A j \in 1 .. c : t[n + 1 + j] = b[j]
    <3>1. \A j \in 1 .. c : 1 + j \in 1 .. c + 2 /\ n + 1 + j = n + (1 + j)
      BY <1>1
    <3>2. \A j \in 1 .. c + 2 : t[n + j] = g[j]
      BY <1>7, <1>9 DEF Joins
    <3> SUFFICES ASSUME NEW j \in 1 .. c, NEW m, m = 1 + j PROVE t[n + 1 + j] = b[j]
      OBVIOUS
    <3>3. m \in 1 .. c + 2 /\ n + 1 + j = n + m /\ g[m] = b[j]
      BY <1>7, <3>1
    <3> QED BY <3>2, <3>3
  <2>4. n + (c + 2) = n + c + 2
    BY <1>1
  <2> QED BY <1>2, <2>1, <2>2, <2>3, <2>4 DEF GroupNext
<1> QED BY <1>9, <1>10 DEF Joins

\* What the lines of a group are.
GroupHas(t, e, c, k, w, names) ==
  /\ c \in Nat /\ e \in Nat /\ Len(t) = e + c + 1 /\ DOMAIN t = 1 .. e + c + 1
  /\ t[e].tag = "heading" /\ t[e].count = c /\ t[e].kind = k /\ t[e].which = w
  /\ \A j \in 1 .. c : t[e + j].tag = "listed" /\ t[e + j].name = names[j]
  /\ \A i \in e + 1 .. e + c : t[i].tag = "listed"
  /\ t[e + c + 1].tag = "empty"

\* The tags of the lines of a group.
LEMMA GroupLines ==
  ASSUME NEW n \in Nat, NEW k, NEW w, NEW names, NEW t, GroupNext(t, n, k, w, names),
         NEW c, c = Len(names), NEW e, e = n + 1
  PROVE  GroupHas(t, e, c, k, w, names)
<1>1. /\ IsSequence(t) /\ IsSequence(names) /\ Len(t) = n + c + 2
      /\ t[e] = Heading(c, k, w) /\ \A j \in 1 .. c : t[e + j] = Listed(names[j])
      /\ t[n + c + 2] = EmptyLine
  BY DEF GroupNext
<1>2. c \in Nat /\ e \in Nat /\ n + c + 2 = e + c + 1
  <2>1. c \in Nat
    BY <1>1, SequenceFacts
  <2> QED BY <2>1
<1>3. DOMAIN t = 1 .. e + c + 1 /\ Len(t) = e + c + 1
  BY <1>1, <1>2, SequenceFacts
<1>4. \A j \in 1 .. c : t[e + j].tag = "listed" /\ t[e + j].name = names[j]
  BY <1>1, LineFields
<1>5. ASSUME NEW i \in e + 1 .. e + c PROVE t[i].tag = "listed"
  <2> SUFFICES ASSUME NEW j, j = i - e PROVE t[i].tag = "listed"
    OBVIOUS
  <2>1. j \in 1 .. c /\ e + j = i
    BY <1>2
  <2> QED BY <1>4, <2>1
<1>6. t[e].tag = "heading" /\ t[e].count = c /\ t[e].kind = k /\ t[e].which = w
  BY <1>1, LineFields
<1>7. t[e + c + 1].tag = "empty"
  BY <1>1, <1>2, LineFields
<1> QED BY <1>2, <1>3, <1>4, <1>5, <1>6, <1>7 DEF GroupHas

\* A group adds its names, under its kind.
More(names, same) == IF same THEN names ELSE << >>

PutsUnder(s, t, k, w, names) ==
  /\ Grouped(t)
  /\ ValuesAt(t, RestAt(t)) = ValuesAt(s, RestAt(s))
  /\ \A kk, ww : NamesAt(t, Under(t, kk, ww))
                   = Both(NamesAt(s, Under(s, kk, ww)), More(names, kk = k /\ ww = w))

\* A group after a report in groups adds its symbols under its kind, and nothing else.
LEMMA GroupAdded ==
  ASSUME NEW s, Grouped(s), NEW n, n = Len(s), NEW k, NEW w, NEW names,
         NEW t, GroupFollows(s, t, k, w, names)
  PROVE  PutsUnder(s, t, k, w, names)
<1> SUFFICES ASSUME NEW c, c = Len(names), NEW e, e = n + 1
             PROVE  /\ Grouped(t)
                    /\ ValuesAt(t, RestAt(t)) = ValuesAt(s, RestAt(s))
                    /\ \A kk, ww : NamesAt(t, Under(t, kk, ww))
                          = NamesAt(s, Under(s, kk, ww)) \o More(names, kk = k /\ ww = w)
  BY DEF PutsUnder, Both
<1>0. GroupNext(t, n, k, w, names) /\ \A j \in 1 .. n : t[j] = s[j]
  BY DEF GroupFollows
<1>1. /\ IsSequence(s) /\ n \in Nat /\ DOMAIN s = 1 .. n
      /\ HeadingsAt(s) \in SUBSET (1 .. n) /\ ListedAt(s) \in SUBSET (1 .. n)
      /\ BlanksAt(s) \in SUBSET (1 .. n) /\ RestAt(s) \in SUBSET (1 .. n)
      /\ \A kk, ww : Under(s, kk, ww) \in SUBSET (1 .. n)
  BY GroupedWhere DEF Grouped
<1>2. /\ c \in Nat /\ e \in Nat /\ Len(t) = e + c + 1 /\ DOMAIN t = 1 .. e + c + 1
      /\ t[e].tag = "heading" /\ t[e].count = c /\ t[e].kind = k /\ t[e].which = w
      /\ \A j \in 1 .. c : t[e + j].tag = "listed" /\ t[e + j].name = names[j]
      /\ \A i \in e + 1 .. e + c : t[i].tag = "listed"
      /\ t[e + c + 1].tag = "empty"
  <2>1. GroupHas(t, e, c, k, w, names)
    BY <1>0, <1>1, GroupLines
  <2> QED BY <2>1 DEF GroupHas
<1>3. IsSequence(t) /\ IsSequence(names)
  BY <1>0 DEF GroupNext
<1>4. /\ \A j \in 1 .. e + c + 1 : j \in 1 .. n \/ j = e \/ j \in e + 1 .. e + c \/ j = e + c + 1
      /\ \A j : j \in 1 .. n \/ j = e \/ j \in e + 1 .. e + c \/ j = e + c + 1
                  => j \in 1 .. e + c + 1
  BY SMTT(30), <1>1, <1>2
<1>5. HeadingsAt(t) = HeadingsAt(s) \cup {e} /\ e \notin HeadingsAt(s)
  <2>1. \A j \in 1 .. n : t[j].tag = s[j].tag /\ j # e
    BY <1>0, <1>1
  <2>2. \A j : j \in HeadingsAt(t) <=> j \in 1 .. e + c + 1 /\ t[j].tag = "heading"
    BY <1>2 DEF HeadingsAt
  <2>3. \A j : j \in HeadingsAt(s) <=> j \in 1 .. n /\ s[j].tag = "heading"
    BY <1>1 DEF HeadingsAt
  <2>4. t[e].tag = "heading" /\ t[e + c + 1].tag # "heading"
        /\ \A i \in e + 1 .. e + c : t[i].tag # "heading"
    BY <1>2
  <2>5. \A j : j \in HeadingsAt(t) <=> j \in HeadingsAt(s) \/ j = e
    BY <1>4, <2>1, <2>2, <2>3, <2>4
  <2> QED BY <2>1, <2>3, <2>5
<1>6. ListedAt(t) = ListedAt(s) \cup (e + 1 .. e + c)
  BY <1>0, <1>1, <1>2, <1>4 DEF ListedAt
<1>7. \A h \in HeadingsAt(s) : t[h] = s[h]
  BY <1>0, <1>1
<1>8. Grouped(t)
  <2>1. ASSUME NEW h \in HeadingsAt(s) PROVE HeadingRight(t, h)
    <3>1. HeadingRight(s, h) /\ h \in 1 .. n
      BY <1>1 DEF Grouped
    <3> SUFFICES ASSUME NEW d, d = s[h].count PROVE HeadingRight(t, h)
      OBVIOUS
    <3>2. /\ d \in Nat /\ h + d + 1 <= n /\ s[h + d + 1].tag = "empty"
          /\ \A i \in h + 1 .. h + d : s[i].tag = "listed"
      BY <3>1 DEF HeadingRight
    <3>3. t[h + d + 1] = s[h + d + 1] /\ h + d + 1 <= Len(t)
      <4>1. h + d + 1 \in 1 .. n /\ n <= Len(t)
        BY <1>1, <1>2, <3>1, <3>2
      <4> QED BY <1>0, <1>2, <4>1
    <3>4. \A i \in h + 1 .. h + d : t[i] = s[i]
      <4>1. \A i \in h + 1 .. h + d : i \in 1 .. n
        BY <1>1, <3>1, <3>2
      <4> QED BY <1>0, <4>1
    <3>5. t[h].count = d
      BY <1>7
    <3> QED BY <3>2, <3>3, <3>4, <3>5 DEF HeadingRight
  <2>2. HeadingRight(t, e)
    BY <1>2 DEF HeadingRight
  <2>3. ASSUME NEW i \in ListedAt(s) PROVE HasHeading(t, i)
    <3>1. HasHeading(s, i)
      BY DEF Grouped
    <3> QED BY <1>5, <1>7, <3>1 DEF HasHeading
  <2>4. ASSUME NEW i \in e + 1 .. e + c PROVE HasHeading(t, i)
    <3>1. e \in HeadingsAt(t) /\ i \in e + 1 .. e + t[e].count
      BY <1>2, <1>5
    <3> QED BY <3>1 DEF HasHeading
  <2> QED BY <1>3, <1>5, <1>6, <2>1, <2>2, <2>3, <2>4 DEF Grouped
<1>9. BlanksAt(t) = BlanksAt(s) \cup {e + c + 1}
  <2>1. \A h \in HeadingsAt(s) : h + t[h].count + 1 = h + s[h].count + 1
    BY <1>7
  <2>2. e + t[e].count + 1 = e + c + 1
    BY <1>2
  <2>3. \A b : b \in BlanksAt(t) <=> \E h \in HeadingsAt(t) : b = h + t[h].count + 1
    BY DEF BlanksAt
  <2>4. \A b : b \in BlanksAt(s) <=> \E h \in HeadingsAt(s) : b = h + s[h].count + 1
    BY DEF BlanksAt
  <2>5. \A b : b \in BlanksAt(t) <=> b \in BlanksAt(s) \/ b = e + c + 1
    BY <1>5, <2>1, <2>2, <2>3, <2>4
  <2> QED BY <2>5
<1>10. RestAt(t) = RestAt(s)
  <2>1. \A j \in 1 .. n : j # e /\ j \notin e + 1 .. e + c /\ j # e + c + 1
    BY <1>1, <1>2
  <2> QED BY <1>1, <1>2, <1>4, <1>5, <1>6, <1>9, <2>1 DEF RestAt
<1>11. n <= Len(t)
  BY <1>1, <1>2
<1>12. ValuesAt(t, RestAt(t)) = ValuesAt(s, RestAt(s))
  BY <1>0, <1>1, <1>3, <1>10, <1>11, NamesSame
<1>13. ASSUME NEW kk, NEW ww
       PROVE  NamesAt(t, Under(t, kk, ww)) = NamesAt(s, Under(s, kk, ww)) \o More(names, kk = k /\ ww = w)
  <2>1. UnderRight(s, kk, ww) /\ UnderRight(t, kk, ww)
    BY <1>8, GroupedMeans
  <2>2. /\ Under(s, kk, ww) \in SUBSET (1 .. n) /\ NamesAt(t, Under(s, kk, ww)) = NamesAt(s, Under(s, kk, ww))
        /\ IsSequence(NamesAt(s, Under(s, kk, ww)))
    BY <1>0, <1>1, <1>3, <1>11, NamesSame
  <2>3. CASE kk = k /\ ww = w
    <3>1. UnderMore(s, t, kk, ww, e + 1 .. e + c)
      <4>1. \A i : i \in e + 1 .. e + c <=> \E h \in HeadingsAt(t) \ HeadingsAt(s) :
                    /\ i \in h + 1 .. h + t[h].count /\ t[h].kind = kk /\ t[h].which = ww
        BY SMTT(30), <1>2, <1>5, <2>3
      <4>2. HeadingsAt(s) \subseteq HeadingsAt(t)
        BY <1>5
      <4> QED BY <1>7, <2>1, <4>1, <4>2, UnderLater
    <3>2. Under(t, kk, ww) = Under(s, kk, ww) \cup (e + 1 .. e + c)
      BY <3>1 DEF UnderMore
    <3> DEFINE f == [i \in DOMAIN t |-> t[i].name]
    <3>3. GoesOnAs(f, e, c, names)
      <4>1. ASSUME NEW j \in 1 .. c PROVE f[e + j] = names[j]
        <5>1. e + j \in DOMAIN t
          BY <1>2
        <5> QED BY <1>2, <5>1
      <4> HIDE DEF f
      <4> QED BY <1>3, <4>1 DEF GoesOnAs
    <3>4. Under(s, kk, ww) \in SUBSET (1 .. e)
      <4>1. \A j \in 1 .. n : j \in 1 .. e
        BY <1>1
      <4> QED BY <2>2, <4>1
    <3>5. Then(f, Under(s, kk, ww), e, c, names)
      <4> HIDE DEF f
      <4> QED BY <1>2, <3>3, <3>4, ValuesMore
    <3>6. ValuesAt(f, Under(t, kk, ww)) = ValuesAt(f, Under(s, kk, ww)) \o names
      <4> HIDE DEF f
      <4> QED BY <3>2, <3>5 DEF Then
    <3>7. NamesAt(t, Under(t, kk, ww)) = NamesAt(t, Under(s, kk, ww)) \o names
      BY <3>6 DEF NamesAt
    <3> QED BY <2>2, <2>3, <3>7 DEF More
  <2>4. CASE ~(kk = k /\ ww = w)
    <3>1. UnderMore(s, t, kk, ww, {})
      <4>1. \A i : i \in {} <=> \E h \in HeadingsAt(t) \ HeadingsAt(s) :
                    /\ i \in h + 1 .. h + t[h].count /\ t[h].kind = kk /\ t[h].which = ww
        BY <1>2, <1>5, <2>4
      <4>2. HeadingsAt(s) \subseteq HeadingsAt(t)
        BY <1>5
      <4> QED BY <1>7, <2>1, <4>1, <4>2, UnderLater
    <3>2. Under(t, kk, ww) = Under(s, kk, ww)
      BY <3>1 DEF UnderMore
    <3>3. More(names, kk = k /\ ww = w) = << >>
      BY <2>4 DEF More
    <3> QED BY <2>2, <3>2, <3>3, ConcatFacts
  <2> QED BY <2>3, <2>4
<1> QED BY <1>8, <1>12, <1>13

\* A group is put after a report, if there is any symbol.
LEMMA GroupPut ==
  ASSUME NEW s, Grouped(s), NEW k, NEW w, NEW names, IsSequence(names),
         NEW t, t = s \o Group(k, w, names)
  PROVE  PutsUnder(s, t, k, w, names)
<1>1. IsSequence(s)
  BY DEF Grouped
<1>2. CASE names = << >>
  <2>1. Group(k, w, names) = << >> /\ \A same : More(names, same) = << >>
    BY <1>2 DEF Group, More
  <2>2. t = s
    BY <1>1, <2>1, ConcatFacts
  <2>3. \A kk, ww : IsSequence(NamesAt(s, Under(s, kk, ww)))
    <3>1. Len(s) <= Len(s)
      BY <1>1, SequenceFacts
    <3>2. \A kk, ww : Under(s, kk, ww) \in SUBSET (1 .. Len(s))
      BY GroupedWhere
    <3> QED BY <1>1, <3>1, <3>2, NamesSame
  <2>4. \A kk, ww : Both(NamesAt(s, Under(s, kk, ww)), << >>) = NamesAt(s, Under(s, kk, ww))
    BY <2>3, BothFacts
  <2>5. \A kk, ww : NamesAt(s, Under(s, kk, ww))
                      = Both(NamesAt(s, Under(s, kk, ww)), More(names, kk = k /\ ww = w))
    BY <2>1, <2>4
  <2> QED BY <2>2, <2>5 DEF PutsUnder
<1>3. CASE names # << >>
  <2>1. GroupFollows(s, t, k, w, names)
    BY <1>1, <1>3, GroupIs
  <2> QED BY <2>1, GroupAdded
<1> QED BY <1>2, <1>3

\* One sequence flattened, and two.
LEMMA FlattenOne ==
  ASSUME NEW a, IsSequence(a), NEW o, o = <<a>>
  PROVE  IsSequence(o) /\ Len(o) = 1 /\ o[1] = a /\ FlattenSeq(o) = a
<1>1. IsSequence(o) /\ Len(o) = 1 /\ o[1] = a
  BY FewAny
<1>2. IsSequence(<< >>)
  BY FewAny
<1>3. Append(<< >>, a) = o
  BY <1>2, FewAny, ConcatFacts
<1>4. FlattenSeq(o) = FlattenSeq(<< >>) \o a
  BY <1>2, <1>3, FlattenNext
<1>5. << >> \o a = a
  BY ConcatFacts
<1> QED BY <1>1, <1>4, <1>5, FlattenNone

\* Two sequences, flattened.
LEMMA FlattenTwo ==
  ASSUME NEW f, f = [k \in 1 .. 2 |-> f[k]], NEW a, a = f[1], NEW b, b = f[2],
         IsSequence(a), IsSequence(b)
  PROVE  FlattenSeq(f) = Both(a, b)
<1>2. PICK o : o = <<a>>
  OBVIOUS
<1>3. PICK g : g = Append(o, b)
  OBVIOUS
<1>4. IsSequence(o) /\ Len(o) = 1 /\ o[1] = a /\ FlattenSeq(o) = a
  BY <1>2, FlattenOne
<1>5. IsSequence(g) /\ Len(g) = 2 /\ g[1] = a /\ g[2] = b
  <2>1. IsSequence(g) /\ Len(g) = Len(o) + 1 /\ g[Len(o) + 1] = b /\ \A k \in 1 .. Len(o) : g[k] = o[k]
    BY ZenonT(40), <1>3, <1>4, AppendAny
  <2> QED BY <1>4, <2>1
<1>6. IsSequence(f) /\ Len(f) = 2
  <2>1. PICK n \in Nat : n = 2
    OBVIOUS
  <2>2. f = [k \in 1 .. n |-> f[k]]
    BY <2>1
  <2>3. IsSequence(f) /\ Len(f) = n
    BY <2>2, MadeAny
  <2> QED BY <2>1, <2>3
<1>7. f = g
  <2>1. \A k \in 1 .. Len(f) : k = 1 \/ k = 2
    BY <1>6
  <2>2. \A k \in 1 .. Len(f) : f[k] = g[k]
    BY <1>5, <1>6, <2>1
  <2> QED BY <1>5, <1>6, <2>2, SameAny
<1>8. FlattenSeq(g) = FlattenSeq(o) \o b
  BY <1>3, <1>4, FlattenNext
<1> QED BY <1>4, <1>7, <1>8 DEF Both

\* Sequence t is q, of length n, with x after it.
Appended(q, x, t, n) ==
  IsSequence(t) /\ Len(t) = n + 1 /\ t[n + 1] = x /\ \A k \in 1 .. n : t[k] = q[k]

\* Append, of any sequence.
LEMMA AppendedIs ==
  ASSUME NEW q, IsSequence(q), NEW x, NEW t, t = Append(q, x), NEW n, n = Len(q)
  PROVE  Appended(q, x, t, n)
<1>1. /\ IsSequence(Append(q, x)) /\ Len(Append(q, x)) = Len(q) + 1
      /\ Append(q, x)[Len(q) + 1] = x
      /\ \A k \in 1 .. Len(q) : Append(q, x)[k] = q[k]
  BY AppendAny
<1> QED BY Zenon, <1>1 DEF Appended

\* Four sequences, flattened.
LEMMA FlattenFour ==
  ASSUME NEW f, f = [k \in 1 .. 4 |-> f[k]], NEW a, a = f[1], NEW b, b = f[2],
         NEW c, c = f[3], NEW d, d = f[4],
         IsSequence(a), IsSequence(b), IsSequence(c), IsSequence(d)
  PROVE  FlattenSeq(f) = Both(Both(Both(a, b), c), d)
<1>1. PICK o : o = <<a>>
  OBVIOUS
<1>2. PICK g : g = Append(o, b)
  OBVIOUS
<1>3. PICK h : h = Append(g, c)
  OBVIOUS
<1>4. PICK e : e = Append(h, d)
  OBVIOUS
<1>5. IsSequence(o) /\ Len(o) = 1 /\ o[1] = a /\ FlattenSeq(o) = a
  BY <1>1, FlattenOne
<1>6. IsSequence(g) /\ Len(g) = 2 /\ g[1] = a /\ g[2] = b
  <2>1. Appended(o, b, g, 1)
    BY <1>2, <1>5, AppendedIs
  <2> QED BY <1>5, <2>1 DEF Appended
<1>7. IsSequence(h) /\ Len(h) = 3 /\ h[1] = a /\ h[2] = b /\ h[3] = c
  <2>1. Appended(g, c, h, 2)
    BY <1>3, <1>6, AppendedIs
  <2> QED BY <1>6, <2>1 DEF Appended
<1>8. IsSequence(e) /\ Len(e) = 4 /\ e[1] = a /\ e[2] = b /\ e[3] = c /\ e[4] = d
  <2>1. Appended(h, d, e, 3)
    BY <1>4, <1>7, AppendedIs
  <2> QED BY <1>7, <2>1 DEF Appended
<1>9. IsSequence(f) /\ Len(f) = 4
  <2>1. PICK n \in Nat : n = 4
    OBVIOUS
  <2>2. f = [k \in 1 .. n |-> f[k]]
    BY <2>1
  <2>3. IsSequence(f) /\ Len(f) = n
    BY <2>2, MadeAny
  <2> QED BY <2>1, <2>3
<1>10. f = e
  <2>1. \A k \in 1 .. Len(f) : k = 1 \/ k = 2 \/ k = 3 \/ k = 4
    BY <1>9
  <2>2. \A k \in 1 .. Len(f) : f[k] = e[k]
    BY <1>8, <1>9, <2>1
  <2> QED BY <1>8, <1>9, <2>2, SameAny
<1>11. FlattenSeq(g) = Both(a, b)
  BY <1>2, <1>5, FlattenNext DEF Both
<1>12. FlattenSeq(h) = Both(Both(a, b), c)
  BY <1>3, <1>6, <1>11, FlattenNext DEF Both
<1>13. FlattenSeq(e) = Both(Both(Both(a, b), c), d)
  BY <1>4, <1>7, <1>12, FlattenNext DEF Both
<1> QED BY <1>10, <1>13

\* The kinds of symbols and what happens to them.
LEMMA KindSets ==
  /\ ToSet(Kinds) = {"TLS", "common", "function", "variable"}
  /\ Kinds[1] = "TLS" /\ Kinds[2] = "common" /\ Kinds[3] = "function" /\ Kinds[4] = "variable"
  /\ DOMAIN Kinds = 1 .. 4
  /\ ToSet(Whiches) = {"removed", "added"}
  /\ Whiches[1] = "removed" /\ Whiches[2] = "added" /\ DOMAIN Whiches = 1 .. 2
<1>1. /\ Kinds[1] = "TLS" /\ Kinds[2] = "common" /\ Kinds[3] = "function" /\ Kinds[4] = "variable"
      /\ DOMAIN Kinds = 1 .. 4
  BY DEF Kinds
<1>2. Whiches[1] = "removed" /\ Whiches[2] = "added" /\ DOMAIN Whiches = 1 .. 2
  BY DEF Whiches
<1>3. /\ \A i : i \in 1 .. 4 <=> i = 1 \/ i = 2 \/ i = 3 \/ i = 4
      /\ \A i : i \in 1 .. 2 <=> i = 1 \/ i = 2
  OBVIOUS
<1>4. \A x : x \in ToSet(Kinds) <=> \E i \in 1 .. 4 : x = Kinds[i]
  BY <1>1 DEF ToSet
<1>5. \A x : x \in ToSet(Whiches) <=> \E i \in 1 .. 2 : x = Whiches[i]
  BY <1>2 DEF ToSet
<1>6. \A x : x \in ToSet(Kinds) <=> x \in {"TLS", "common", "function", "variable"}
  BY <1>1, <1>3, <1>4
<1>7. \A x : x \in ToSet(Whiches) <=> x \in {"removed", "added"}
  BY <1>2, <1>3, <1>5
<1> QED BY <1>1, <1>2, <1>6, <1>7

\* The symbols held back are put as up to four groups for the removed ones, and as many
\* for the added.
GroupOf(q, k, w) == Group(k, w, q[w][k])

KindGroups(q, w) == FlattenSeq([k \in DOMAIN Kinds |-> GroupOf(q, Kinds[k], w)])

GroupsOf(q) == FlattenSeq([w \in DOMAIN Whiches |-> KindGroups(q, Whiches[w])])

Names(q) == \A w \in ToSet(Whiches), k \in ToSet(Kinds) : IsSequence(q[w][k])

\* A group is a sequence of lines.
LEMMA GroupAny ==
  ASSUME NEW k, NEW w, NEW names, IsSequence(names)
  PROVE  IsSequence(Group(k, w, names))
<1>1. CASE names = << >>
  BY <1>1, FewAny DEF Group
<1>2. CASE names # << >>
  <2> SUFFICES ASSUME NEW e, e = << >>, NEW g, g = Group(k, w, names), NEW b, b = [i \in DOMAIN names |-> Listed(names[i])]
               PROVE  IsSequence(g)
    OBVIOUS
  <2>1. IsSequence(b)
    <3>1. b = [i \in 1 .. Len(names) |-> b[i]] /\ Len(names) \in Nat
      BY SequenceFacts
    <3> QED BY <3>1, MadeAny
  <2>2. g = (<<Heading(Len(names), k, w)>> \o b) \o <<EmptyLine>>
    BY <1>2 DEF Group
  <2>3. IsSequence(<<Heading(Len(names), k, w)>>) /\ IsSequence(<<EmptyLine>>)
    BY FewAny
  <2>4. IsSequence(<<Heading(Len(names), k, w)>> \o b)
    BY <2>1, <2>3, ConcatAny DEF Joins
  <2>5. IsSequence((<<Heading(Len(names), k, w)>> \o b) \o <<EmptyLine>>)
    BY <2>3, <2>4, ConcatAny DEF Joins
  <2> QED BY <2>2, <2>5
<1> QED BY <1>1, <1>2

FourGroups(a, b, c, d, u) ==
  /\ IsSequence(a) /\ IsSequence(b) /\ IsSequence(c) /\ IsSequence(d)
  /\ IsSequence(u) /\ u = Both(Both(Both(a, b), c), d)

\* What happened to symbols makes one group for each kind.
LEMMA KindGroupsAre ==
  ASSUME NEW q, Names(q), NEW w \in ToSet(Whiches),
         NEW a, a = GroupOf(q, "TLS", w), NEW b, b = GroupOf(q, "common", w),
         NEW c, c = GroupOf(q, "function", w), NEW d, d = GroupOf(q, "variable", w),
         NEW u, u = KindGroups(q, w)
  PROVE  FourGroups(a, b, c, d, u)
<1>1. IsSequence(a) /\ IsSequence(b) /\ IsSequence(c) /\ IsSequence(d)
  BY KindSets, GroupAny DEF Names, GroupOf
<1>2. PICK f : f = [k \in 1 .. 4 |-> GroupOf(q, Kinds[k], w)]
  OBVIOUS
<1>3. f[1] = a /\ f[2] = b /\ f[3] = c /\ f[4] = d /\ f = [k \in 1 .. 4 |-> f[k]]
  BY <1>2, KindSets
<1>4. u = FlattenSeq(f)
  BY <1>2, KindSets DEF KindGroups
<1>5. u = Both(Both(Both(a, b), c), d)
  BY <1>1, <1>3, <1>4, FlattenFour
<1>6. IsSequence(Both(a, b))
  BY <1>1, BothFacts
<1>7. IsSequence(Both(Both(a, b), c))
  BY <1>1, <1>6, BothFacts
<1>8. IsSequence(u)
  BY <1>1, <1>5, <1>7, BothFacts
<1> QED BY <1>1, <1>5, <1>8 DEF FourGroups

\* The groups of the removed symbols come before those of the added.
LEMMA GroupsAre ==
  ASSUME NEW q, Names(q), NEW x, x = KindGroups(q, "removed"), NEW y, y = KindGroups(q, "added"),
         NEW u, u = GroupsOf(q)
  PROVE  IsSequence(x) /\ IsSequence(y) /\ u = Both(x, y)
<1>1. IsSequence(x) /\ IsSequence(y)
  BY KindSets, KindGroupsAre DEF FourGroups
<1>2. PICK f : f = [w \in 1 .. 2 |-> KindGroups(q, Whiches[w])]
  OBVIOUS
<1>3. f[1] = x /\ f[2] = y /\ f = [w \in 1 .. 2 |-> f[w]]
  BY <1>2, KindSets
<1>4. u = FlattenSeq(f)
  BY <1>2, KindSets DEF GroupsOf
<1> QED BY <1>1, <1>3, <1>4, FlattenTwo

\* Every symbol held back is put under its kind.
PutsAll(s, t, q) ==
  /\ Grouped(t)
  /\ ValuesAt(t, RestAt(t)) = ValuesAt(s, RestAt(s))
  /\ \A k \in ToSet(Kinds), w \in ToSet(Whiches) :
       NamesAt(t, Under(t, k, w)) = Both(NamesAt(s, Under(s, k, w)), q[w][k])

\* The names under a kind are a sequence.
LEMMA NamesAny ==
  ASSUME NEW s, Grouped(s), NEW k, NEW w
  PROVE  IsSequence(NamesAt(s, Under(s, k, w)))
<1>1. IsSequence(s) /\ Len(s) <= Len(s)
  <2>1. IsSequence(s)
    BY DEF Grouped
  <2> QED BY <2>1, SequenceFacts
<1>2. Under(s, k, w) \in SUBSET (1 .. Len(s))
  BY GroupedWhere
<1> QED BY <1>1, <1>2, NamesSame

\* Four sequences after another, together and one by one.
LEMMA ConcatFour ==
  ASSUME NEW s, NEW a, NEW b, NEW c, NEW d, IsSequence(s), IsSequence(a), IsSequence(b),
         IsSequence(c), IsSequence(d), NEW u, u = Both(Both(Both(a, b), c), d),
         NEW s1, s1 = Both(s, a), NEW s2, s2 = Both(s1, b), NEW s3, s3 = Both(s2, c), NEW s4, s4 = Both(s3, d)
  PROVE  Both(s, u) = s4
<1>1. \A p, q, r : IsSequence(p) /\ IsSequence(q) /\ IsSequence(r)
                     => Both(Both(p, q), r) = Both(p, Both(q, r))
  BY BothFacts
<1>2. PICK x : x = Both(a, b)
  OBVIOUS
<1>3. PICK y : y = Both(x, c)
  OBVIOUS
<1>4. IsSequence(x)
  BY <1>2, BothFacts
<1>5. IsSequence(y)
  BY <1>3, <1>4, BothFacts
<1>6. s2 = Both(s, x)
  BY <1>1, <1>2
<1>7. s3 = Both(s, y)
  BY <1>1, <1>3, <1>4, <1>6
<1>8. s4 = Both(s, Both(y, d))
  BY <1>1, <1>5, <1>7
<1> QED BY <1>2, <1>3, <1>8

\* The symbols to which w happened are put under their kinds, and no others.
PutsKinds(s, t, q, w) ==
  /\ Grouped(t)
  /\ ValuesAt(t, RestAt(t)) = ValuesAt(s, RestAt(s))
  /\ \A k \in ToSet(Kinds), v \in ToSet(Whiches) :
       NamesAt(t, Under(t, k, v)) = Both(NamesAt(s, Under(s, k, v)), More(q[w][k], v = w))

\* The groups of the removed or of the added symbols are put.
LEMMA KindGroupsPut ==
  ASSUME NEW s, Grouped(s), NEW q, Names(q), NEW w \in ToSet(Whiches),
         NEW t, t = Both(s, KindGroups(q, w))
  PROVE  PutsKinds(s, t, q, w)
<1> SUFFICES ASSUME
      NEW a, a = GroupOf(q, "TLS", w), NEW b, b = GroupOf(q, "common", w),
      NEW c, c = GroupOf(q, "function", w), NEW d, d = GroupOf(q, "variable", w),
      NEW u, u = KindGroups(q, w),
      NEW s1, s1 = Both(s, a), NEW s2, s2 = Both(s1, b), NEW s3, s3 = Both(s2, c), NEW s4, s4 = Both(s3, d)
    PROVE PutsKinds(s, t, q, w)
  OBVIOUS
<1>1. FourGroups(a, b, c, d, u)
  BY KindGroupsAre
<1>2. IsSequence(s)
  BY DEF Grouped
<1>3. t = s4
  BY <1>1, <1>2, ConcatFour DEF FourGroups
<1>4. /\ IsSequence(q[w]["TLS"]) /\ IsSequence(q[w]["common"])
      /\ IsSequence(q[w]["function"]) /\ IsSequence(q[w]["variable"])
  BY KindSets DEF Names
<1>5. PutsUnder(s, s1, "TLS", w, q[w]["TLS"])
  BY <1>4, GroupPut DEF GroupOf, Both
<1>6. PutsUnder(s1, s2, "common", w, q[w]["common"])
  <2>1. Grouped(s1)
    BY <1>5 DEF PutsUnder
  <2> QED BY <1>4, <2>1, GroupPut DEF GroupOf, Both
<1>7. PutsUnder(s2, s3, "function", w, q[w]["function"])
  <2>1. Grouped(s2)
    BY <1>6 DEF PutsUnder
  <2> QED BY <1>4, <2>1, GroupPut DEF GroupOf, Both
<1>8. PutsUnder(s3, s4, "variable", w, q[w]["variable"])
  <2>1. Grouped(s3)
    BY <1>7 DEF PutsUnder
  <2> QED BY <1>4, <2>1, GroupPut DEF GroupOf, Both
<1>9. Grouped(s4) /\ ValuesAt(s4, RestAt(s4)) = ValuesAt(s, RestAt(s))
  BY <1>5, <1>6, <1>7, <1>8 DEF PutsUnder
<1>10. ASSUME NEW k \in ToSet(Kinds), NEW v \in ToSet(Whiches)
       PROVE  NamesAt(s4, Under(s4, k, v)) = Both(NamesAt(s, Under(s, k, v)), More(q[w][k], v = w))
  <2> SUFFICES ASSUME NEW n, n = NamesAt(s, Under(s, k, v)), NEW n1, n1 = NamesAt(s1, Under(s1, k, v)),
                      NEW n2, n2 = NamesAt(s2, Under(s2, k, v)), NEW n3, n3 = NamesAt(s3, Under(s3, k, v)),
                      NEW n4, n4 = NamesAt(s4, Under(s4, k, v))
               PROVE  n4 = Both(n, More(q[w][k], v = w))
    OBVIOUS
  <2>1. IsSequence(n) /\ IsSequence(n1) /\ IsSequence(n2) /\ IsSequence(n3) /\ IsSequence(n4)
    BY <1>5, <1>6, <1>7, <1>8, NamesAny DEF PutsUnder
  <2>2. /\ n1 = Both(n, More(q[w]["TLS"], k = "TLS" /\ v = w))
        /\ n2 = Both(n1, More(q[w]["common"], k = "common" /\ v = w))
        /\ n3 = Both(n2, More(q[w]["function"], k = "function" /\ v = w))
        /\ n4 = Both(n3, More(q[w]["variable"], k = "variable" /\ v = w))
    <3>1. n1 = Both(n, More(q[w]["TLS"], k = "TLS" /\ v = w))
      BY <1>5 DEF PutsUnder
    <3>2. n2 = Both(n1, More(q[w]["common"], k = "common" /\ v = w))
      BY <1>6 DEF PutsUnder
    <3>3. n3 = Both(n2, More(q[w]["function"], k = "function" /\ v = w))
      BY <1>7 DEF PutsUnder
    <3>4. n4 = Both(n3, More(q[w]["variable"], k = "variable" /\ v = w))
      BY <1>8 DEF PutsUnder
    <3> QED BY <3>1, <3>2, <3>3, <3>4
  <2>3. Both(n, << >>) = n /\ Both(n1, << >>) = n1 /\ Both(n2, << >>) = n2 /\ Both(n3, << >>) = n3
    BY <2>1, BothFacts
  <2>4. CASE v # w
    BY <2>2, <2>3, <2>4 DEF More
  <2>5. CASE v = w /\ k = "TLS"
    BY <2>2, <2>3, <2>5 DEF More
  <2>6. CASE v = w /\ k = "common"
    BY <2>2, <2>3, <2>6 DEF More
  <2>7. CASE v = w /\ k = "function"
    BY <2>2, <2>3, <2>7 DEF More
  <2>8. CASE v = w /\ k = "variable"
    BY <2>2, <2>3, <2>8 DEF More
  <2>9. k \in {"TLS", "common", "function", "variable"}
    BY KindSets
  <2> QED BY <2>4, <2>5, <2>6, <2>7, <2>8, <2>9
<1> QED BY <1>3, <1>9, <1>10 DEF PutsKinds

\* All that is held back goes under its kinds when the groups are put
\* (GroupRemovedAddedSymbols, at another line).
LEMMA GroupsPut ==
  ASSUME NEW s, Grouped(s), NEW q, Names(q), NEW t, t = Both(s, GroupsOf(q))
  PROVE  PutsAll(s, t, q)
<1> SUFFICES ASSUME
      NEW x, x = KindGroups(q, "removed"), NEW y, y = KindGroups(q, "added"), NEW u, u = GroupsOf(q),
      NEW s1, s1 = Both(s, x), NEW s2, s2 = Both(s1, y)
    PROVE PutsAll(s, t, q)
  OBVIOUS
<1>1. IsSequence(x) /\ IsSequence(y) /\ u = Both(x, y)
  BY GroupsAre
<1>2. IsSequence(s)
  BY DEF Grouped
<1>3. t = s2
  BY <1>1, <1>2, BothFacts
<1>4. PutsKinds(s, s1, q, "removed")
  BY KindSets, KindGroupsPut
<1>5. PutsKinds(s1, s2, q, "added")
  <2>1. Grouped(s1)
    BY <1>4 DEF PutsKinds
  <2> QED BY <2>1, KindSets, KindGroupsPut
<1>6. ASSUME NEW k \in ToSet(Kinds), NEW w \in ToSet(Whiches)
      PROVE  NamesAt(s2, Under(s2, k, w)) = Both(NamesAt(s, Under(s, k, w)), q[w][k])
  <2> SUFFICES ASSUME NEW n, n = NamesAt(s, Under(s, k, w)), NEW n1, n1 = NamesAt(s1, Under(s1, k, w)),
                      NEW n2, n2 = NamesAt(s2, Under(s2, k, w))
               PROVE  n2 = Both(n, q[w][k])
    OBVIOUS
  <2>1. n1 = Both(n, More(q["removed"][k], w = "removed"))
    BY <1>4 DEF PutsKinds
  <2>2. n2 = Both(n1, More(q["added"][k], w = "added"))
    BY <1>5 DEF PutsKinds
  <2>3. IsSequence(n) /\ IsSequence(n1)
    BY <1>4, NamesAny DEF PutsKinds
  <2>4. Both(n, << >>) = n /\ Both(n1, << >>) = n1
    BY <2>3, BothFacts
  <2>5. CASE w = "removed"
    BY <2>1, <2>2, <2>4, <2>5 DEF More
  <2>6. CASE w = "added"
    BY <2>1, <2>2, <2>4, <2>6 DEF More
  <2>7. w \in {"removed", "added"}
    BY KindSets
  <2> QED BY <2>5, <2>6, <2>7
<1> QED BY <1>3, <1>4, <1>5, <1>6 DEF PutsAll, PutsKinds

\* The lines of a report that has been summarised for CRC changes only.
SymbolLine(x) ==
  /\ x.tag \notin {"heading", "listed"}
  /\ x.tag = "was" => x.kind \in ToSet(Kinds) /\ x.which \in ToSet(Whiches)

SymbolLines(r) == IsSequence(r) /\ \A i \in 1 .. Len(r) : SymbolLine(r[i])

Others(r, n)   == (1 .. n) \ Spans(WasAt(r), 2)
WasOf(r, k, w) == {i \in WasAt(r) : r[i].kind = k /\ r[i].which = w}
WasTo(r, n, k, w) == WasOf(r, k, w) \cap (1 .. n)

AllKinds(q) == q = [w \in ToSet(Whiches) |-> [k \in ToSet(Kinds) |-> q[w][k]]]

\* The first n lines have been dealt with: the symbols are under their kinds or held back,
\* in their order, and the other lines are there.
GroupsTo(r, n, made, q) ==
  /\ Grouped(made) /\ Names(q) /\ AllKinds(q)
  /\ n \notin WasAt(r)
  /\ ValuesAt(made, RestAt(made)) = ValuesAt(r, Others(r, n))
  /\ \A k \in ToSet(Kinds), w \in ToSet(Whiches) :
       NamesAt(r, WasTo(r, n, k, w)) = Both(NamesAt(made, Under(made, k, w)), q[w][k])

\* Two lines from each position on, and three.
LEMMA SpansTwo ==
  ASSUME NEW S \in SUBSET Int
  PROVE  \A i \in Int : i \in Spans(S, 2) <=> i \in S \/ i - 1 \in S
<1>1. \A i : i \in Spans(S, 2) <=> \E j \in S : i \in j .. j + 2 - 1
  BY DEF Spans
<1>2. \A j \in S, i \in Int : i \in j .. j + 2 - 1 <=> j = i \/ j = i - 1
  OBVIOUS
<1> QED BY <1>1, <1>2

\* Three lines from each position on.
LEMMA SpansThree ==
  ASSUME NEW S \in SUBSET Int
  PROVE  \A i \in Int : i \in Spans(S, 3) <=> i \in S \/ i - 1 \in S \/ i - 2 \in S
<1>1. \A i : i \in Spans(S, 3) <=> \E j \in S : i \in j .. j + 3 - 1
  BY DEF Spans
<1>2. \A j \in S, i \in Int : i \in j .. j + 3 - 1 <=> j = i \/ j = i - 1 \/ j = i - 2
  OBVIOUS
<1> QED BY <1>1, <1>2

\* Where a symbol was removed or added, two lines are about it.
LEMMA WasLines ==
  ASSUME NEW r, IsSequence(r)
  PROVE  /\ \A i : i \in WasAt(r) <=> /\ i \in 1 .. Len(r) /\ i + 1 <= Len(r)
                                      /\ r[i].tag = "was" /\ r[i + 1].tag = "empty"
         /\ \A i \in Int : i \in Spans(WasAt(r), 2) <=> i \in WasAt(r) \/ i - 1 \in WasAt(r)
<1>1. Len(r) \in Nat /\ DOMAIN r = 1 .. Len(r)
  BY SequenceFacts
<1>2. ASSUME NEW i \in 1 .. Len(r)
      PROVE  RemovedOrAdded(r, i) <=> i + 1 <= Len(r) /\ r[i].tag = "was" /\ r[i + 1].tag = "empty"
  <2>1. i \in Int
    BY <1>1
  <2> QED BY <2>1, TwoTags DEF RemovedOrAdded
<1>3. \A i : i \in WasAt(r) <=> /\ i \in 1 .. Len(r) /\ i + 1 <= Len(r)
                                /\ r[i].tag = "was" /\ r[i + 1].tag = "empty"
  BY <1>1, <1>2 DEF WasAt
<1>4. WasAt(r) \in SUBSET Int
  BY <1>1, <1>3
<1> QED BY <1>3, <1>4, SpansTwo

\* At the start.
LEMMA GroupsStart ==
  ASSUME NEW r, SymbolLines(r)
  PROVE  GroupsTo(r, 0, << >>, NoSymbols)
<1>1. PICK e : e = << >>
  OBVIOUS
<1>2. IsSequence(e) /\ Len(e) = 0 /\ DOMAIN e = {}
  <2>1. IsSequence(e) /\ Len(e) = 0
    BY <1>1, FewAny
  <2> QED BY <2>1, SequenceFacts
<1>3. HeadingsAt(e) = {} /\ ListedAt(e) = {}
  BY <1>2 DEF HeadingsAt, ListedAt
<1>4. Grouped(e) /\ RestAt(e) = {} /\ \A k, w : Under(e, k, w) = {}
  BY <1>2, <1>3 DEF Grouped, RestAt, Under
<1>5. 0 \notin WasAt(r)
  <2>1. IsSequence(r)
    BY DEF SymbolLines
  <2> QED BY <2>1, WasLines
<1>6. Others(r, 0) = {} /\ \A k, w : WasTo(r, 0, k, w) = {}
  BY DEF Others, WasTo
<1>7. \A t : NamesAt(t, {}) = << >>
  BY ValuesNone DEF NamesAt
<1>8. \A k \in ToSet(Kinds), w \in ToSet(Whiches) : NoSymbols[w][k] = << >>
  BY DEF NoSymbols
<1>9. Names(NoSymbols)
  BY <1>8, FewAny DEF Names
<1>10. AllKinds(NoSymbols)
  <2>1. NoSymbols = [w \in ToSet(Whiches) |-> [k \in ToSet(Kinds) |-> << >>]]
    BY DEF NoSymbols
  <2> QED BY <1>8, <2>1 DEF AllKinds
<1>11. Both(<< >>, << >>) = << >>
  BY FewAny, BothFacts
<1>12. ValuesAt(e, RestAt(e)) = ValuesAt(r, Others(r, 0))
  BY <1>4, <1>6, ValuesNone
<1>13. ASSUME NEW k \in ToSet(Kinds), NEW w \in ToSet(Whiches)
       PROVE  NamesAt(r, WasTo(r, 0, k, w)) = Both(NamesAt(e, Under(e, k, w)), NoSymbols[w][k])
  BY <1>4, <1>6, <1>7, <1>8, <1>11
<1>14. GroupsTo(r, 0, e, NoSymbols)
  BY <1>4, <1>5, <1>9, <1>10, <1>12, <1>13 DEF GroupsTo
<1> QED BY <1>1, <1>14

\* Any other line.
LEMMA GroupsOther ==
  ASSUME NEW r, SymbolLines(r), NEW n \in Nat, NEW made, NEW q, GroupsTo(r, n, made, q),
         NEW m, m = n + 1, m <= Len(r), m \notin WasAt(r),
         NEW t, t = Append(Both(made, GroupsOf(q)), r[m])
  PROVE  GroupsTo(r, m, t, NoSymbols)
<1>1. IsSequence(r) /\ Len(r) \in Nat /\ m \in Nat /\ m \in 1 .. Len(r)
  <2>1. IsSequence(r)
    BY DEF SymbolLines
  <2>2. Len(r) \in Nat
    BY <2>1, SequenceFacts
  <2> QED BY <2>1, <2>2
<1>2. /\ Grouped(made) /\ Names(q) /\ n \notin WasAt(r)
      /\ ValuesAt(made, RestAt(made)) = ValuesAt(r, Others(r, n))
      /\ \A k \in ToSet(Kinds), w \in ToSet(Whiches) :
           NamesAt(r, WasTo(r, n, k, w)) = Both(NamesAt(made, Under(made, k, w)), q[w][k])
  BY DEF GroupsTo
<1>3. PICK u : u = Both(made, GroupsOf(q))
  OBVIOUS
<1>4. PutsAll(made, u, q)
  BY <1>2, <1>3, GroupsPut
<1>5. PICK x : x = r[m]
  OBVIOUS
<1>6. x.tag \notin {"heading", "listed"}
  BY <1>1, <1>5 DEF SymbolLines, SymbolLine
<1>7. /\ Grouped(t)
      /\ ValuesAt(t, RestAt(t)) = Append(ValuesAt(u, RestAt(u)), x)
      /\ \A k, w : NamesAt(t, Under(t, k, w)) = NamesAt(u, Under(u, k, w))
  <2>1. Grouped(u) /\ t = Append(u, x)
    BY <1>3, <1>4, <1>5 DEF PutsAll
  <2>2. AddsOther(u, t, x)
    BY <1>6, <2>1, AppendOther
  <2> QED BY <2>2 DEF AddsOther
<1>8. Others(r, m) = Others(r, n) \cup {m}
  <2>1. m \notin Spans(WasAt(r), 2)
    <3>1. m - 1 = n
      OBVIOUS
    <3> QED BY <1>1, <1>2, <3>1, WasLines
  <2>2. 1 .. m = (1 .. n) \cup {m}
    OBVIOUS
  <2> QED BY <2>1, <2>2 DEF Others
<1>9. ValuesAt(t, RestAt(t)) = ValuesAt(r, Others(r, m))
  <2>1. Others(r, n) \in SUBSET (1 .. n)
    BY DEF Others
  <2>2. ValuesAt(r, Others(r, n) \cup {n + 1}) = Append(ValuesAt(r, Others(r, n)), r[n + 1])
    BY <2>1, ValuesNext
  <2>3. ValuesAt(u, RestAt(u)) = ValuesAt(r, Others(r, n))
    BY <1>2, <1>4 DEF PutsAll
  <2> QED BY <1>5, <1>7, <1>8, <2>2, <2>3
<1>10. ASSUME NEW k \in ToSet(Kinds), NEW w \in ToSet(Whiches)
       PROVE  NamesAt(r, WasTo(r, m, k, w)) = Both(NamesAt(t, Under(t, k, w)), NoSymbols[w][k])
  <2>1. WasTo(r, m, k, w) = WasTo(r, n, k, w)
    <3>1. 1 .. m = (1 .. n) \cup {m}
      OBVIOUS
    <3> QED BY <3>1 DEF WasTo, WasOf
  <2>2. NamesAt(t, Under(t, k, w)) = Both(NamesAt(made, Under(made, k, w)), q[w][k])
    BY <1>4, <1>7 DEF PutsAll
  <2>3. NoSymbols[w][k] = << >>
    BY DEF NoSymbols
  <2>4. IsSequence(NamesAt(t, Under(t, k, w)))
    BY <1>7, NamesAny
  <2>5. Both(NamesAt(t, Under(t, k, w)), << >>) = NamesAt(t, Under(t, k, w))
    BY <2>4, BothFacts
  <2> QED BY <1>2, <2>1, <2>2, <2>3, <2>5
<1>11. Names(NoSymbols) /\ AllKinds(NoSymbols)
  BY GroupsStart DEF GroupsTo
<1> QED BY <1>7, <1>9, <1>10, <1>11 DEF GroupsTo

\* A name is held back.
HeldUnder(q, p, kk, ww, x) ==
  /\ AllKinds(p) /\ p[ww][kk] = Append(q[ww][kk], x)
  /\ \A k \in ToSet(Kinds), w \in ToSet(Whiches) : ~(k = kk /\ w = ww) => p[w][k] = q[w][k]

\* A symbol that is held back is the last of its kind, and the other kinds are as they
\* were.
LEMMA SymbolHeld ==
  ASSUME NEW q, AllKinds(q), NEW kk \in ToSet(Kinds), NEW ww \in ToSet(Whiches), NEW x,
         NEW p, p = [q EXCEPT ![ww][kk] = Append(@, x)]
  PROVE  HeldUnder(q, p, kk, ww, x)
<1>1. PICK y : y = Append(q[ww][kk], x)
  OBVIOUS
<1>2. PICK K : K = ToSet(Kinds)
  OBVIOUS
<1>3. PICK W : W = ToSet(Whiches)
  OBVIOUS
<1>4. q = [w \in W |-> [k \in K |-> q[w][k]]]
  BY <1>2, <1>3 DEF AllKinds
<1>5. p = [q EXCEPT ![ww][kk] = y]
  BY <1>1
<1>6. DOMAIN q = W /\ \A w \in W : q[w] = [k \in K |-> q[w][k]]
  BY <1>4
<1>7. p = [w \in W |-> IF w = ww THEN [q[ww] EXCEPT ![kk] = y] ELSE q[w]]
  BY <1>5, <1>6
<1>8. p[ww] = [k \in K |-> IF k = kk THEN y ELSE q[ww][k]]
  BY <1>3, <1>6, <1>7
<1>9. \A w \in W : w # ww => p[w] = q[w]
  BY <1>7
<1>10. \A w \in W : p[w] = [k \in K |-> p[w][k]]
  BY <1>6, <1>8, <1>9
<1>11. p = [w \in W |-> p[w]]
  BY <1>7
<1>12. p = [w \in W |-> [k \in K |-> p[w][k]]]
  BY <1>10, <1>11
<1>13. p[ww][kk] = y /\ \A k \in K : k # kk => p[ww][k] = q[ww][k]
  BY <1>2, <1>8
<1> QED BY <1>1, <1>2, <1>3, <1>9, <1>12, <1>13 DEF HeldUnder, AllKinds

\* A symbol that was removed or added.
LEMMA GroupsHeld ==
  ASSUME NEW r, SymbolLines(r), NEW n \in Nat, NEW made, NEW q, GroupsTo(r, n, made, q),
         NEW m, m = n + 1, m \in WasAt(r), NEW e, e = n + 2,
         NEW p, p = [q EXCEPT ![r[m].which][r[m].kind] = Append(@, r[m].name)]
  PROVE  GroupsTo(r, e, made, p)
<1>1. IsSequence(r) /\ Len(r) \in Nat /\ m \in 1 .. Len(r) /\ e <= Len(r) /\ r[m].tag = "was" /\ r[e].tag = "empty"
  <2>1. IsSequence(r)
    BY DEF SymbolLines
  <2>2. Len(r) \in Nat
    BY <2>1, SequenceFacts
  <2>3. m + 1 = e
    OBVIOUS
  <2> QED BY <2>1, <2>2, <2>3, WasLines
<1>2. /\ Grouped(made) /\ Names(q) /\ AllKinds(q) /\ n \notin WasAt(r)
      /\ ValuesAt(made, RestAt(made)) = ValuesAt(r, Others(r, n))
      /\ \A k \in ToSet(Kinds), w \in ToSet(Whiches) :
           NamesAt(r, WasTo(r, n, k, w)) = Both(NamesAt(made, Under(made, k, w)), q[w][k])
  BY DEF GroupsTo
<1>3. PICK kk \in ToSet(Kinds) : kk = r[m].kind
  BY <1>1 DEF SymbolLines, SymbolLine
<1>4. PICK ww \in ToSet(Whiches) : ww = r[m].which
  BY <1>1 DEF SymbolLines, SymbolLine
<1>5. PICK x : x = r[m].name
  OBVIOUS
<1>6. HeldUnder(q, p, kk, ww, x)
  <2>1. p = [q EXCEPT ![ww][kk] = Append(@, x)]
    BY <1>3, <1>4, <1>5
  <2> QED BY <1>2, <2>1, SymbolHeld
<1>7. Names(p)
  <2>1. IsSequence(q[ww][kk])
    BY <1>2 DEF Names
  <2>2. IsSequence(Append(q[ww][kk], x))
    BY <2>1, AppendAny
  <2> QED BY <1>2, <1>6, <2>2 DEF Names, HeldUnder
<1>8. e \notin WasAt(r) /\ m \in WasAt(r) /\ n \notin WasAt(r)
  BY <1>1, <1>2, WasLines
<1>9. Others(r, e) = Others(r, n)
  <2>1. m \in Spans(WasAt(r), 2) /\ e \in Spans(WasAt(r), 2)
    <3>1. e - 1 = m /\ e \in Int
      OBVIOUS
    <3> QED BY <1>1, <3>1, WasLines
  <2>2. 1 .. e = (1 .. n) \cup {m, e}
    OBVIOUS
  <2> QED BY <2>1, <2>2 DEF Others
<1>10. ASSUME NEW k \in ToSet(Kinds), NEW w \in ToSet(Whiches)
       PROVE  NamesAt(r, WasTo(r, e, k, w)) = Both(NamesAt(made, Under(made, k, w)), p[w][k])
  <2>1. 1 .. e = (1 .. n) \cup {m, e}
    BY SMTT(30)
  <2>2. CASE ~(k = kk /\ w = ww)
    <3>1. WasTo(r, e, k, w) = WasTo(r, n, k, w)
      BY SMTT(30), <1>3, <1>4, <1>8, <2>1, <2>2 DEF WasTo, WasOf
    <3> QED BY <1>2, <1>6, <2>2, <3>1 DEF HeldUnder
  <2>3. CASE k = kk /\ w = ww
    <3>1. WasTo(r, e, k, w) = WasTo(r, n, k, w) \cup {n + 1}
      BY <1>3, <1>4, <1>8, <2>1, <2>3 DEF WasTo, WasOf
    <3> SUFFICES ASSUME NEW a, a = NamesAt(made, Under(made, k, w)), NEW b, b = q[w][k],
                        NEW S, S = WasTo(r, n, k, w)
                 PROVE  NamesAt(r, S \cup {n + 1}) = Both(a, p[w][k])
      BY <3>1
    <3>2. NamesAt(r, S \cup {n + 1}) = Append(NamesAt(r, S), x)
      <4> DEFINE f == [i \in DOMAIN r |-> r[i].name]
      <4>1. f[n + 1] = x
        <5>1. n + 1 \in DOMAIN r
          BY <1>1, SequenceFacts
        <5> QED BY <1>5, <5>1
      <4> HIDE DEF f
      <4>2. S \in SUBSET (1 .. n)
        BY DEF WasTo
      <4>3. ValuesAt(f, S \cup {n + 1}) = Append(ValuesAt(f, S), f[n + 1])
        BY <4>2, ValuesNext
      <4> QED BY <4>1, <4>3 DEF NamesAt, f
    <3>3. NamesAt(r, S) = Both(a, b)
      BY <1>2
    <3>4. IsSequence(a) /\ IsSequence(b)
      BY <1>2, NamesAny DEF Names
    <3>5. Append(Both(a, b), x) = Both(a, Append(b, x))
      BY SMTT(30), <3>4, BothAppend
    <3>6. p[w][k] = Append(b, x)
      BY <1>6, <2>3 DEF HeldUnder
    <3> QED BY <3>2, <3>3, <3>5, <3>6
  <2> QED BY <2>2, <2>3
<1> QED BY <1>2, <1>6, <1>7, <1>8, <1>9, <1>10 DEF GroupsTo, HeldUnder

\* At the end.
LEMMA GroupsEnd ==
  ASSUME NEW r, SymbolLines(r), NEW made, NEW q, GroupsTo(r, Len(r), made, q),
         NEW t, t = Both(made, GroupsOf(q))
  PROVE  SymbolsGrouped(r, t) /\ IsSequence(t)
<1>1. IsSequence(r) /\ Len(r) \in Nat /\ DOMAIN r = 1 .. Len(r)
  <2>1. IsSequence(r)
    BY DEF SymbolLines
  <2> QED BY <2>1, SequenceFacts
<1>2. /\ Grouped(made) /\ Names(q)
      /\ ValuesAt(made, RestAt(made)) = ValuesAt(r, Others(r, Len(r)))
      /\ \A k \in ToSet(Kinds), w \in ToSet(Whiches) :
           NamesAt(r, WasTo(r, Len(r), k, w)) = Both(NamesAt(made, Under(made, k, w)), q[w][k])
  BY DEF GroupsTo
<1>3. PutsAll(made, t, q)
  BY <1>2, GroupsPut
<1>4. Grouped(t)
  BY <1>3 DEF PutsAll
<1>5. ValuesAt(t, DOMAIN t \ (HeadingsAt(t) \cup ListedAt(t) \cup BlanksAt(t)))
        = ValuesAt(r, DOMAIN r \ Spans(WasAt(r), 2))
  <2>1. ValuesAt(t, RestAt(t)) = ValuesAt(r, Others(r, Len(r)))
    BY <1>2, <1>3 DEF PutsAll
  <2> QED BY <1>1, <2>1 DEF RestAt, Others
<1>6. \A h \in HeadingsAt(t) : {i \in ListedAt(t) : HeadingOf(t, i) = h} = h + 1 .. h + t[h].count
  BY <1>4, GroupedMeans
<1>7. ASSUME NEW k \in ToSet(Kinds), NEW w \in ToSet(Whiches)
      PROVE  NamesAt(r, {i \in WasAt(r) : r[i].kind = k /\ r[i].which = w})
               = NamesAt(t, {i \in ListedAt(t) : LET h == t[HeadingOf(t, i)]
                                                IN  h.kind = k /\ h.which = w})
  <2>1. WasTo(r, Len(r), k, w) = {i \in WasAt(r) : r[i].kind = k /\ r[i].which = w}
    <3>1. WasAt(r) \subseteq 1 .. Len(r)
      BY <1>1 DEF WasAt
    <3> QED BY <3>1 DEF WasTo, WasOf
  <2>2. NamesAt(r, WasTo(r, Len(r), k, w)) = NamesAt(t, Under(t, k, w))
    BY <1>2, <1>3 DEF PutsAll
  <2> QED BY <2>1, <2>2 DEF Under
<1>8. SymbolsGrouped(r, t)
  BY <1>5, <1>6, <1>7 DEF SymbolsGrouped
<1> QED BY <1>4, <1>8 DEF Grouped

--------------------------------------------------------------------------------
(***************************************************************************)
(* The first pass.                                                         *)
(***************************************************************************)

\* Where nothing but the CRC of a symbol has changed.
CRCOnlyAre(r) ==
  \A i : i \in CRCOnlyAt(r) <=> /\ i \in 1 .. Len(r) /\ i + 2 <= Len(r)
                               /\ r[i].tag = "changed" /\ r[i + 1].tag = "crc" /\ r[i + 2].tag = "empty"

\* Where a symbol's only change is its CRC, by the tags of three lines.
LEMMA CRCLines == ASSUME NEW r, IsSequence(r) PROVE CRCOnlyAre(r)
<1>1. Len(r) \in Nat /\ DOMAIN r = 1 .. Len(r)
  BY SequenceFacts
<1>2. ASSUME NEW i \in 1 .. Len(r)
      PROVE  CRCOnly(r, i) <=> /\ i + 2 <= Len(r)
                               /\ r[i].tag = "changed" /\ r[i + 1].tag = "crc" /\ r[i + 2].tag = "empty"
  <2>1. i \in Int
    BY <1>1
  <2> QED BY <2>1, ThreeTags DEF CRCOnly
<1> QED BY <1>1, <1>2 DEF CRCOnlyAt, CRCOnlyAre

CRCRest(s) == DOMAIN s \ (Spans(CRCOnlyAt(s), 3) \cup Spans(OmittedAt(s), 2))

InRest(s, i) ==
  /\ i \in 1 .. Len(s)
  /\ i \notin CRCOnlyAt(s) /\ i - 1 \notin CRCOnlyAt(s) /\ i - 2 \notin CRCOnlyAt(s)
  /\ i \notin OmittedAt(s) /\ i - 1 \notin OmittedAt(s)

RestAre(s) == \A i : i \in CRCRest(s) <=> InRest(s, i)

\* Which lines are about neither a symbol with a CRC change only nor those omitted.
LEMMA RestIs == ASSUME NEW s, IsSequence(s) PROVE RestAre(s)
<1>1. Len(s) \in Nat /\ DOMAIN s = 1 .. Len(s)
  BY SequenceFacts
<1>2. CRCOnlyAt(s) \in SUBSET Int /\ OmittedAt(s) \in SUBSET Int
  BY <1>1 DEF CRCOnlyAt, OmittedAt
<1>3. \A i \in Int : i \in Spans(CRCOnlyAt(s), 3)
                       <=> i \in CRCOnlyAt(s) \/ i - 1 \in CRCOnlyAt(s) \/ i - 2 \in CRCOnlyAt(s)
  BY <1>2, SpansThree
<1>4. \A i \in Int : i \in Spans(OmittedAt(s), 2) <=> i \in OmittedAt(s) \/ i - 1 \in OmittedAt(s)
  BY <1>2, SpansTwo
<1>5. \A i \in 1 .. Len(s) : i \in Int
  BY <1>1
<1> QED BY <1>1, <1>3, <1>4, <1>5 DEF CRCRest, InRest, RestAre

\* The parts of what the first pass makes: the lines that stay, the symbols that are shown,
\* and where others are counted and sections start.
CRCParts(s, rest, shown, O, S) ==
  /\ SymbolLines(s)
  /\ \A i \in OmittedAt(s) : i + 1 <= Len(s)
  /\ ValuesAt(s, CRCRest(s)) = rest
  /\ ValuesAt(s, CRCOnlyAt(s)) = shown
  /\ OmittedAt(s) = O /\ SectionsAt(s) = S
  /\ \A i \in S, k \in CRCOnlyAt(s) \cup O : k < i

\* Positions of parts.
PartsAre(s) ==
  /\ Len(s) \in Nat /\ DOMAIN s = 1 .. Len(s)
  /\ CRCRest(s) \in SUBSET (1 .. Len(s)) /\ CRCOnlyAt(s) \in SUBSET (1 .. Len(s))
  /\ \A i : i \in OmittedAt(s) <=> i \in 1 .. Len(s) /\ s[i].tag = "omitted"
  /\ \A i : i \in SectionsAt(s) <=> i \in 1 .. Len(s) /\ s[i].tag = "section"

\* Where the parts of a report are.
LEMMA PartsWhere == ASSUME NEW s, IsSequence(s) PROVE PartsAre(s)
<1>1. Len(s) \in Nat /\ DOMAIN s = 1 .. Len(s)
  BY SequenceFacts
<1> QED BY <1>1 DEF CRCRest, CRCOnlyAt, OmittedAt, SectionsAt, PartsAre

\* A report starts like another.
Starts(t, s) == IsSequence(t) /\ Len(s) <= Len(t) /\ \A j \in 1 .. Len(s) : t[j] = s[j]

\* The values at positions of the first report are the same when more follows.
LEMMA StartsSame ==
  ASSUME NEW s, IsSequence(s), NEW t, Starts(t, s), NEW S \in SUBSET (1 .. Len(s))
  PROVE  ValuesAt(t, S) = ValuesAt(s, S)
<1>1. Len(s) \in Nat
  BY SequenceFacts
<1> QED BY <1>1, ValuesSame DEF Starts

\* A line that stays.
EndsCRC(s) == Len(s) > 1 /\ s[Len(s) - 1].tag = "changed" /\ s[Len(s)].tag = "crc"

Adds(t, s, x) ==
  /\ IsSequence(t) /\ Len(s) \in Nat /\ Len(t) = Len(s) + 1 /\ t[Len(s) + 1] = x
  /\ \A j \in 1 .. Len(s) : t[j] = s[j]

\* One line more, which makes no symbol with a CRC change only of those before.
LEMMA PartsLine ==
  ASSUME NEW s, NEW rest, NEW shown, NEW O, NEW S, CRCParts(s, rest, shown, O, S),
         NEW x, SymbolLine(x), x.tag # "omitted", ~(x.tag = "empty" /\ EndsCRC(s)),
         NEW t, Adds(t, s, x), NEW n, n = Len(s)
  PROVE  CRCParts(t, Append(rest, x), shown, O, IF x.tag = "section" THEN S \cup {n + 1} ELSE S)
<1>1. /\ SymbolLines(s) /\ IsSequence(s)
      /\ \A i \in OmittedAt(s) : i + 1 <= n
      /\ ValuesAt(s, CRCRest(s)) = rest /\ ValuesAt(s, CRCOnlyAt(s)) = shown
      /\ OmittedAt(s) = O /\ SectionsAt(s) = S
      /\ \A i \in S, k \in CRCOnlyAt(s) \cup O : k < i
  BY DEF CRCParts, SymbolLines
<1>2. /\ IsSequence(t) /\ n \in Nat /\ Len(t) = n + 1 /\ t[n + 1] = x
      /\ \A j \in 1 .. n : t[j] = s[j]
  BY DEF Adds
<1>3. Starts(t, s)
  BY <1>2 DEF Starts
<1>4. /\ \A j \in 1 .. n + 1 : j \in 1 .. n \/ j = n + 1
      /\ \A j \in 1 .. n : j \in 1 .. n + 1
  BY <1>2
<1>0. /\ CRCOnlyAre(s) /\ CRCOnlyAre(t) /\ RestAre(s) /\ RestAre(t) /\ PartsAre(s) /\ PartsAre(t)
  BY <1>1, <1>2, CRCLines, RestIs, PartsWhere
<1>5. SymbolLines(t)
  <2>1. \A j \in 1 .. n + 1 : SymbolLine(t[j])
    BY <1>1, <1>2, <1>4 DEF SymbolLines
  <2> QED BY <1>2, <2>1 DEF SymbolLines
<1>6. \A i : i \in CRCOnlyAt(t) <=> i \in CRCOnlyAt(s)
  <2>1. ASSUME NEW i, i \in CRCOnlyAt(t) PROVE i \in CRCOnlyAt(s)
    <3>1. /\ i \in 1 .. n + 1 /\ i + 2 <= n + 1
          /\ t[i].tag = "changed" /\ t[i + 1].tag = "crc" /\ t[i + 2].tag = "empty"
      BY <1>0, <1>2, <2>1 DEF CRCOnlyAre
    <3>2. i \in 1 .. n /\ i + 1 \in 1 .. n
      BY <1>2, <3>1
    <3>3. s[i].tag = "changed" /\ s[i + 1].tag = "crc"
      BY <1>2, <3>1, <3>2
    <3>4. i + 2 <= n
      <4> SUFFICES ASSUME i + 2 = n + 1 PROVE FALSE
        BY <1>2, <3>1
      <4>1. n = i + 1 /\ n - 1 = i /\ n > 1
        BY <3>2
      <4>2. x.tag = "empty" /\ EndsCRC(s)
        BY <1>2, <3>1, <3>3, <4>1 DEF EndsCRC
      <4> QED BY <4>2
    <3>5. s[i + 2].tag = "empty"
      <4>1. i + 2 \in 1 .. n
        BY <3>2, <3>4
      <4> QED BY <1>2, <3>1, <4>1
    <3> QED BY <1>0, <1>1, <3>2, <3>3, <3>4, <3>5 DEF CRCOnlyAre
  <2>2. ASSUME NEW i, i \in CRCOnlyAt(s) PROVE i \in CRCOnlyAt(t)
    <3>1. /\ i \in 1 .. n /\ i + 2 <= n
          /\ s[i].tag = "changed" /\ s[i + 1].tag = "crc" /\ s[i + 2].tag = "empty"
      BY <1>0, <1>1, <2>2 DEF CRCOnlyAre
    <3>2. i + 1 \in 1 .. n /\ i + 2 \in 1 .. n /\ i \in 1 .. n + 1 /\ i + 2 <= n + 1
      BY <1>2, <3>1
    <3> QED BY <1>0, <1>2, <3>1, <3>2 DEF CRCOnlyAre
  <2> QED BY <2>1, <2>2
<1>7. \A i : i \in OmittedAt(t) <=> i \in OmittedAt(s)
  BY <1>0, <1>1, <1>2, <1>4 DEF PartsAre
<1>8. SectionsAt(t) = IF x.tag = "section" THEN S \cup {n + 1} ELSE S
  <2>1. \A i : i \in SectionsAt(t) <=> i \in S \/ (i = n + 1 /\ x.tag = "section")
    BY <1>0, <1>1, <1>2, <1>4 DEF PartsAre
  <2> QED BY <2>1
<1>9. CRCRest(t) = CRCRest(s) \cup {n + 1}
  <2>1. n + 1 \notin CRCOnlyAt(s) /\ n + 1 - 1 \notin CRCOnlyAt(s) /\ n + 1 - 2 \notin CRCOnlyAt(s)
        /\ n + 1 \notin OmittedAt(s) /\ n + 1 - 1 \notin OmittedAt(s)
    <3>1. \A i \in CRCOnlyAt(s) : i \in 1 .. n /\ i + 2 <= n
      BY <1>0, <1>1 DEF CRCOnlyAre
    <3>2. \A i \in OmittedAt(s) : i \in 1 .. n /\ i + 1 <= n
      BY <1>0, <1>1 DEF PartsAre
    <3> QED BY <1>2, <3>1, <3>2
  <2>2. \A i : InRest(t, i) <=> InRest(s, i) \/ i = n + 1
    BY <1>2, <1>4, <1>6, <1>7, <2>1 DEF InRest
  <2>3. \A i : i \in CRCRest(t) <=> i \in CRCRest(s) \/ i = n + 1
    BY <1>0, <2>2 DEF RestAre
  <2> QED BY <2>3
<1>10. ValuesAt(t, CRCRest(t)) = Append(rest, x)
  <2>1. CRCRest(s) \in SUBSET (1 .. n)
    BY <1>0, <1>1 DEF PartsAre
  <2>2. ValuesAt(t, CRCRest(s) \cup {n + 1}) = Append(ValuesAt(t, CRCRest(s)), t[n + 1])
    BY <1>2, <2>1, ValuesNext
  <2>3. ValuesAt(t, CRCRest(s)) = rest
    BY <1>1, <1>3, <2>1, StartsSame
  <2> QED BY <1>2, <1>9, <2>2, <2>3
<1>11. ValuesAt(t, CRCOnlyAt(t)) = shown
  <2>1. CRCOnlyAt(s) \in SUBSET (1 .. n)
    BY <1>0, <1>1 DEF PartsAre
  <2>2. CRCOnlyAt(t) = CRCOnlyAt(s)
    BY <1>6
  <2> QED BY <1>1, <1>3, <2>1, <2>2, StartsSame
<1>12. \A i \in OmittedAt(t) : i + 1 <= Len(t)
  <2>1. \A i \in OmittedAt(s) : i \in 1 .. n
    BY <1>0, <1>1 DEF PartsAre
  <2> QED BY <1>1, <1>2, <1>7, <2>1
<1>13. OmittedAt(t) = O
  BY <1>1, <1>7
<1>14. \A i \in IF x.tag = "section" THEN S \cup {n + 1} ELSE S : \A k \in CRCOnlyAt(t) \cup O : k < i
  <2>1. \A k \in CRCOnlyAt(s) \cup O : k < n + 1
    BY <1>0, <1>1, <1>2 DEF PartsAre, CRCOnlyAre
  <2>2. \A i \in S \cup {n + 1} : \A k \in CRCOnlyAt(s) \cup O : k < i
    BY <1>1, <2>1
  <2>3. CRCOnlyAt(t) = CRCOnlyAt(s)
    BY <1>6
  <2> QED BY <2>2, <2>3
<1> QED BY <1>5, <1>8, <1>10, <1>11, <1>12, <1>13, <1>14 DEF CRCParts

\* A symbol that is shown.
AddsThree(t, s, x) ==
  /\ IsSequence(t) /\ Len(s) \in Nat /\ Len(t) = Len(s) + 3
  /\ t[Len(s) + 1] = x /\ t[Len(s) + 2] = CRCLine /\ t[Len(s) + 3] = EmptyLine
  /\ \A j \in 1 .. Len(s) : t[j] = s[j]

\* Another symbol with a CRC change only is shown.
LEMMA PartsShown ==
  ASSUME NEW s, NEW rest, NEW shown, NEW O, NEW S, S = {}, CRCParts(s, rest, shown, O, S),
         NEW x, x.tag = "changed", NEW t, AddsThree(t, s, x)
  PROVE  CRCParts(t, rest, Append(shown, x), O, S)
<1> SUFFICES ASSUME NEW n, n = Len(s) PROVE CRCParts(t, rest, Append(shown, x), O, S)
  OBVIOUS
<1>1. /\ SymbolLines(s) /\ IsSequence(s)
      /\ \A i \in OmittedAt(s) : i + 1 <= n
      /\ ValuesAt(s, CRCRest(s)) = rest /\ ValuesAt(s, CRCOnlyAt(s)) = shown
      /\ OmittedAt(s) = O /\ SectionsAt(s) = S
  BY DEF CRCParts, SymbolLines
<1>2. /\ IsSequence(t) /\ n \in Nat /\ Len(t) = n + 3 /\ t[n + 1] = x
      /\ t[n + 1].tag = "changed" /\ t[n + 2].tag = "crc" /\ t[n + 3].tag = "empty"
      /\ \A j \in 1 .. n : t[j] = s[j]
  BY LineFields DEF AddsThree
<1>3. Starts(t, s)
  BY <1>2 DEF Starts
<1>4. /\ \A j \in 1 .. n + 3 : j \in 1 .. n \/ j = n + 1 \/ j = n + 2 \/ j = n + 3
      /\ \A j \in 1 .. n : j \in 1 .. n + 3
  BY <1>2
<1>5. /\ CRCOnlyAre(s) /\ CRCOnlyAre(t) /\ RestAre(s) /\ RestAre(t) /\ PartsAre(s) /\ PartsAre(t)
  BY <1>1, <1>2, CRCLines, RestIs, PartsWhere
<1>6. SymbolLines(t)
  <2>1. \A j \in 1 .. n + 3 : SymbolLine(t[j])
    <3>1. SymbolLine(t[n + 1]) /\ SymbolLine(t[n + 2]) /\ SymbolLine(t[n + 3])
      BY <1>2 DEF SymbolLine
    <3> QED BY <1>1, <1>2, <1>4, <3>1 DEF SymbolLines
  <2> QED BY <1>2, <2>1 DEF SymbolLines
<1>7. \A i : i \in CRCOnlyAt(t) <=> i \in CRCOnlyAt(s) \/ i = n + 1
  <2>1. ASSUME NEW i, i \in CRCOnlyAt(t), i # n + 1 PROVE i \in CRCOnlyAt(s)
    <3>1. /\ i \in 1 .. n + 3 /\ i + 2 <= n + 3
          /\ t[i].tag = "changed" /\ t[i + 1].tag = "crc" /\ t[i + 2].tag = "empty"
      BY <1>2, <1>5, <2>1 DEF CRCOnlyAre
    <3>2. i + 1 # n + 1 /\ i + 2 # n + 1
      BY <1>2, <3>1
    <3>3. i \in 1 .. n /\ i + 1 \in 1 .. n /\ i + 2 \in 1 .. n
      BY <1>2, <2>1, <3>1, <3>2
    <3>4. s[i].tag = "changed" /\ s[i + 1].tag = "crc" /\ s[i + 2].tag = "empty"
      BY <1>2, <3>1, <3>3
    <3>5. i + 2 <= n
      BY <3>3
    <3> QED BY <1>5, <3>3, <3>4, <3>5 DEF CRCOnlyAre
  <2>2. ASSUME NEW i, i \in CRCOnlyAt(s) PROVE i \in CRCOnlyAt(t)
    <3>1. /\ i \in 1 .. n /\ i + 2 <= n
          /\ s[i].tag = "changed" /\ s[i + 1].tag = "crc" /\ s[i + 2].tag = "empty"
      BY <1>5, <2>2 DEF CRCOnlyAre
    <3>2. i + 1 \in 1 .. n /\ i + 2 \in 1 .. n /\ i \in 1 .. n + 3 /\ i + 2 <= n + 3
      BY <1>2, <3>1
    <3> QED BY <1>2, <1>5, <3>1, <3>2 DEF CRCOnlyAre
  <2>3. n + 1 \in CRCOnlyAt(t)
    <3>1. n + 1 \in 1 .. n + 3 /\ n + 1 + 2 <= n + 3 /\ n + 1 + 1 = n + 2 /\ n + 1 + 2 = n + 3
      BY <1>2
    <3> QED BY <1>2, <1>5, <3>1 DEF CRCOnlyAre
  <2> QED BY <2>1, <2>2, <2>3
<1>8. \A i : i \in OmittedAt(t) <=> i \in OmittedAt(s)
  BY <1>1, <1>2, <1>4, <1>5 DEF PartsAre
<1>9. SectionsAt(t) = S
  <2>1. \A i : i \in SectionsAt(t) <=> i \in S
    BY <1>1, <1>2, <1>4, <1>5 DEF PartsAre
  <2> QED BY <2>1
<1>10. CRCRest(t) = CRCRest(s)
  <2>1. ASSUME NEW i \in 1 .. n PROVE InRest(t, i) <=> InRest(s, i)
    <3>1. i \in 1 .. n + 3 /\ i # n + 1 /\ i - 1 # n + 1 /\ i - 2 # n + 1
      BY <1>2
    <3> QED BY <1>2, <1>7, <1>8, <3>1 DEF InRest
  <2>2. n + 2 - 1 = n + 1 /\ n + 3 - 2 = n + 1
    BY <1>2
  <2>3. ~InRest(t, n + 1) /\ ~InRest(t, n + 2) /\ ~InRest(t, n + 3)
    BY <1>7, <2>2 DEF InRest
  <2>4. \A i : InRest(t, i) <=> InRest(s, i)
    BY <1>2, <1>4, <2>1, <2>3 DEF InRest
  <2>5. \A i : i \in CRCRest(t) <=> i \in CRCRest(s)
    BY <1>5, <2>4 DEF RestAre
  <2> QED BY <2>5
<1>11. ValuesAt(t, CRCRest(t)) = rest
  BY <1>1, <1>3, <1>5, <1>10, StartsSame DEF PartsAre
<1>12. ValuesAt(t, CRCOnlyAt(t)) = Append(shown, x)
  <2>1. CRCOnlyAt(s) \in SUBSET (1 .. n)
    BY <1>5 DEF PartsAre
  <2>2. CRCOnlyAt(t) = CRCOnlyAt(s) \cup {n + 1}
    BY <1>7
  <2>3. ValuesAt(t, CRCOnlyAt(s) \cup {n + 1}) = Append(ValuesAt(t, CRCOnlyAt(s)), t[n + 1])
    BY <1>2, <2>1, ValuesNext
  <2>4. ValuesAt(t, CRCOnlyAt(s)) = shown
    BY <1>1, <1>3, <2>1, StartsSame
  <2> QED BY <1>2, <2>2, <2>3, <2>4
<1>13. \A i \in OmittedAt(t) : i + 1 <= Len(t)
  <2>1. \A i \in OmittedAt(s) : i \in 1 .. n
    BY <1>5 DEF PartsAre
  <2> QED BY <1>1, <1>2, <1>8, <2>1
<1>14. OmittedAt(t) = O
  BY <1>1, <1>8
<1> QED BY <1>6, <1>9, <1>11, <1>12, <1>13, <1>14 DEF CRCParts

\* The number of those that are not.
AddsTwo(t, s, x) ==
  /\ IsSequence(t) /\ Len(s) \in Nat /\ Len(t) = Len(s) + 2
  /\ t[Len(s) + 1] = x /\ t[Len(s) + 2] = EmptyLine
  /\ \A j \in 1 .. Len(s) : t[j] = s[j]

\* The symbols that are not shown are counted.
LEMMA PartsCounted ==
  ASSUME NEW s, NEW rest, NEW shown, NEW O, NEW S, S = {}, CRCParts(s, rest, shown, O, S),
         NEW x, x.tag = "omitted", NEW t, AddsTwo(t, s, x), NEW n, n = Len(s)
  PROVE  CRCParts(t, rest, shown, O \cup {n + 1}, S)
<1>1. /\ SymbolLines(s) /\ IsSequence(s)
      /\ \A i \in OmittedAt(s) : i + 1 <= n
      /\ ValuesAt(s, CRCRest(s)) = rest /\ ValuesAt(s, CRCOnlyAt(s)) = shown
      /\ OmittedAt(s) = O /\ SectionsAt(s) = S
  BY DEF CRCParts, SymbolLines
<1>2. /\ IsSequence(t) /\ n \in Nat /\ Len(t) = n + 2
      /\ t[n + 1].tag = "omitted" /\ t[n + 2].tag = "empty"
      /\ \A j \in 1 .. n : t[j] = s[j]
  BY LineFields DEF AddsTwo
<1>3. Starts(t, s)
  BY <1>2 DEF Starts
<1>4. /\ \A j \in 1 .. n + 2 : j \in 1 .. n \/ j = n + 1 \/ j = n + 2
      /\ \A j \in 1 .. n : j \in 1 .. n + 2
  BY <1>2
<1>5. /\ CRCOnlyAre(s) /\ CRCOnlyAre(t) /\ RestAre(s) /\ RestAre(t) /\ PartsAre(s) /\ PartsAre(t)
  BY <1>1, <1>2, CRCLines, RestIs, PartsWhere
<1>6. SymbolLines(t)
  <2>1. \A j \in 1 .. n + 2 : SymbolLine(t[j])
    <3>1. SymbolLine(t[n + 1]) /\ SymbolLine(t[n + 2])
      BY <1>2 DEF SymbolLine
    <3> QED BY <1>1, <1>2, <1>4, <3>1 DEF SymbolLines
  <2> QED BY <1>2, <2>1 DEF SymbolLines
<1>7. \A i : i \in CRCOnlyAt(t) <=> i \in CRCOnlyAt(s)
  <2>1. ASSUME NEW i, i \in CRCOnlyAt(t) PROVE i \in CRCOnlyAt(s)
    <3>1. /\ i \in 1 .. n + 2 /\ i + 2 <= n + 2
          /\ t[i].tag = "changed" /\ t[i + 1].tag = "crc" /\ t[i + 2].tag = "empty"
      BY <1>2, <1>5, <2>1 DEF CRCOnlyAre
    <3>2. i # n + 1 /\ i + 1 # n + 1 /\ i + 2 # n + 1
      BY <1>2, <3>1
    <3>3. i \in 1 .. n /\ i + 1 \in 1 .. n /\ i + 2 \in 1 .. n
      BY <1>2, <2>1, <3>1, <3>2
    <3>4. s[i].tag = "changed" /\ s[i + 1].tag = "crc" /\ s[i + 2].tag = "empty"
      BY <1>2, <3>1, <3>3
    <3>5. i + 2 <= n
      BY <3>3
    <3> QED BY <1>5, <3>3, <3>4, <3>5 DEF CRCOnlyAre
  <2>2. ASSUME NEW i, i \in CRCOnlyAt(s) PROVE i \in CRCOnlyAt(t)
    <3>1. /\ i \in 1 .. n /\ i + 2 <= n
          /\ s[i].tag = "changed" /\ s[i + 1].tag = "crc" /\ s[i + 2].tag = "empty"
      BY <1>5, <2>2 DEF CRCOnlyAre
    <3>2. i + 1 \in 1 .. n /\ i + 2 \in 1 .. n /\ i \in 1 .. n + 2 /\ i + 2 <= n + 2
      BY <1>2, <3>1
    <3> QED BY <1>2, <1>5, <3>1, <3>2 DEF CRCOnlyAre
  <2> QED BY <2>1, <2>2
<1>8. \A i : i \in OmittedAt(t) <=> i \in OmittedAt(s) \/ i = n + 1
  <2>1. n + 1 \in 1 .. n + 2
    BY <1>2
  <2> QED BY <1>1, <1>2, <1>4, <1>5, <2>1 DEF PartsAre
<1>9. SectionsAt(t) = S
  <2>1. \A i : i \in SectionsAt(t) <=> i \in S
    BY <1>1, <1>2, <1>4, <1>5 DEF PartsAre
  <2> QED BY <2>1
<1>10. CRCRest(t) = CRCRest(s)
  <2>1. ASSUME NEW i \in 1 .. n PROVE InRest(t, i) <=> InRest(s, i)
    <3>1. i \in 1 .. n + 2 /\ i # n + 1 /\ i - 1 # n + 1
      BY <1>2
    <3> QED BY <1>2, <1>7, <1>8, <3>1 DEF InRest
  <2>2. n + 2 - 1 = n + 1
    BY <1>2
  <2>3. ~InRest(t, n + 1) /\ ~InRest(t, n + 2)
    BY <1>8, <2>2 DEF InRest
  <2>4. \A i : InRest(t, i) <=> InRest(s, i)
    BY <1>2, <1>4, <2>1, <2>3 DEF InRest
  <2>5. \A i : i \in CRCRest(t) <=> i \in CRCRest(s)
    BY <1>5, <2>4 DEF RestAre
  <2> QED BY <2>5
<1>11. ValuesAt(t, CRCRest(t)) = rest
  BY <1>1, <1>3, <1>5, <1>10, StartsSame DEF PartsAre
<1>12. ValuesAt(t, CRCOnlyAt(t)) = shown
  <2>1. CRCOnlyAt(t) = CRCOnlyAt(s)
    BY <1>7
  <2> QED BY <1>1, <1>3, <1>5, <2>1, StartsSame DEF PartsAre
<1>13. \A i \in OmittedAt(t) : i + 1 <= Len(t)
  <2>1. \A i \in OmittedAt(s) : i \in 1 .. n
    BY <1>5 DEF PartsAre
  <2> QED BY <1>1, <1>2, <1>8, <2>1
<1>14. OmittedAt(t) = O \cup {n + 1}
  BY <1>1, <1>8
<1> QED BY <1>6, <1>9, <1>11, <1>12, <1>13, <1>14 DEF CRCParts

\* The symbols that are shown, one after the other.
Triple(x)     == <<x, CRCLine, EmptyLine>>
Triples(p, n) == FlattenSeq([i \in 1 .. n |-> Triple(p[i])])
FirstOf(p, n) == [i \in 1 .. n |-> p[i]]

\* What is shown of a symbol with a CRC change only.
LEMMA TripleIs ==
  ASSUME NEW x
  PROVE  /\ IsSequence(Triple(x)) /\ Len(Triple(x)) = 3
         /\ Triple(x)[1] = x /\ Triple(x)[2] = CRCLine /\ Triple(x)[3] = EmptyLine
<1>1. ASSUME NEW a, NEW b
      PROVE  /\ IsSequence(<<x, a, b>>) /\ Len(<<x, a, b>>) = 3
             /\ <<x, a, b>>[1] = x /\ <<x, a, b>>[2] = a /\ <<x, a, b>>[3] = b
  <2>1. <<x, a, b>> \in Seq({x, a, b})
    OBVIOUS
  <2>2. IsSequence(<<x, a, b>>)
    BY <2>1, OwnElements
  <2> QED BY <2>2
<1> QED BY <1>1 DEF Triple

\* None are shown.
LEMMA FirstNone ==
  ASSUME NEW p
  PROVE  Triples(p, 0) = << >> /\ FirstOf(p, 0) = << >>
<1>1. ASSUME NEW f, f = [i \in 1 .. 0 |-> f[i]] PROVE f = << >>
  <2>1. PICK n \in Nat : n = 0
    OBVIOUS
  <2>2. f = [i \in 1 .. n |-> f[i]]
    BY <1>1, <2>1
  <2>3. IsSequence(f) /\ Len(f) = n
    BY <2>2, MadeAny
  <2> QED BY <2>1, <2>3, FewAny
<1>2. ASSUME NEW f, f = [i \in 1 .. 0 |-> Triple(p[i])] PROVE f = << >>
  BY <1>1, <1>2
<1>3. ASSUME NEW f, f = FirstOf(p, 0) PROVE f = << >>
  BY <1>1, <1>3 DEF FirstOf
<1>4. Triples(p, 0) = FlattenSeq(<< >>)
  BY <1>2 DEF Triples
<1> QED BY <1>3, <1>4, FlattenNone

\* A function on the numbers to n, and the next one.
LEMMA MadeMore ==
  ASSUME NEW n \in Nat, NEW m, m = n + 1, NEW f, f = [i \in 1 .. n |-> f[i]],
         NEW g, g = [i \in 1 .. m |-> g[i]], \A i \in 1 .. n : f[i] = g[i]
  PROVE  g = Append(f, g[m]) /\ IsSequence(f)
<1>1. IsSequence(f) /\ Len(f) = n
  BY MadeAny
<1>2. IsSequence(g) /\ Len(g) = m
  <2>1. m \in Nat
    OBVIOUS
  <2> QED BY <2>1, MadeAny
<1>3. PICK x : x = g[m]
  OBVIOUS
<1>4. PICK h : h = Append(f, x)
  OBVIOUS
<1>5. IsSequence(h) /\ Len(h) = n + 1 /\ h[n + 1] = x /\ \A k \in 1 .. n : h[k] = f[k]
  BY <1>1, <1>4, AppendAny
<1>6. \A k \in 1 .. Len(g) : k \in 1 .. n \/ k = m
  BY <1>2
<1>7. \A k \in 1 .. Len(g) : g[k] = h[k]
  BY <1>3, <1>5, <1>6
<1>8. g = h
  BY <1>2, <1>5, <1>7, SameAny
<1> QED BY <1>1, <1>3, <1>4, <1>8

\* One more is shown.
LEMMA FirstNext ==
  ASSUME NEW p, NEW n \in Nat, NEW m, m = n + 1
  PROVE  /\ IsSequence(Triples(p, n)) /\ Triples(p, m) = Both(Triples(p, n), Triple(p[m]))
         /\ FirstOf(p, m) = Append(FirstOf(p, n), p[m])
<1>1. PICK f : f = [i \in 1 .. n |-> Triple(p[i])]
  OBVIOUS
<1>2. PICK g : g = [i \in 1 .. m |-> Triple(p[i])]
  OBVIOUS
<1>3. /\ f = [i \in 1 .. n |-> f[i]] /\ g = [i \in 1 .. m |-> g[i]]
      /\ \A i \in 1 .. n : f[i] = Triple(p[i])
      /\ \A i \in 1 .. m : g[i] = Triple(p[i])
  BY <1>1, <1>2
<1>4. m \in 1 .. m /\ \A i \in 1 .. n : i \in 1 .. m
  OBVIOUS
<1>5. \A i \in 1 .. n : f[i] = g[i]
  BY <1>3, <1>4
<1>6. g = Append(f, g[m]) /\ IsSequence(f)
  BY <1>3, <1>5, MadeMore
<1>7. PICK x : x = Triple(p[m])
  OBVIOUS
<1>8. g = Append(f, x) /\ IsSequence(x)
  BY <1>3, <1>4, <1>6, <1>7, TripleIs
<1>9. FlattenSeq(g) = Both(FlattenSeq(f), x)
  BY <1>6, <1>8, FlattenNext DEF Both
<1>10. IsSequence(FlattenSeq(f))
  <2>1. Len(f) = n
    BY <1>3, MadeAny
  <2>2. Chunks(f)
    BY <1>3, <1>6, <2>1, TripleIs DEF Chunks
  <2> QED BY <2>2, FlattenAny
<1>11. FirstOf(p, m) = Append(FirstOf(p, n), p[m])
  <2>1. PICK a : a = FirstOf(p, n)
    OBVIOUS
  <2>2. PICK b : b = FirstOf(p, m)
    OBVIOUS
  <2>3. /\ a = [i \in 1 .. n |-> a[i]] /\ b = [i \in 1 .. m |-> b[i]]
    BY <2>1, <2>2 DEF FirstOf
  <2>4. \A i \in 1 .. n : a[i] = p[i]
    BY <2>1 DEF FirstOf
  <2>5. \A i \in 1 .. m : b[i] = p[i]
    BY <2>2 DEF FirstOf
  <2>6. b = Append(a, b[m])
    BY <1>4, <2>3, <2>4, <2>5, MadeMore
  <2> QED BY <1>4, <2>1, <2>2, <2>5, <2>6
<1> QED BY <1>1, <1>2, <1>7, <1>9, <1>10, <1>11 DEF Triples

\* They are put after a report.
LEMMA TriplesPut ==
  ASSUME NEW s, NEW rest, NEW O, NEW S, S = {}, CRCParts(s, rest, << >>, O, S),
         NEW p, NEW c \in Nat, \A k \in 1 .. c : p[k].tag = "changed"
  PROVE  CRCParts(Both(s, Triples(p, c)), rest, FirstOf(p, c), O, S)
<1> DEFINE N == {n \in Nat : n <= c => CRCParts(Both(s, Triples(p, n)), rest, FirstOf(p, n), O, S)}
<1>1. IsSequence(s)
  BY DEF CRCParts, SymbolLines
<1>2. 0 \in N
  <2>1. Both(s, Triples(p, 0)) = s /\ FirstOf(p, 0) = << >>
    BY <1>1, FirstNone, BothFacts
  <2> QED BY <2>1
<1>3. ASSUME NEW n \in Nat, n \in N PROVE n + 1 \in N
  <2> SUFFICES ASSUME NEW m, m = n + 1, m <= c
               PROVE  CRCParts(Both(s, Triples(p, m)), rest, FirstOf(p, m), O, S)
    OBVIOUS
  <2>1. PICK v : v = Both(s, Triples(p, n))
    OBVIOUS
  <2>2. CRCParts(v, rest, FirstOf(p, n), O, S) /\ IsSequence(v)
    <3>1. CRCParts(v, rest, FirstOf(p, n), O, S)
      BY <1>3, <2>1
    <3> QED BY <3>1 DEF CRCParts, SymbolLines
  <2>3. PICK x : x = p[m]
    OBVIOUS
  <2>4. PICK y : y = Triple(x)
    OBVIOUS
  <2>5. IsSequence(y) /\ Len(y) = 3 /\ y[1] = x /\ y[2] = CRCLine /\ y[3] = EmptyLine
    BY <2>4, TripleIs
  <2>6. PICK w : w = Both(v, y)
    OBVIOUS
  <2>7. Joins(w, v, y)
    BY <2>2, <2>5, <2>6, ConcatAny DEF Both
  <2>8. AddsThree(w, v, x)
    <3>1. 1 \in 1 .. 3 /\ 2 \in 1 .. 3 /\ 3 \in 1 .. 3
      OBVIOUS
    <3> QED BY <2>5, <2>7, <3>1 DEF AddsThree, Joins
  <2>9. x.tag = "changed"
    BY <2>3
  <2>10. CRCParts(w, rest, Append(FirstOf(p, n), x), O, S)
    BY <2>2, <2>8, <2>9, PartsShown
  <2>11. /\ IsSequence(Triples(p, n)) /\ Triples(p, m) = Both(Triples(p, n), y)
         /\ FirstOf(p, m) = Append(FirstOf(p, n), x)
    BY <2>3, <2>4, FirstNext
  <2>12. Both(s, Triples(p, m)) = w
    BY <1>1, <2>1, <2>5, <2>6, <2>11, BothFacts
  <2> QED BY <2>10, <2>11, <2>12
<1>4. Nat \subseteq N
  <2> HIDE DEF N
  <2> QED BY <1>2, <1>3, NatSet
<1> QED BY <1>4

\* Enough of them are shown, and the others are counted.
Shows(s, all, shown, O) ==
  /\ IsPrefix(shown, all)
  /\ \/ Len(all) <= limit /\ shown = all /\ O = {}
     \/ /\ Len(all) > limit /\ Len(shown) = limit
        /\ \E i \in DOMAIN s : O = {i} /\ s[i] = Omitted(Len(all) - limit, Len(all))

\* Those shown are the first of those held back.
LEMMA FirstPrefix ==
  ASSUME NEW p, IsSequence(p), NEW c \in 0 .. Len(p)
  PROVE  /\ IsSequence(FirstOf(p, c)) /\ Len(FirstOf(p, c)) = c
         /\ IsPrefix(FirstOf(p, c), p) /\ (c = Len(p) => FirstOf(p, c) = p)
<1>1. Len(p) \in Nat /\ c \in Nat
  BY SequenceFacts
<1>2. PICK f : f = FirstOf(p, c)
  OBVIOUS
<1>3. f = [i \in 1 .. c |-> f[i]] /\ \A i \in 1 .. c : f[i] = p[i]
  BY <1>2 DEF FirstOf
<1>4. IsSequence(f) /\ Len(f) = c
  BY <1>1, <1>3, MadeAny
<1>5. IsPrefix(f, p)
  <2>1. SubSeq(f, 1, c) = [i \in 1 .. c |-> f[i]] /\ SubSeq(p, 1, c) = [i \in 1 .. c |-> p[i]]
    <3> SUFFICES ASSUME NEW g PROVE SubSeq(g, 1, c) = [i \in 1 .. c |-> g[i]]
      OBVIOUS
    <3>1. 1 + c - 1 = c /\ \A i \in 1 .. c : 1 + i - 1 = i
      BY <1>1
    <3> QED BY <3>1
  <2>2. SubSeq(f, 1, c) = SubSeq(p, 1, c)
    BY <1>3, <2>1
  <2> QED BY <1>1, <1>4, <2>2 DEF IsPrefix
<1>6. c = Len(p) => f = p
  BY <1>3, <1>4, SameAny
<1> QED BY <1>2, <1>4, <1>5, <1>6

Shown(p)   == IF Len(p) < limit THEN Len(p) ELSE limit
Counted(p) == IF Len(p) > limit THEN <<Omitted(Len(p) - limit, Len(p)), EmptyLine>> ELSE << >>

\* What is put of the symbols held back: those shown, and the number of the others.
LEMMA PendingIs == \A p : PendingCRCs(p) = Both(Triples(p, Shown(p)), Counted(p))
BY DEF PendingCRCs, Triples, Triple, Both, Shown, Counted

\* The symbols held back are put: as many as fit, and the number of the others.
LEMMA PendingPut ==
  ASSUME NEW s, NEW rest, NEW S, S = {}, CRCParts(s, rest, << >>, {}, S),
         NEW p, IsSequence(p), \A k \in 1 .. Len(p) : p[k].tag = "changed", limit \in Nat,
         NEW t, t = Both(s, PendingCRCs(p))
  PROVE  \E shown, O : CRCParts(t, rest, shown, O, S) /\ Shows(t, p, shown, O)
<1>1. Len(p) \in Nat /\ IsSequence(s)
  BY SequenceFacts DEF CRCParts, SymbolLines
<1>2. PICK c : c = Shown(p)
  OBVIOUS
<1>3. c \in Nat /\ c \in 0 .. Len(p)
  BY <1>1, <1>2 DEF Shown
<1>4. PICK v : v = Both(s, Triples(p, c))
  OBVIOUS
<1>5. CRCParts(v, rest, FirstOf(p, c), {}, S)
  <2>1. \A k \in 1 .. c : p[k].tag = "changed"
    BY <1>1, <1>3
  <2> QED BY <1>3, <1>4, <2>1, TriplesPut
<1>6. IsSequence(v)
  BY <1>5 DEF CRCParts, SymbolLines
<1>7. IsSequence(FirstOf(p, c)) /\ Len(FirstOf(p, c)) = c /\ IsPrefix(FirstOf(p, c), p)
      /\ (c = Len(p) => FirstOf(p, c) = p)
  BY <1>3, FirstPrefix
<1>8. IsSequence(Triples(p, c))
  <2>1. PICK m : m = c + 1
    OBVIOUS
  <2> QED BY <1>3, <2>1, FirstNext
<1>9. CASE Len(p) <= limit
  <2>1. PendingCRCs(p) = Both(Triples(p, c), << >>)
    <3>1. Counted(p) = << >>
      BY <1>1, <1>9 DEF Counted
    <3> QED BY <1>2, <3>1, PendingIs
  <2>2. t = v
    BY <1>4, <1>8, <2>1, BothFacts
  <2>3. c = Len(p)
    BY SMTT(30), <1>1, <1>2, <1>9 DEF Shown
  <2>4. Shows(t, p, FirstOf(p, c), {})
    BY <1>7, <1>9, <2>3 DEF Shows
  <2> QED BY <1>5, <2>2, <2>4
<1>10. CASE Len(p) > limit
  <2>1. PICK x : x = Omitted(Len(p) - limit, Len(p))
    OBVIOUS
  <2>2. PICK y : y = <<x, EmptyLine>>
    OBVIOUS
  <2>3. PendingCRCs(p) = Both(Triples(p, c), y)
    <3>1. Counted(p) = y
      BY <1>10, <2>1, <2>2 DEF Counted
    <3> QED BY <1>2, <3>1, PendingIs
  <2>4. IsSequence(y) /\ Len(y) = 2 /\ y[1] = x /\ y[2] = EmptyLine
    <3>1. ASSUME NEW a
          PROVE  IsSequence(<<x, a>>) /\ Len(<<x, a>>) = 2 /\ <<x, a>>[1] = x /\ <<x, a>>[2] = a
      <4>1. <<x, a>> \in Seq({x, a})
        OBVIOUS
      <4>2. IsSequence(<<x, a>>)
        BY <4>1, OwnElements
      <4> QED BY <4>2
    <3> QED BY <2>2, <3>1
  <2>5. t = Both(v, y)
    BY <1>1, <1>4, <1>8, <2>3, <2>4, BothFacts
  <2>6. Joins(t, v, y)
    BY <1>6, <2>4, <2>5, ConcatAny DEF Both
  <2>7. AddsTwo(t, v, x)
    <3>1. 1 \in 1 .. 2 /\ 2 \in 1 .. 2
      OBVIOUS
    <3> QED BY <2>4, <2>6, <3>1 DEF AddsTwo, Joins
  <2>8. x.tag = "omitted"
    BY <2>1, LineFields
  <2>9. PICK n : n = Len(v)
    OBVIOUS
  <2>10. CRCParts(t, rest, FirstOf(p, c), {} \cup {n + 1}, S)
    BY <1>5, <2>7, <2>8, <2>9, PartsCounted
  <2>11. {} \cup {n + 1} = {n + 1}
    OBVIOUS
  <2>12. c = limit
    BY <1>1, <1>2, <1>10 DEF Shown
  <2>13. n + 1 \in DOMAIN t /\ t[n + 1] = x
    <3>1. IsSequence(t) /\ n \in Nat /\ Len(t) = n + 2 /\ t[n + 1] = x
      BY <2>7, <2>9 DEF AddsTwo
    <3>2. DOMAIN t = 1 .. n + 2
      BY <3>1, SequenceFacts
    <3> QED BY <3>1, <3>2
  <2>14. Shows(t, p, FirstOf(p, c), {n + 1})
    BY <1>7, <1>10, <2>1, <2>12, <2>13 DEF Shows
  <2> QED BY <2>10, <2>11, <2>14
<1> QED BY <1>1, <1>9, <1>10

\* The first n lines have been dealt with.  Before the first section the symbols are held
\* back, after it some of them have been shown.  What has been made ends as these lines do.
RestTo(r, n) == (1 .. n) \ Spans(CRCOnlyAt(r), 3)
CRCsTil(r, n) == CRCOnlyAt(r) \cap (1 .. n)

EndsLike(r, n, made) ==
  /\ made # << >> => \/ made[Len(made)].tag = "empty"
                     \/ n > 0 /\ made[Len(made)] = r[n]
  /\ EndsCRC(made) => n > 1 /\ r[n - 1].tag = "changed" /\ r[n].tag = "crc"

HoldsBack(r, n, made, p) ==
  /\ SectionsAt(r) \cap (1 .. n) = {}
  /\ p = ValuesAt(r, CRCsTil(r, n))
  /\ CRCParts(made, ValuesAt(r, RestTo(r, n)), << >>, {}, {})

HasShown(r, n, made) ==
  \E shown, O, S : /\ CRCParts(made, ValuesAt(r, RestTo(r, n)), shown, O, S)
                   /\ Shows(made, ValuesAt(r, CRCOnlyAt(r)), shown, O)

CRCsTo(r, n, made, p) ==
  /\ n \notin CRCOnlyAt(r) /\ n - 1 \notin CRCOnlyAt(r)
  /\ EndsLike(r, n, made)
  /\ \/ HoldsBack(r, n, made, p)
     \/ SectionsAt(r) \cap (1 .. n) # {} /\ p = << >> /\ HasShown(r, n, made)

\* What a small report is like.
ReportIs(r) ==
  /\ IsSequence(r) /\ Len(r) \in Nat /\ DOMAIN r = 1 .. Len(r)
  /\ \A i \in 1 .. Len(r) : SymbolLine(r[i]) /\ r[i].tag # "omitted"
  /\ \A i \in CRCOnlyAt(r) : i > 1 => r[i - 1].tag = "empty"
  /\ \A i \in CRCOnlyAt(r), j \in SectionsAt(r) : i < j
  /\ CRCOnlyAre(r)
  /\ \A i : i \in SectionsAt(r) <=> i \in 1 .. Len(r) /\ r[i].tag = "section"

\* What ReportsAssumption says of a report, in the form the first pass needs.
LEMMA ReportLines == ASSUME NEW r, IsReport(r) PROVE ReportIs(r)
<1>1. IsSequence(r)
  BY DEF IsReport
<1>2. Len(r) \in Nat /\ DOMAIN r = 1 .. Len(r)
  BY <1>1, SequenceFacts
<1>3. CRCOnlyAre(r) /\ PartsAre(r)
  BY <1>1, CRCLines, PartsWhere
<1>4. \A i \in 1 .. Len(r) : SymbolLine(r[i]) /\ r[i].tag # "omitted"
  BY <1>2 DEF IsReport, SymbolLine
<1>5. /\ \A i \in CRCOnlyAt(r) : i > 1 => r[i - 1].tag = "empty"
      /\ \A i \in CRCOnlyAt(r), j \in SectionsAt(r) : i < j
  BY DEF IsReport
<1>6. \A i : i \in SectionsAt(r) <=> i \in 1 .. Len(r) /\ r[i].tag = "section"
  BY <1>3 DEF PartsAre
<1> QED BY <1>1, <1>2, <1>3, <1>4, <1>5, <1>6 DEF ReportIs

\* What was shown still is when the report goes on.
LEMMA ShowsMore ==
  ASSUME NEW s, IsSequence(s), NEW t, Starts(t, s), NEW all, NEW shown, NEW O,
         Shows(s, all, shown, O)
  PROVE  Shows(t, all, shown, O)
<1>1. /\ DOMAIN s = 1 .. Len(s) /\ DOMAIN t = 1 .. Len(t) /\ Len(s) \in Nat /\ Len(t) \in Nat
      /\ Len(s) <= Len(t) /\ \A j \in 1 .. Len(s) : t[j] = s[j]
  BY SequenceFacts DEF Starts
<1>2. \A i \in DOMAIN s : i \in DOMAIN t /\ t[i] = s[i]
  BY <1>1
<1> QED BY <1>2 DEF Shows

\* The line after those dealt with is another one, and stays.
LEMMA RestNext ==
  ASSUME NEW r, ReportIs(r), NEW n \in Nat, NEW m, m = n + 1,
         n \notin CRCOnlyAt(r), n - 1 \notin CRCOnlyAt(r), m \notin CRCOnlyAt(r)
  PROVE  /\ ValuesAt(r, RestTo(r, m)) = Append(ValuesAt(r, RestTo(r, n)), r[m])
         /\ CRCsTil(r, m) = CRCsTil(r, n)
<1>1. CRCOnlyAt(r) \in SUBSET Int
  BY DEF ReportIs, CRCOnlyAre
<1>2. m \in Int /\ m - 1 = n /\ m - 2 = n - 1 /\ 1 .. m = (1 .. n) \cup {m}
  OBVIOUS
<1>3. m \notin Spans(CRCOnlyAt(r), 3)
  BY <1>1, <1>2, SpansThree
<1>4. RestTo(r, m) = RestTo(r, n) \cup {n + 1}
  BY <1>2, <1>3 DEF RestTo
<1>5. RestTo(r, n) \in SUBSET (1 .. n)
  BY DEF RestTo
<1>6. ValuesAt(r, RestTo(r, n) \cup {n + 1}) = Append(ValuesAt(r, RestTo(r, n)), r[n + 1])
  BY <1>5, ValuesNext
<1>7. CRCsTil(r, m) = CRCsTil(r, n)
  BY <1>2 DEF CRCsTil
<1> QED BY <1>4, <1>6, <1>7

\* Where what has been made ends with a change of CRC, an empty line would have been held.
LEMMA NotEnds ==
  ASSUME NEW r, ReportIs(r), NEW n \in Nat, NEW made, EndsLike(r, n, made), n - 1 \notin CRCOnlyAt(r),
         NEW m, m = n + 1, m <= Len(r)
  PROVE  ~(r[m].tag = "empty" /\ EndsCRC(made))
<1> SUFFICES ASSUME r[m].tag = "empty", EndsCRC(made) PROVE FALSE
  OBVIOUS
<1>1. n > 1 /\ r[n - 1].tag = "changed" /\ r[n].tag = "crc"
  BY DEF EndsLike
<1> SUFFICES ASSUME NEW k, k = n - 1 PROVE FALSE
  OBVIOUS
<1>2. k \in 1 .. Len(r) /\ k + 2 <= Len(r) /\ k + 1 = n /\ k + 2 = m
  BY <1>1 DEF ReportIs
<1> QED BY <1>1, <1>2 DEF ReportIs, CRCOnlyAre

\* What has been made ends with the last line.
LEMMA EndsNext ==
  ASSUME NEW r, NEW n \in Nat, NEW m, m = n + 1, NEW s, IsSequence(s), NEW t, Adds(t, s, r[m]),
         r[m].tag # "crc" \/ EndsLike(r, n, s)
  PROVE  EndsLike(r, m, t)
<1>1. IsSequence(t) /\ Len(s) \in Nat /\ Len(t) = Len(s) + 1 /\ t[Len(t)] = r[m]
      /\ \A j \in 1 .. Len(s) : t[j] = s[j]
  BY DEF Adds
<1>2. m > 0 /\ m - 1 = n
  OBVIOUS
<1>3. ASSUME EndsCRC(t) PROVE m > 1 /\ r[m - 1].tag = "changed" /\ r[m].tag = "crc"
  <2>1. Len(t) > 1 /\ t[Len(t) - 1].tag = "changed" /\ t[Len(t)].tag = "crc"
    BY <1>3 DEF EndsCRC
  <2>2. r[m].tag = "crc" /\ EndsLike(r, n, s)
    BY <1>1, <2>1
  <2>3. Len(t) - 1 = Len(s) /\ Len(s) \in 1 .. Len(s)
    BY <1>1, <2>1
  <2>4. s[Len(s)].tag = "changed" /\ s # << >>
    BY <1>1, <2>1, <2>3, FewAny
  <2>5. n > 0 /\ s[Len(s)] = r[n]
    BY <2>2, <2>4 DEF EndsLike
  <2> QED BY <1>2, <2>2, <2>4, <2>5
<1> QED BY <1>1, <1>2, <1>3 DEF EndsLike

\* A line is added.
LEMMA AddsAppend ==
  ASSUME NEW s, IsSequence(s), NEW x
  PROVE  Adds(Append(s, x), s, x) /\ Starts(Append(s, x), s)
<1>1. PICK t : t = Append(s, x)
  OBVIOUS
<1>2. Adds(t, s, x)
  BY <1>1, AppendAny DEF Adds
<1>3. Starts(t, s)
  BY <1>2 DEF Adds, Starts
<1> QED BY <1>1, <1>2, <1>3

\* At the start.
LEMMA CRCsStart ==
  ASSUME NEW r, ReportIs(r)
  PROVE  CRCsTo(r, 0, << >>, << >>)
<1>1. PICK e : e = << >>
  OBVIOUS
<1>2. IsSequence(e) /\ Len(e) = 0
  BY <1>1, FewAny
<1>3. CRCOnlyAre(e) /\ RestAre(e) /\ PartsAre(e)
  BY <1>2, CRCLines, RestIs, PartsWhere
<1>4. CRCOnlyAt(e) = {} /\ OmittedAt(e) = {} /\ SectionsAt(e) = {} /\ CRCRest(e) = {}
  BY <1>2, <1>3 DEF CRCOnlyAre, PartsAre
<1>5. RestTo(r, 0) = {} /\ CRCsTil(r, 0) = {} /\ SectionsAt(r) \cap (1 .. 0) = {}
  BY DEF RestTo, CRCsTil
<1>6. \A f : ValuesAt(f, {}) = << >>
  BY ValuesNone
<1>7. CRCParts(e, ValuesAt(r, RestTo(r, 0)), << >>, {}, {})
  <2>1. SymbolLines(e)
    BY <1>2 DEF SymbolLines
  <2>2. ValuesAt(e, CRCRest(e)) = ValuesAt(r, RestTo(r, 0)) /\ ValuesAt(e, CRCOnlyAt(e)) = << >>
    BY <1>4, <1>5, <1>6
  <2> QED BY <1>4, <2>1, <2>2 DEF CRCParts
<1>8. 0 \notin CRCOnlyAt(r) /\ 0 - 1 \notin CRCOnlyAt(r)
  BY DEF ReportIs, CRCOnlyAre
<1>9. EndsLike(r, 0, e)
  BY <1>1, <1>2 DEF EndsLike, EndsCRC
<1>10. HoldsBack(r, 0, e, << >>)
  BY <1>5, <1>6, <1>7 DEF HoldsBack
<1> QED BY <1>1, <1>8, <1>9, <1>10 DEF CRCsTo

\* A line that is not about a symbol with changes of its CRC only, or a section.
LEMMA CRCsOther ==
  ASSUME NEW r, ReportIs(r), NEW n \in Nat, NEW made, NEW p, CRCsTo(r, n, made, p),
         NEW m, m = n + 1, m <= Len(r), m \notin CRCOnlyAt(r), r[m].tag # "section"
  PROVE  CRCsTo(r, m, Append(made, r[m]), p)
<1>1. PICK x : x = r[m]
  OBVIOUS
<1>2. PICK t : t = Append(made, x)
  OBVIOUS
<1>3. /\ n \notin CRCOnlyAt(r) /\ n - 1 \notin CRCOnlyAt(r) /\ EndsLike(r, n, made) /\ m - 1 = n
  BY DEF CRCsTo
<1>4. IsSequence(made)
  BY DEF CRCsTo, HoldsBack, HasShown, CRCParts, SymbolLines
<1>5. Adds(t, made, x) /\ Starts(t, made)
  BY <1>2, <1>4, AddsAppend
<1>6. SymbolLine(x) /\ x.tag # "omitted" /\ x.tag # "section" /\ ~(x.tag = "empty" /\ EndsCRC(made))
  <2>1. m \in 1 .. Len(r)
    BY DEF ReportIs
  <2>2. ~(x.tag = "empty" /\ EndsCRC(made))
    BY <1>1, <1>3, NotEnds
  <2> QED BY <1>1, <2>1, <2>2 DEF ReportIs
<1>7. EndsLike(r, m, t)
  BY <1>1, <1>3, <1>4, <1>5, EndsNext
<1>8. /\ ValuesAt(r, RestTo(r, m)) = Append(ValuesAt(r, RestTo(r, n)), x)
      /\ CRCsTil(r, m) = CRCsTil(r, n)
  BY <1>1, <1>3, RestNext
<1>9. SectionsAt(r) \cap (1 .. m) = SectionsAt(r) \cap (1 .. n)
  <2>1. 1 .. m = (1 .. n) \cup {m} /\ m \notin SectionsAt(r)
    BY <1>1, <1>6 DEF ReportIs
  <2> QED BY <2>1
<1>10. ASSUME NEW rest, NEW shown, NEW O, NEW S, CRCParts(made, rest, shown, O, S)
       PROVE  CRCParts(t, Append(rest, x), shown, O, S)
  <2>1. PICK c : c = Len(made)
    OBVIOUS
  <2>2. CRCParts(t, Append(rest, x), shown, O, IF x.tag = "section" THEN S \cup {c + 1} ELSE S)
    BY <1>5, <1>6, <1>10, <2>1, PartsLine
  <2> QED BY <1>6, <2>2
<1>11. CASE HoldsBack(r, n, made, p)
  <2>1. HoldsBack(r, m, t, p)
    BY <1>8, <1>9, <1>10, <1>11 DEF HoldsBack
  <2> QED BY <1>1, <1>2, <1>3, <1>7, <2>1 DEF CRCsTo
<1>12. CASE SectionsAt(r) \cap (1 .. n) # {} /\ p = << >> /\ HasShown(r, n, made)
  <2>1. PICK shown, O, S : /\ CRCParts(made, ValuesAt(r, RestTo(r, n)), shown, O, S)
                           /\ Shows(made, ValuesAt(r, CRCOnlyAt(r)), shown, O)
    BY <1>12 DEF HasShown
  <2>2. CRCParts(t, ValuesAt(r, RestTo(r, m)), shown, O, S)
    BY <1>8, <1>10, <2>1
  <2>3. Shows(t, ValuesAt(r, CRCOnlyAt(r)), shown, O)
    BY <1>4, <1>5, <2>1, ShowsMore
  <2>4. HasShown(r, m, t)
    BY <2>2, <2>3 DEF HasShown
  <2> QED BY <1>1, <1>2, <1>3, <1>7, <1>9, <1>12, <2>4 DEF CRCsTo
<1> QED BY <1>11, <1>12 DEF CRCsTo

\* The symbols held back before the first section are all of them.
LEMMA AllHeld ==
  ASSUME NEW r, ReportIs(r), NEW n \in Nat, NEW made, NEW p, HoldsBack(r, n, made, p), limit \in Nat,
         CRCOnlyAt(r) \subseteq 1 .. n, NEW u, u = Both(made, PendingCRCs(p))
  PROVE  \E shown, O : /\ CRCParts(u, ValuesAt(r, RestTo(r, n)), shown, O, {})
                       /\ Shows(u, ValuesAt(r, CRCOnlyAt(r)), shown, O)
<1>1. p = ValuesAt(r, CRCOnlyAt(r))
  <2>1. CRCsTil(r, n) = CRCOnlyAt(r)
    BY DEF CRCsTil
  <2> QED BY <2>1 DEF HoldsBack
<1>2. CRCOnlyAt(r) \in SUBSET (1 .. n)
  OBVIOUS
<1>3. IsSequence(p)
  BY <1>1, <1>2, ValuesAny
<1>4. \A k \in 1 .. Len(p) : p[k].tag = "changed"
  <2>1. \A k \in 1 .. Len(p) : \E i \in CRCOnlyAt(r) : p[k] = r[i]
    BY <1>1, <1>2, ValuesRange
  <2>2. \A i \in CRCOnlyAt(r) : r[i].tag = "changed"
    BY DEF ReportIs, CRCOnlyAre
  <2> QED BY <2>1, <2>2
<1>5. PICK S : S = {}
  OBVIOUS
<1>6. PICK rest : rest = ValuesAt(r, RestTo(r, n))
  OBVIOUS
<1>7. CRCParts(made, rest, << >>, {}, S)
  BY <1>5, <1>6 DEF HoldsBack
<1>8. \E shown, O : CRCParts(u, rest, shown, O, S) /\ Shows(u, p, shown, O)
  BY <1>3, <1>4, <1>5, <1>7, PendingPut
<1> QED BY <1>1, <1>5, <1>6, <1>8

\* Nothing is put when nothing is held.
LEMMA NonePut ==
  ASSUME NEW s, IsSequence(s), NEW p, p = << >>, limit \in Nat
  PROVE  Both(s, PendingCRCs(p)) = s
<1>1. Len(p) = 0
  BY FewAny
<1>2. Shown(p) = 0 /\ Counted(p) = << >>
  BY <1>1 DEF Shown, Counted
<1>3. PendingCRCs(p) = Both(<< >>, << >>)
  BY <1>2, PendingIs, FirstNone
<1> QED BY <1>3, FewAny, BothFacts

\* A section.
LEMMA CRCsSection ==
  ASSUME NEW r, ReportIs(r), NEW n \in Nat, NEW made, NEW p, CRCsTo(r, n, made, p), limit \in Nat,
         NEW m, m = n + 1, m <= Len(r), r[m].tag = "section"
  PROVE  CRCsTo(r, m, Append(Both(made, PendingCRCs(p)), r[m]), << >>)
<1>1. PICK x : x = r[m]
  OBVIOUS
<1>2. PICK u : u = Both(made, PendingCRCs(p))
  OBVIOUS
<1>3. PICK t : t = Append(u, x)
  OBVIOUS
<1>4. /\ n \notin CRCOnlyAt(r) /\ n - 1 \notin CRCOnlyAt(r) /\ m - 1 = n
  BY DEF CRCsTo
<1>5. IsSequence(made)
  BY DEF CRCsTo, HoldsBack, HasShown, CRCParts, SymbolLines
<1>6. SymbolLine(x) /\ x.tag = "section" /\ m \in SectionsAt(r) /\ m \notin CRCOnlyAt(r)
  <2>1. m \in 1 .. Len(r)
    BY DEF ReportIs
  <2> QED BY <1>1, <2>1 DEF ReportIs, CRCOnlyAre
<1>7. /\ ValuesAt(r, RestTo(r, m)) = Append(ValuesAt(r, RestTo(r, n)), x)
      /\ CRCsTil(r, m) = CRCsTil(r, n)
  BY <1>1, <1>4, <1>6, RestNext
<1>8. \E shown, O, S : /\ CRCParts(u, ValuesAt(r, RestTo(r, n)), shown, O, S)
                       /\ Shows(u, ValuesAt(r, CRCOnlyAt(r)), shown, O)
  <2>1. CASE HoldsBack(r, n, made, p)
    <3>1. CRCOnlyAt(r) \subseteq 1 .. n
      <4>1. \A i \in CRCOnlyAt(r) : i < m /\ i \in 1 .. Len(r)
        BY <1>6 DEF ReportIs, CRCOnlyAre
      <4> QED BY <4>1 DEF ReportIs
    <3>2. \E shown, O : /\ CRCParts(u, ValuesAt(r, RestTo(r, n)), shown, O, {})
                        /\ Shows(u, ValuesAt(r, CRCOnlyAt(r)), shown, O)
      BY <1>2, <2>1, <3>1, AllHeld
    <3> QED BY <3>2
  <2>2. CASE p = << >> /\ HasShown(r, n, made)
    <3>1. u = made
      BY <1>2, <1>5, <2>2, NonePut
    <3> QED BY <2>2, <3>1 DEF HasShown
  <2> QED BY <2>1, <2>2 DEF CRCsTo
<1>9. PICK shown, O, S : /\ CRCParts(u, ValuesAt(r, RestTo(r, n)), shown, O, S)
                         /\ Shows(u, ValuesAt(r, CRCOnlyAt(r)), shown, O)
  BY <1>8
<1>10. IsSequence(u)
  BY <1>9 DEF CRCParts, SymbolLines
<1>11. Adds(t, u, x) /\ Starts(t, u)
  BY <1>3, <1>10, AddsAppend
<1>12. PICK T : CRCParts(t, ValuesAt(r, RestTo(r, m)), shown, O, T)
  <2>1. PICK c : c = Len(u)
    OBVIOUS
  <2>2. CRCParts(t, Append(ValuesAt(r, RestTo(r, n)), x), shown, O,
                 IF x.tag = "section" THEN S \cup {c + 1} ELSE S)
    BY <1>6, <1>9, <1>11, <2>1, PartsLine
  <2> QED BY <1>7, <2>2
<1>13. Shows(t, ValuesAt(r, CRCOnlyAt(r)), shown, O)
  BY <1>9, <1>10, <1>11, ShowsMore
<1>14. HasShown(r, m, t)
  BY <1>12, <1>13 DEF HasShown
<1>15. EndsLike(r, m, t)
  BY <1>1, <1>6, <1>10, <1>11, EndsNext
<1>16. SectionsAt(r) \cap (1 .. m) # {}
  BY <1>6
<1>17. m \notin CRCOnlyAt(r) /\ m - 1 \notin CRCOnlyAt(r)
  BY <1>4, <1>6
<1>18. CRCsTo(r, m, t, << >>)
  BY <1>14, <1>15, <1>16, <1>17 DEF CRCsTo
<1> QED BY <1>1, <1>2, <1>3, <1>18

\* A symbol with changes of its CRC only.
LEMMA CRCsHeld ==
  ASSUME NEW r, ReportIs(r), NEW n \in Nat, NEW made, NEW p, CRCsTo(r, n, made, p),
         NEW m, m = n + 1, m \in CRCOnlyAt(r), NEW e, e = n + 3
  PROVE  CRCsTo(r, e, made, Append(p, r[m]))
<1>1. /\ n \notin CRCOnlyAt(r) /\ n - 1 \notin CRCOnlyAt(r) /\ EndsLike(r, n, made) /\ m - 1 = n
      /\ m + 1 = e - 1 /\ m + 2 = e
  BY DEF CRCsTo
<1>2. /\ m \in 1 .. Len(r) /\ e <= Len(r)
      /\ r[m].tag = "changed" /\ r[e - 1].tag = "crc" /\ r[e].tag = "empty"
  <2>1. /\ m \in 1 .. Len(r) /\ m + 2 <= Len(r)
        /\ r[m].tag = "changed" /\ r[m + 1].tag = "crc" /\ r[m + 2].tag = "empty"
    BY DEF ReportIs, CRCOnlyAre
  <2> QED BY <1>1, <2>1
<1>3. e \notin CRCOnlyAt(r) /\ e - 1 \notin CRCOnlyAt(r)
  BY <1>2 DEF ReportIs, CRCOnlyAre
<1>4. HoldsBack(r, n, made, p)
  <2> SUFFICES ASSUME SectionsAt(r) \cap (1 .. n) # {} PROVE FALSE
    BY DEF CRCsTo
  <2>1. PICK j \in SectionsAt(r) : j \in 1 .. n
    OBVIOUS
  <2>2. m < j
    BY DEF ReportIs
  <2> QED BY <2>1, <2>2
<1>5. 1 .. e = (1 .. n) \cup {m, e - 1, e}
  BY <1>1
<1>6. SectionsAt(r) \cap (1 .. e) = {}
  <2>1. m \notin SectionsAt(r) /\ e - 1 \notin SectionsAt(r) /\ e \notin SectionsAt(r)
    BY <1>2 DEF ReportIs
  <2> QED BY <1>4, <1>5, <2>1 DEF HoldsBack
<1>7. RestTo(r, e) = RestTo(r, n)
  <2>1. CRCOnlyAt(r) \in SUBSET Int
    BY DEF ReportIs, CRCOnlyAre
  <2>2. m \in Int /\ e - 1 \in Int /\ e \in Int /\ e - 1 - 1 = m /\ e - 2 = m
    OBVIOUS
  <2>3. m \in Spans(CRCOnlyAt(r), 3) /\ e - 1 \in Spans(CRCOnlyAt(r), 3) /\ e \in Spans(CRCOnlyAt(r), 3)
    BY <2>1, <2>2, SpansThree
  <2> QED BY <1>5, <2>3 DEF RestTo
<1>8. Append(p, r[m]) = ValuesAt(r, CRCsTil(r, e))
  <2>1. CRCsTil(r, e) = CRCsTil(r, n) \cup {n + 1}
    BY <1>3, <1>5 DEF CRCsTil
  <2>2. CRCsTil(r, n) \in SUBSET (1 .. n)
    BY DEF CRCsTil
  <2>3. ValuesAt(r, CRCsTil(r, n) \cup {n + 1}) = Append(ValuesAt(r, CRCsTil(r, n)), r[n + 1])
    BY <2>2, ValuesNext
  <2> QED BY <1>4, <2>1, <2>3 DEF HoldsBack
<1>9. EndsLike(r, e, made)
  <2>1. made # << >> => made[Len(made)].tag = "empty"
    <3>1. n > 0 => r[n].tag = "empty"
      BY <1>1 DEF ReportIs
    <3> QED BY <1>1, <3>1 DEF EndsLike
  <2>2. ~EndsCRC(made)
    <3>1. made # << >> => made[Len(made)].tag # "crc"
      BY <2>1
    <3>2. made = << >> => ~(Len(made) > 1)
      BY FewAny
    <3> QED BY <3>1, <3>2 DEF EndsCRC
  <2> QED BY <2>1, <2>2 DEF EndsLike
<1>10. HoldsBack(r, e, made, Append(p, r[m]))
  BY <1>4, <1>6, <1>7, <1>8 DEF HoldsBack
<1> QED BY <1>3, <1>9, <1>10 DEF CRCsTo

\* At the end.
LEMMA PartsMean ==
  ASSUME NEW r, ReportIs(r), NEW u, NEW shown, NEW O, NEW S,
         CRCParts(u, ValuesAt(r, RestTo(r, Len(r))), shown, O, S),
         Shows(u, ValuesAt(r, CRCOnlyAt(r)), shown, O)
  PROVE  CRCsSummarised(r, u) /\ SymbolLines(u)
<1>1. /\ SymbolLines(u)
      /\ ValuesAt(u, CRCRest(u)) = ValuesAt(r, RestTo(r, Len(r))) /\ ValuesAt(u, CRCOnlyAt(u)) = shown
      /\ OmittedAt(u) = O /\ SectionsAt(u) = S
      /\ \A i \in S, k \in CRCOnlyAt(u) \cup O : k < i
  BY DEF CRCParts
<1>2. PICK all : all = ValuesAt(r, CRCOnlyAt(r))
  OBVIOUS
<1>3. /\ IsPrefix(shown, all)
      /\ \/ Len(all) <= limit /\ shown = all /\ O = {}
         \/ /\ Len(all) > limit /\ Len(shown) = limit
            /\ \E i \in DOMAIN u : O = {i} /\ u[i] = Omitted(Len(all) - limit, Len(all))
  BY <1>2 DEF Shows
<1>4. ValuesAt(u, DOMAIN u \ (Spans(CRCOnlyAt(u), 3) \cup Spans(OmittedAt(u), 2)))
        = ValuesAt(r, DOMAIN r \ Spans(CRCOnlyAt(r), 3))
  BY <1>1 DEF CRCRest, RestTo, ReportIs
<1>5. \A i \in SectionsAt(u) : \A j \in CRCOnlyAt(u) \cup OmittedAt(u) : j < i
  BY <1>1
<1>6. IsPrefix(ValuesAt(u, CRCOnlyAt(u)), ValuesAt(r, CRCOnlyAt(r)))
  BY <1>1, <1>2, <1>3
<1>7. \/ Len(all) <= limit /\ ValuesAt(u, CRCOnlyAt(u)) = all /\ OmittedAt(u) = {}
      \/ /\ Len(all) > limit /\ Len(ValuesAt(u, CRCOnlyAt(u))) = limit
         /\ \E i \in DOMAIN u : /\ OmittedAt(u) = {i}
                                /\ u[i] = Omitted(Len(all) - limit, Len(all))
  BY <1>1, <1>3
<1> QED BY <1>1, <1>2, <1>4, <1>5, <1>6, <1>7 DEF CRCsSummarised

\* At the end of the report what the property says of the first pass holds, and its
\* lines are as the second pass expects them.
LEMMA CRCsEnd ==
  ASSUME NEW r, ReportIs(r), NEW made, NEW p, CRCsTo(r, Len(r), made, p), limit \in Nat,
         NEW u, u = Both(made, PendingCRCs(p))
  PROVE  CRCsSummarised(r, u) /\ SymbolLines(u)
<1>1. PICK n \in Nat : n = Len(r)
  BY DEF ReportIs
<1>2. CASE HoldsBack(r, n, made, p)
  <2>1. CRCOnlyAt(r) \subseteq 1 .. n
    BY <1>1 DEF ReportIs, CRCOnlyAre
  <2>2. \E shown, O : /\ CRCParts(u, ValuesAt(r, RestTo(r, n)), shown, O, {})
                      /\ Shows(u, ValuesAt(r, CRCOnlyAt(r)), shown, O)
    BY <1>2, <2>1, AllHeld
  <2> QED BY <1>1, <2>2, PartsMean
<1>3. CASE p = << >> /\ HasShown(r, n, made)
  <2>1. IsSequence(made)
    BY <1>3 DEF HasShown, CRCParts, SymbolLines
  <2>2. u = made
    BY <1>3, <2>1, NonePut
  <2> QED BY <1>1, <1>3, <2>2, PartsMean DEF HasShown
<1> QED BY <1>1, <1>2, <1>3 DEF CRCsTo

--------------------------------------------------------------------------------
(***************************************************************************)
(* The passes, together: what has been made so far, line by line.          *)
(***************************************************************************)

\* The reports are sequences of lines, and nothing is held back outside the pass.
ReportsInv ==
  /\ IsSequence(reports) /\ Len(reports) \in 1 .. 4
  /\ \A p \in 1 .. Len(reports) : IsSequence(reports[p])
  /\ ix \in 1 .. Len(reports[Len(reports)]) + 1
  /\ IsSequence(crc) /\ IsSequence(vars)
  /\ Len(reports) # 1 => crc = << >>
  /\ Len(reports) # 2 => symbols = NoSymbols
  /\ Len(reports) # 3 => vars = << >>

\* What each pass has made is right of the lines it is done with.
CRCsSoFar ==
  Len(reports) = 1 => reports[1] \in Reports /\ CRCsTo(reports[1], ix - 1, new_report, crc)

GroupsSoFar ==
  Len(reports) = 2 => SymbolLines(reports[2]) /\ GroupsTo(reports[2], ix - 1, new_report, symbols)

OffsetsSoFar ==
  Len(reports) = 3 => OffsetsTo(reports[3], ix - 1, new_report, vars, indent, offset)

IInv ==
  ReportsInv /\ CRCsSoFar /\ GroupsSoFar /\ OffsetsSoFar /\ SymbolsAccounted /\ OffsetsExact

\* At the start.
LEMMA InitInv == Init => IInv
<1> SUFFICES ASSUME Init PROVE IInv
  OBVIOUS
<1>1. PICK r \in Reports : reports = <<r>>
  BY DEF Init
<1>2. IsReport(r) /\ limit \in Nat
  BY ReportsAssumption
<1>3. ReportIs(r) /\ IsSequence(r) /\ Len(r) \in Nat
  BY <1>2, ReportLines DEF ReportIs
<1>4. IsSequence(reports) /\ Len(reports) = 1 /\ reports[1] = r
  BY <1>1, FewAny
<1>5. ix = 1 /\ new_report = << >> /\ crc = << >> /\ symbols = NoSymbols /\ vars = << >>
  BY DEF Init
<1>6. ReportsInv
  BY <1>3, <1>4, <1>5, FewAny DEF ReportsInv
<1>7. CRCsSoFar
  <2>1. CRCsTo(r, 0, << >>, << >>)
    BY <1>3, CRCsStart
  <2> QED BY <1>4, <1>5, <2>1 DEF CRCsSoFar
<1> QED BY <1>4, <1>6, <1>7 DEF IInv, GroupsSoFar, OffsetsSoFar, SymbolsAccounted, OffsetsExact

\* What a pass starts from: the lines the one before has made.
LEMMA NextPassFacts ==
  ASSUME ReportsInv, Len(reports) \in 1 .. 3, NEW lines, IsSequence(lines), NextPass(lines)
  PROVE  /\ IsSequence(reports') /\ Len(reports') = Len(reports) + 1
         /\ reports'[Len(reports) + 1] = lines
         /\ \A p \in 1 .. Len(reports) : reports'[p] = reports[p]
         /\ \A p \in 1 .. Len(reports') : IsSequence(reports'[p])
         /\ ix' = 1 /\ new_report' = << >>
         /\ ix' \in 1 .. Len(reports'[Len(reports')]) + 1
<1> SUFFICES ASSUME NEW q, q = reports, NEW t, t = reports', t = Append(q, lines)
             PROVE  /\ IsSequence(t) /\ Len(t) = Len(q) + 1
                    /\ t[Len(q) + 1] = lines
                    /\ \A p \in 1 .. Len(q) : t[p] = q[p]
                    /\ \A p \in 1 .. Len(t) : IsSequence(t[p])
                    /\ 1 \in 1 .. Len(t[Len(t)]) + 1
  BY DEF NextPass
<1>1. IsSequence(q) /\ Len(q) \in Nat /\ \A p \in 1 .. Len(q) : IsSequence(q[p])
  BY SequenceFacts DEF ReportsInv
<1>2. /\ IsSequence(t) /\ Len(t) = Len(q) + 1 /\ t[Len(q) + 1] = lines
      /\ \A p \in 1 .. Len(q) : t[p] = q[p]
  BY <1>1, AppendAny
<1>3. Len(lines) \in Nat
  BY SequenceFacts
<1> QED BY <1>1, <1>2, <1>3

\* The line a pass is at, and the one before.
LEMMA AtLineFacts ==
  ASSUME ReportsInv
  PROVE  /\ report = reports[Len(reports)] /\ IsSequence(report) /\ Len(report) \in Nat
         /\ ix \in Nat \ {0} /\ ix <= Len(report) + 1
         /\ ix - 1 \in Nat /\ ix = (ix - 1) + 1 /\ ix + 1 = (ix - 1) + 2 /\ ix + 2 = (ix - 1) + 3
         /\ (ix > Len(report) => ix - 1 = Len(report))
         /\ (ix <= Len(report) => ix + 1 \in 1 .. Len(report) + 1)
<1>1. report = reports[Len(reports)]
  BY DEF report, Last
<1>2. IsSequence(report)
  BY <1>1 DEF ReportsInv
<1>3. Len(report) \in Nat
  BY <1>2, SequenceFacts
<1>4. ix \in 1 .. Len(report) + 1
  BY <1>1 DEF ReportsInv
<1> HIDE DEF report
<1> QED BY <1>1, <1>2, <1>3, <1>4

\* What is pending, and a line, after what has been made.
LEMMA MadeLine ==
  ASSUME NEW made, IsSequence(made), NEW pending, IsSequence(pending), NEW x
  PROVE  made \o pending \o <<x>> = Append(Both(made, pending), x)
<1>1. IsSequence(Both(made, pending))
  BY BothFacts
<1> QED BY <1>1, ConcatFacts DEF Both

\* The lines held back are sequences.
LEMMA PendingAny ==
  ASSUME limit \in Nat
  PROVE  /\ \A p : IsSequence(p) => IsSequence(PendingCRCs(p))
         /\ \A q : Names(q) => IsSequence(GroupsOf(q))
         /\ \A names, i, d : IsSequence(Held(names, i, d))
<1>1. \A a, b : IsSequence(<<a, b>>)
  <2>1. \A a, b : <<a, b>> \in Seq({a, b})
    OBVIOUS
  <2> QED BY <2>1, OwnElements
<1>2. ASSUME NEW p, IsSequence(p) PROVE IsSequence(PendingCRCs(p))
  <2>1. Len(p) \in Nat
    BY <1>2, SequenceFacts
  <2>2. PICK n \in Nat : n = Shown(p)
    BY <2>1 DEF Shown
  <2>3. IsSequence(Triples(p, n))
    BY FirstNext
  <2>4. IsSequence(Counted(p))
    BY <1>1, FewAny DEF Counted
  <2> QED BY <2>2, <2>3, <2>4, PendingIs, BothFacts
<1>3. ASSUME NEW q, Names(q) PROVE IsSequence(GroupsOf(q))
  <2>1. PICK x, y : x = KindGroups(q, "removed") /\ y = KindGroups(q, "added")
    OBVIOUS
  <2>2. IsSequence(x) /\ IsSequence(y) /\ GroupsOf(q) = Both(x, y)
    BY <1>3, <2>1, GroupsAre
  <2> QED BY <2>2, BothFacts
<1>4. ASSUME NEW names, NEW i, NEW d PROVE IsSequence(Held(names, i, d))
  BY <1>1, FewAny DEF Held, Summary
<1> QED BY <1>2, <1>3, <1>4

\* A step within a pass: the reports stay.
LEMMA WithinPass ==
  ASSUME IInv, reports' = reports, ix' \in 1 .. Len(report) + 1,
         IsSequence(crc'), IsSequence(vars'),
         Len(reports) # 1 => crc' = << >>,
         Len(reports) # 2 => symbols' = NoSymbols,
         Len(reports) # 3 => vars' = << >>,
         Len(reports) = 1 => CRCsSoFar',
         Len(reports) = 2 => GroupsSoFar',
         Len(reports) = 3 => OffsetsSoFar'
  PROVE  IInv'
<1>1. report = reports[Len(reports)]
  BY AtLineFacts DEF IInv
<1>2. ReportsInv'
  <2>1. ix' \in 1 .. Len(reports[Len(reports)]) + 1
    BY <1>1
  <2> QED BY <2>1 DEF IInv, ReportsInv
<1>3. SymbolsAccounted' /\ OffsetsExact'
  BY DEF IInv, SymbolsAccounted, OffsetsExact
<1>4. Len(reports') = Len(reports)
  OBVIOUS
<1>5. CRCsSoFar'
  BY <1>4 DEF CRCsSoFar
<1>6. GroupsSoFar'
  BY <1>4 DEF GroupsSoFar
<1>7. OffsetsSoFar'
  BY <1>4 DEF OffsetsSoFar
<1> QED BY <1>2, <1>3, <1>5, <1>6, <1>7 DEF IInv

\* The first pass keeps the invariant.
LEMMA FirstPass ==
  ASSUME IInv, CRCSection \/ CRCHeld \/ CRCOther \/ CRCEnd
  PROVE  IInv'
<1>1. Len(reports) = 1 /\ UNCHANGED <<symbols, vars>> /\ symbols = NoSymbols /\ vars = << >>
  <2>1. Len(reports) = 1 /\ UNCHANGED <<symbols, vars>>
    BY DEF CRCSection, CRCHeld, CRCOther, CRCEnd, AtLine, AtEnd
  <2> QED BY <2>1 DEF IInv, ReportsInv
<1> SUFFICES ASSUME NEW r, r = report, NEW n, n = ix - 1, NEW m, m = ix,
                    NEW made, made = new_report, NEW p, p = crc
             PROVE  IInv'
  OBVIOUS
<1>2. /\ r = reports[1] /\ n \in Nat /\ m = n + 1 /\ Len(r) \in Nat /\ DOMAIN r = 1 .. Len(r)
      /\ ix = m /\ ix \in Nat /\ ix >= 1
      /\ m > Len(r) => n = Len(r)
  BY <1>1, AtLineFacts, SequenceFacts DEF IInv
<1>3. n \in Nat /\ m \in Nat /\ m >= 1 /\ m = n + 1 /\ Len(r) \in Nat
  BY <1>2
<1>4. r \in Reports /\ CRCsTo(r, n, made, p)
  BY <1>1, <1>2 DEF IInv, CRCsSoFar
<1>5. ReportIs(r) /\ limit \in Nat
  BY <1>4, ReportsAssumption, ReportLines
<1>6. IsSequence(made) /\ IsSequence(p)
  <2>1. IsSequence(made)
    BY <1>4 DEF CRCsTo, HoldsBack, HasShown, CRCParts, SymbolLines
  <2> QED BY <2>1 DEF IInv, ReportsInv
<1>7. IsSequence(PendingCRCs(p)) /\ IsSequence(Both(made, PendingCRCs(p)))
  BY <1>5, <1>6, PendingAny, BothFacts
<1>8. \A i \in 1 .. Len(r) : CRCOnly(r, i) <=> i \in CRCOnlyAt(r)
  BY <1>2 DEF CRCOnlyAt
<1>9. CASE CRCSection
  <2>1. m <= Len(r) /\ r[m].tag = "section"
    BY <1>2, <1>9 DEF CRCSection, AtLine
  <2>2. CRCsTo(r, m, Append(Both(made, PendingCRCs(p)), r[m]), << >>)
    BY <1>2, <1>4, <1>5, <2>1, CRCsSection
  <2>3. /\ new_report' = Append(Both(made, PendingCRCs(p)), r[m])
        /\ crc' = << >> /\ ix' = m + 1 /\ reports' = reports
    BY ZenonT(40), <1>2, <1>6, <1>7, <1>9, MadeLine DEF CRCSection
  <2>4. CRCsSoFar'
    <3>1. m + 1 - 1 = m
      BY <1>3
    <3>2. ix' - 1 = m
      BY <1>3, <2>3, <3>1
    <3> QED BY <1>2, <1>4, <2>2, <2>3, <3>2 DEF CRCsSoFar
  <2>5. m + 1 \in 1 .. Len(r) + 1
    BY <1>3, <2>1
  <2>6. IsSequence(crc') /\ IsSequence(vars') /\ ix' \in 1 .. Len(report) + 1
    BY <1>1, <2>3, <2>5, FewAny
  <2> QED BY <1>1, <2>3, <2>4, <2>6, WithinPass
<1>10. CASE CRCHeld
  <2>1. m <= Len(r) /\ m \in CRCOnlyAt(r)
    BY <1>2, <1>8, <1>10 DEF CRCHeld, AtLine
  <2>2. PICK e : e = n + 3
    OBVIOUS
  <2>3. CRCsTo(r, e, made, Append(p, r[m]))
    BY <1>2, <1>4, <1>5, <2>1, <2>2, CRCsHeld
  <2>4. new_report' = made /\ crc' = Append(p, r[m]) /\ ix' = e + 1 /\ reports' = reports
    <3>1. ix' = ix + 3 /\ new_report' = made /\ crc' = Append(p, r[m]) /\ reports' = reports
      BY <1>10 DEF CRCHeld
    <3>2. m + 3 = e + 1
      BY <1>3, <2>2
    <3> QED BY <1>2, <3>1, <3>2
  <2>5. CRCsSoFar'
    <3>1. e + 1 - 1 = e
      BY <1>3, <2>2
    <3>2. ix' - 1 = e
      BY <1>3, <2>2, <2>4, <3>1
    <3> QED BY <1>2, <1>4, <2>3, <2>4, <3>2 DEF CRCsSoFar
  <2>6. m + 2 <= Len(r)
    BY <1>5, <2>1 DEF ReportIs, CRCOnlyAre
  <2>7. e + 1 \in 1 .. Len(r) + 1
    BY <1>3, <2>2, <2>6
  <2>8. IsSequence(Append(p, r[m]))
    BY <1>6, AppendAny
  <2>9. IsSequence(crc') /\ IsSequence(vars') /\ ix' \in 1 .. Len(report) + 1
    BY <1>1, <2>4, <2>7, <2>8, FewAny
  <2> QED BY <1>1, <2>4, <2>5, <2>9, WithinPass
<1>11. CASE CRCOther
  <2>1. m <= Len(r) /\ r[m].tag # "section" /\ m \notin CRCOnlyAt(r)
    BY <1>2, <1>8, <1>11 DEF CRCOther, AtLine
  <2>2. CRCsTo(r, m, Append(made, r[m]), p)
    BY <1>2, <1>4, <1>5, <2>1, CRCsOther
  <2>3. new_report' = Append(made, r[m]) /\ crc' = p /\ ix' = m + 1 /\ reports' = reports
    BY <1>2, <1>11 DEF CRCOther
  <2>4. CRCsSoFar'
    <3>1. m + 1 - 1 = m
      BY <1>3
    <3>2. ix' - 1 = m
      BY <1>3, <2>3, <3>1
    <3> QED BY <1>2, <1>4, <2>2, <2>3, <3>2 DEF CRCsSoFar
  <2>5. m + 1 \in 1 .. Len(r) + 1
    BY <1>3, <2>1
  <2>6. IsSequence(crc') /\ IsSequence(vars') /\ ix' \in 1 .. Len(report) + 1
    BY <1>1, <1>6, <2>3, <2>5, FewAny
  <2> QED BY <1>1, <2>3, <2>4, <2>6, WithinPass
<1>12. CASE CRCEnd
  <2>1. n = Len(r)
    BY <1>2, <1>12 DEF CRCEnd, AtEnd
  <2>2. PICK u : u = Both(made, PendingCRCs(p))
    OBVIOUS
  <2>3. CRCsSummarised(r, u) /\ SymbolLines(u) /\ IsSequence(u)
    BY <1>4, <1>5, <1>7, <2>1, <2>2, CRCsEnd
  <2>4. NextPass(u) /\ crc' = << >>
    BY <1>12, <2>2 DEF CRCEnd, Both
  <2>5. /\ IsSequence(reports') /\ Len(reports') = 2 /\ reports'[2] = u /\ reports'[1] = r
        /\ \A q \in 1 .. Len(reports') : IsSequence(reports'[q])
        /\ ix' = 1 /\ new_report' = << >> /\ ix' \in 1 .. Len(reports'[Len(reports')]) + 1
    BY <1>1, <1>2, <2>3, <2>4, NextPassFacts DEF IInv
  <2>6. ReportsInv'
    BY <1>1, <2>4, <2>5, FewAny DEF ReportsInv
  <2>7. GroupsSoFar'
    <3>1. GroupsTo(u, 0, << >>, NoSymbols)
      BY <2>3, GroupsStart
    <3>2. ix' - 1 = 0
      BY <2>5
    <3> QED BY <1>1, <2>3, <2>5, <3>1, <3>2 DEF GroupsSoFar
  <2>8. SymbolsAccounted'
    BY <2>3, <2>5 DEF SymbolsAccounted
  <2> QED BY <2>5, <2>6, <2>7, <2>8 DEF IInv, CRCsSoFar, OffsetsSoFar, OffsetsExact
<1> QED BY <1>9, <1>10, <1>11, <1>12

\* The second pass keeps the invariant.
LEMMA SecondPass ==
  ASSUME IInv, GroupHeld \/ GroupOther \/ GroupEnd
  PROVE  IInv'
<1>1. Len(reports) = 2 /\ UNCHANGED <<crc, vars>> /\ crc = << >> /\ vars = << >>
  <2>1. Len(reports) = 2 /\ UNCHANGED <<crc, vars>>
    BY DEF GroupHeld, GroupOther, GroupEnd, AtLine, AtEnd
  <2> QED BY <2>1 DEF IInv, ReportsInv
<1> SUFFICES ASSUME NEW r, r = report, NEW n, n = ix - 1, NEW m, m = ix,
                    NEW made, made = new_report, NEW q, q = symbols
             PROVE  IInv'
  OBVIOUS
<1>2. /\ r = reports[2] /\ n \in Nat /\ m = n + 1 /\ Len(r) \in Nat /\ DOMAIN r = 1 .. Len(r)
      /\ ix = m /\ ix \in Nat /\ ix >= 1 /\ IsSequence(r)
      /\ m > Len(r) => n = Len(r)
  BY <1>1, AtLineFacts, SequenceFacts DEF IInv
<1>3. n \in Nat /\ m \in Nat /\ m >= 1 /\ m = n + 1 /\ Len(r) \in Nat
  BY <1>2
<1>4. SymbolLines(r) /\ GroupsTo(r, n, made, q)
  BY <1>1, <1>2 DEF IInv, GroupsSoFar
<1>5. IsSequence(made) /\ Names(q)
  BY <1>4 DEF GroupsTo, Grouped
<1>6. PendingSymbols = GroupsOf(q)
  BY DEF PendingSymbols, GroupsOf, KindGroups, GroupOf
<1>7. IsSequence(GroupsOf(q)) /\ IsSequence(Both(made, GroupsOf(q)))
  <2>1. limit \in Nat
    BY ReportsAssumption
  <2> QED BY <1>5, <2>1, PendingAny, BothFacts
<1>8. \A i \in 1 .. Len(r) : RemovedOrAdded(r, i) <=> i \in WasAt(r)
  BY <1>2 DEF WasAt
<1>9. CASE GroupHeld
  <2>1. m <= Len(r) /\ m \in WasAt(r)
    <3>1. m <= Len(r) /\ RemovedOrAdded(r, m)
      BY <1>9 DEF GroupHeld, AtLine
    <3> QED BY <1>2, <3>1 DEF WasAt
  <2>2. PICK e : e = n + 2
    OBVIOUS
  <2>3. PICK p : p = [q EXCEPT ![r[m].which][r[m].kind] = Append(@, r[m].name)]
    OBVIOUS
  <2>4. GroupsTo(r, e, made, p)
    BY <1>2, <1>4, <2>1, <2>2, <2>3, GroupsHeld
  <2>5. new_report' = made /\ symbols' = p /\ ix' = m + 2 /\ reports' = reports
    BY <1>9, <2>3 DEF GroupHeld
  <2>6. ix' - 1 = e /\ ix' = e + 1
    <3>1. m + 2 = e + 1 /\ m + 2 - 1 = e
      BY <1>3, <2>2
    <3> QED BY <1>3, <2>2, <2>5, <3>1
  <2>7. GroupsSoFar'
    BY <1>2, <1>4, <2>4, <2>5, <2>6 DEF GroupsSoFar
  <2>8. m + 1 <= Len(r)
    BY <1>2, <2>1, WasLines
  <2>9. IsSequence(crc') /\ IsSequence(vars') /\ ix' \in 1 .. Len(report) + 1
    <3>1. IsSequence(crc') /\ IsSequence(vars')
      BY <1>1, FewAny
    <3>2. e + 1 \in 1 .. Len(r) + 1
      BY <1>3, <2>2, <2>8
    <3> QED BY <2>6, <3>1, <3>2
  <2> QED BY <1>1, <2>5, <2>7, <2>9, WithinPass
<1>10. CASE GroupOther
  <2>1. m <= Len(r) /\ m \notin WasAt(r)
    BY <1>2, <1>8, <1>10 DEF GroupOther, AtLine
  <2>2. PICK t : t = Append(Both(made, GroupsOf(q)), r[m])
    OBVIOUS
  <2>3. GroupsTo(r, m, t, NoSymbols)
    BY <1>2, <1>4, <2>1, <2>2, GroupsOther
  <2>4. new_report' = t /\ symbols' = NoSymbols /\ ix' = m + 1 /\ reports' = reports
    BY <1>5, <1>6, <1>7, <1>10, <2>2, MadeLine DEF GroupOther
  <2>5. ix' - 1 = m
    <3>1. m + 1 - 1 = m
      BY <1>3
    <3> QED BY <1>3, <2>4, <3>1
  <2>6. GroupsSoFar'
    BY <1>2, <1>4, <2>3, <2>4, <2>5 DEF GroupsSoFar
  <2>7. IsSequence(crc') /\ IsSequence(vars') /\ ix' \in 1 .. Len(report) + 1
    <3>1. IsSequence(crc') /\ IsSequence(vars')
      BY <1>1, FewAny
    <3>2. m + 1 \in 1 .. Len(r) + 1
      BY <1>3, <2>1
    <3> QED BY <2>4, <3>1, <3>2
  <2> QED BY <1>1, <2>4, <2>6, <2>7, WithinPass
<1>11. CASE GroupEnd
  <2>1. n = Len(r)
    BY <1>2, <1>11 DEF GroupEnd, AtEnd
  <2>2. PICK t : t = Both(made, GroupsOf(q))
    OBVIOUS
  <2>3. SymbolsGrouped(r, t) /\ IsSequence(t)
    BY <1>4, <2>1, <2>2, GroupsEnd
  <2>4. NextPass(t) /\ symbols' = NoSymbols
    BY <1>6, <1>11, <2>2 DEF GroupEnd, Both
  <2>5. /\ IsSequence(reports') /\ Len(reports') = 3 /\ reports'[3] = t /\ reports'[2] = r
        /\ reports'[1] = reports[1]
        /\ \A p \in 1 .. Len(reports') : IsSequence(reports'[p])
        /\ ix' = 1 /\ new_report' = << >> /\ ix' \in 1 .. Len(reports'[Len(reports')]) + 1
    BY <1>1, <1>2, <2>3, <2>4, NextPassFacts DEF IInv
  <2>6. ReportsInv'
    BY <1>1, <2>4, <2>5, FewAny DEF ReportsInv
  <2>7. OffsetsSoFar'
    <3>1. \A i, d : OffsetsTo(t, 0, << >>, << >>, i, d)
      BY MadeNone DEF OffsetsTo
    <3>2. ix' - 1 = 0
      BY <2>5
    <3> QED BY <1>1, <2>5, <3>1, <3>2 DEF OffsetsSoFar
  <2>8. SymbolsAccounted'
    <3>1. CRCsSummarised(reports[1], r)
      BY <1>1, <1>2 DEF IInv, SymbolsAccounted
    <3> QED BY <2>3, <2>5, <3>1 DEF SymbolsAccounted
  <2> QED BY <2>5, <2>6, <2>7, <2>8 DEF IInv, CRCsSoFar, GroupsSoFar, OffsetsExact
<1> QED BY <1>9, <1>10, <1>11

\* The third pass keeps the invariant.
LEMMA ThirdPass ==
  ASSUME IInv, OffsetHeld \/ OffsetOther \/ OffsetEnd
  PROVE  IInv'
<1>1. Len(reports) = 3 /\ UNCHANGED <<crc, symbols>> /\ crc = << >> /\ symbols = NoSymbols
  <2>1. Len(reports) = 3 /\ UNCHANGED <<crc, symbols>>
    BY DEF OffsetHeld, OffsetOther, OffsetEnd, AtLine, AtEnd
  <2> QED BY <2>1 DEF IInv, ReportsInv
<1> SUFFICES ASSUME NEW r, r = report, NEW n, n = ix - 1, NEW m, m = ix, NEW made, made = new_report,
                    NEW names, names = vars, NEW i, i = indent, NEW d, d = offset
             PROVE  IInv'
  OBVIOUS
<1>2. /\ r = reports[3] /\ n \in Nat /\ m = n + 1 /\ Len(r) \in Nat /\ DOMAIN r = 1 .. Len(r)
      /\ ix = m /\ ix \in Nat /\ ix >= 1 /\ IsSequence(r)
      /\ m > Len(r) => n = Len(r)
  BY <1>1, AtLineFacts, SequenceFacts DEF IInv
<1>3. n \in Nat /\ m \in Nat /\ m >= 1 /\ m = n + 1 /\ Len(r) \in Nat
  BY <1>2
<1>4. IsSequence(names) /\ OffsetsTo(r, n, made, names, i, d)
  BY <1>1, <1>2 DEF IInv, ReportsInv, OffsetsSoFar
<1>5. PendingMembers = Held(names, i, d)
  BY DEF PendingMembers, Held
<1>6. CASE OffsetHeld
  <2>1. OffsetOnly(r, m) /\ reports' = reports /\ ix' = m + 2
    BY <1>6 DEF OffsetHeld
  <2>2. PICK e : e = n + 2
    OBVIOUS
  <2>3. e = m + 1 /\ ix' - 1 = e /\ ix' = e + 1
    <3>1. e = m + 1 /\ m + 2 = e + 1 /\ m + 2 - 1 = e
      BY <1>3, <2>2
    <3> QED BY <1>3, <2>1, <3>1
  <2>4. m + 2 <= Len(r)
    BY <2>1 DEF OffsetOnly
  <2>5. IsSequence(crc') /\ ix' \in 1 .. Len(report) + 1
    <3>1. IsSequence(crc')
      BY <1>1, FewAny
    <3>2. e + 1 \in 1 .. Len(r) + 1
      BY <1>3, <2>3, <2>4
    <3> QED BY <2>3, <3>1, <3>2
  <2>6. CASE Alike(r[m].indent, r[m + 1].offset)
    <3>1. PICK more : more = Append(names, r[m].name)
      OBVIOUS
    <3>2. r[m].indent = i /\ r[m + 1].offset = d
      BY <2>6 DEF Alike
    <3>3. OffsetsTo(r, e, made, more, i, d)
      BY <1>2, <1>4, <2>1, <2>2, <3>1, <3>2, HoldNext
    <3>4. vars' = more /\ new_report' = made /\ indent' = i /\ offset' = d
      BY <1>6, <2>6, <3>1 DEF OffsetHeld
    <3>5. OffsetsSoFar'
      BY <1>2, <2>1, <2>3, <3>3, <3>4 DEF OffsetsSoFar
    <3>6. IsSequence(vars')
      BY <1>4, <3>1, <3>4, AppendAny
    <3> QED BY <1>1, <2>1, <2>5, <3>5, <3>6, WithinPass
  <2>7. CASE ~Alike(r[m].indent, r[m + 1].offset)
    <3>1. ~Continues(r, m)
      BY <1>2, <1>4, <2>1, <2>7, GoesOn DEF Alike
    <3>2. made \o Held(names, i, d) = Made(r, n)
      <4>1. IsSequence(r) /\ n \in Nat /\ m = n + 1
        BY <1>2
      <4> QED BY <1>4, <3>1, <4>1, HeldMade
    <3>3. OffsetsTo(r, e, Made(r, n), <<r[m].name>>, r[m].indent, r[m + 1].offset)
      <4>1. n = m - 1 /\ m \in Nat \ {0}
        BY <1>3
      <4> QED BY <1>2, <2>1, <2>3, <3>1, <4>1, HoldFirst
    <3>4. /\ vars' = <<r[m].name>> /\ new_report' = Made(r, n)
          /\ indent' = r[m].indent /\ offset' = r[m + 1].offset
      BY <1>5, <1>6, <2>7, <3>2 DEF OffsetHeld
    <3>5. OffsetsSoFar'
      BY <1>2, <2>1, <2>3, <3>3, <3>4 DEF OffsetsSoFar
    <3>6. IsSequence(vars')
      BY <3>4, FewAny
    <3> QED BY <1>1, <2>1, <2>5, <3>5, <3>6, WithinPass
  <2> QED BY <2>6, <2>7
<1>7. CASE OffsetOther
  <2>1. m <= Len(r) /\ ~OffsetOnly(r, m) /\ reports' = reports /\ ix' = m + 1 /\ vars' = << >>
    BY <1>2, <1>7 DEF OffsetOther, AtLine
  <2>2. PICK t : t = made \o Held(names, i, d) \o <<r[m]>>
    OBVIOUS
  <2>3. OffsetsTo(r, m, t, << >>, i, d)
    BY <1>2, <1>4, <2>1, <2>2, HoldNone
  <2>4. new_report' = t /\ indent' = i /\ offset' = d
    BY <1>5, <1>7, <2>2 DEF OffsetOther
  <2>5. ix' - 1 = m
    <3>1. m + 1 - 1 = m
      BY <1>3
    <3> QED BY <1>3, <2>1, <3>1
  <2>6. OffsetsSoFar'
    BY <1>2, <2>1, <2>3, <2>4, <2>5 DEF OffsetsSoFar
  <2>7. IsSequence(crc') /\ IsSequence(vars') /\ ix' \in 1 .. Len(report) + 1
    <3>1. IsSequence(crc') /\ IsSequence(vars')
      BY <1>1, <2>1, FewAny
    <3>2. m + 1 \in 1 .. Len(r) + 1
      BY <1>3, <2>1
    <3> QED BY <2>1, <3>1, <3>2
  <2> QED BY <1>1, <2>1, <2>6, <2>7, WithinPass
<1>8. CASE OffsetEnd
  <2>1. n = Len(r) /\ vars' = << >>
    BY <1>2, <1>8 DEF OffsetEnd, AtEnd
  <2>2. names = << >> /\ made = Made(r, n)
    BY <1>2, <1>4, <2>1, HeldAtEnd
  <2>3. IsSequence(made)
    BY <1>2, <2>2, MadeNext
  <2>4. made \o PendingMembers = made
    BY <1>5, <2>2, <2>3, ConcatFacts DEF Held
  <2>5. NextPass(made)
    BY <1>8, <2>4 DEF OffsetEnd
  <2>6. /\ IsSequence(reports') /\ Len(reports') = 4 /\ reports'[4] = made /\ reports'[3] = r
        /\ reports'[2] = reports[2] /\ reports'[1] = reports[1]
        /\ \A p \in 1 .. Len(reports') : IsSequence(reports'[p])
        /\ ix' = 1 /\ new_report' = << >> /\ ix' \in 1 .. Len(reports'[Len(reports')]) + 1
    BY <1>1, <1>2, <2>3, <2>5, NextPassFacts DEF IInv
  <2>7. ReportsInv'
    BY <1>1, <2>1, <2>6, FewAny DEF ReportsInv
  <2>8. SymbolsAccounted'
    <3>1. CRCsSummarised(reports[1], reports[2]) /\ SymbolsGrouped(reports[2], r)
      BY <1>1, <1>2 DEF IInv, SymbolsAccounted
    <3> QED BY <2>6, <3>1 DEF SymbolsAccounted
  <2>9. OffsetsExact'
    <3>1. made = FlattenSeq([k \in DOMAIN r |-> Replacement(r, k)])
      BY <1>2, <2>1, <2>2 DEF Made, Pieces
    <3> QED BY <2>6, <3>1 DEF OffsetsExact
  <2> QED BY <2>6, <2>7, <2>8, <2>9 DEF IInv, CRCsSoFar, GroupsSoFar, OffsetsSoFar
<1> QED BY <1>6, <1>7, <1>8

\* The invariant holds of every report the passes are given.
LEMMA IInvHolds == Spec => []IInv
<1>1. ASSUME IInv, Done \/ UNCHANGED state PROVE IInv'
  <2>1. UNCHANGED state
    BY <1>1 DEF Done
  <2>2. UNCHANGED <<reports, ix, new_report, crc, symbols, indent, offset, vars>>
    BY <2>1 DEF state
  <2>3. ReportsInv'
    BY <1>1, <2>2 DEF IInv, ReportsInv
  <2>4. CRCsSoFar' /\ GroupsSoFar' /\ OffsetsSoFar'
    BY <1>1, <2>2 DEF IInv, CRCsSoFar, GroupsSoFar, OffsetsSoFar
  <2>5. SymbolsAccounted' /\ OffsetsExact'
    BY <1>1, <2>2 DEF IInv, SymbolsAccounted, OffsetsExact
  <2> QED BY <2>3, <2>4, <2>5 DEF IInv
<1>2. IInv /\ [Next]_state => IInv'
  BY <1>1, FirstPass, SecondPass, ThirdPass DEF Next
<1> QED BY <1>2, InitInv, PTL DEF Spec

\* No symbol of the small report is lost, reported twice or counted wrongly on the way to
\* the short one: of those with CRC changes only at most the limit are shown and the
\* others counted (SummariseCRCChanges), and those that were removed or added are listed
\* once, under their kind (GroupRemovedAddedSymbols).
THEOREM PostProcessSymbolsAccounted == Spec => []SymbolsAccounted
<1>1. IInv => SymbolsAccounted
  BY DEF IInv
<1> QED BY <1>1, IInvHolds, PTL

\* The third pass replaces each longest run of members that moved alike by one summary, in
\* its place, and nothing else (SummariseOffsetChanges): what is held back when the pass
\* ends is nothing, and no line is held back over another one.
THEOREM PostProcessOffsetsExact == Spec => []OffsetsExact
<1>1. IInv => OffsetsExact
  BY DEF IInv
<1> QED BY <1>1, IInvHolds, PTL
================================================================================
