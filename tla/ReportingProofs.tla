------------------------------- MODULE ReportingProofs -------------------------------
(***************************************************************************)
(* Reports are complete and their references true, and the Graphviz output *)
(* is the graph, for every well-formed difference graph.                   *)
(***************************************************************************)
EXTENDS Reporting, FiniteSetTheorems, SequenceTheorems, TLAPS

USE ComparisonAssumption, ReportsAssumption

--------------------------------------------------------------------------------
(***************************************************************************)
(* Types.                                                                  *)
(***************************************************************************)

\* What is known of a difference graph.
LEMMA GraphFacts ==
  ASSUME TypeOK
  PROVE  /\ root \in Comparison /\ root \in DOMAIN outcomes
         /\ \A c \in DOMAIN outcomes \cap Comparison :
              /\ outcomes[c].holds_changes \in BOOLEAN /\ outcomes[c].has_changes \in BOOLEAN
              /\ Len(outcomes[c].details) \in Nat
              /\ outcomes[c].holds_changes => Len(outcomes[c].details) > 0
              /\ \A i \in 1 .. Len(outcomes[c].details) :
                   /\ outcomes[c].details[i] \in Comparison \cup OneSided \cup {NoEdge}
                   /\ outcomes[c].details[i] # NoEdge =>
                        outcomes[c].details[i] \in DOMAIN outcomes /\ outcomes[c].details[i] # root
         /\ \A i \in 1 .. Len(outcomes[root].details) : outcomes[root].details[i] # NoEdge
<1>1. WellFormed(outcomes, root)
  BY DEF TypeOK
<1>2. root \in Comparison /\ root \in DOMAIN outcomes
  BY <1>1 DEF WellFormed
<1>3. ASSUME NEW c \in DOMAIN outcomes \cap Comparison
      PROVE  /\ outcomes[c].holds_changes \in BOOLEAN /\ outcomes[c].has_changes \in BOOLEAN
             /\ Len(outcomes[c].details) \in Nat
             /\ outcomes[c].holds_changes => Len(outcomes[c].details) > 0
             /\ \A i \in 1 .. Len(outcomes[c].details) :
                  /\ outcomes[c].details[i] \in Comparison \cup OneSided \cup {NoEdge}
                  /\ outcomes[c].details[i] # NoEdge =>
                       outcomes[c].details[i] \in DOMAIN outcomes /\ outcomes[c].details[i] # root
  <2>1. /\ outcomes[c] \in Diff
        /\ EdgesOf(outcomes[c].details) \subseteq DOMAIN outcomes \ {root}
        /\ outcomes[c].holds_changes => outcomes[c].details # << >>
    BY <1>1 DEF WellFormed
  <2>2. /\ outcomes[c].details \in Seq(Detail)
        /\ outcomes[c].holds_changes \in BOOLEAN /\ outcomes[c].has_changes \in BOOLEAN
    BY <2>1 DEF Diff
  <2> DEFINE s == outcomes[c].details
  <2> HIDE DEF s
  <2>3. Len(s) \in Nat /\ (s # << >> => Len(s) > 0) /\ \A i \in 1 .. Len(s) : s[i] \in Detail
    BY <2>2, LenProperties, ElementOfSeq, EmptySeq DEF s
  <2>4. \A i \in 1 .. Len(s) : s[i] # NoEdge => s[i] \in EdgesOf(s)
    BY DEF EdgesOf
  <2> QED BY <2>1, <2>2, <2>3, <2>4 DEF s, Detail
<1>4. \A i \in 1 .. Len(outcomes[root].details) : outcomes[root].details[i] # NoEdge
  BY <1>1 DEF WellFormed
<1> QED BY <1>2, <1>3, <1>4

LEMMA StackFacts ==
  ASSUME TypeOK
  PROVE  /\ Len(stack) \in Nat /\ Len(stack) >= 1
         /\ \A f \in 1 .. Len(stack) :
              /\ stack[f] \in Frame
              /\ stack[f].node \in Comparison /\ stack[f].node \in DOMAIN outcomes
              /\ stack[f].next \in Nat /\ stack[f].next >= 1 /\ stack[f].interesting \in BOOLEAN
              /\ stack[f].next <= Len(outcomes[stack[f].node].details) + 1
              /\ stack[f].lines \in Seq(Line) /\ Len(stack[f].lines) \in Nat
<1>1. stack \in Seq(Frame) /\ stack # << >>
  BY DEF TypeOK, CallsOK
<1>2. Len(stack) \in Nat /\ Len(stack) >= 1
  BY <1>1, LenProperties, EmptySeq
<1>3. \A f \in 1 .. Len(stack) : stack[f] \in Frame
  BY <1>1, ElementOfSeq
<1>4. \A f \in 1 .. Len(stack) :
        /\ stack[f].node \in DOMAIN outcomes
        /\ stack[f].next <= Len(outcomes[stack[f].node].details) + 1
  BY DEF TypeOK, CallsOK
<1>5. \A x \in Frame : /\ x.node \in Comparison /\ x.next \in Nat /\ x.next >= 1
                       /\ x.interesting \in BOOLEAN /\ x.lines \in Seq(Line) /\ Len(x.lines) \in Nat
  BY LenProperties DEF Frame
<1> QED BY <1>2, <1>3, <1>4, <1>5

\* What the innermost call is about to do.
LEMMA TopFacts ==
  ASSUME TypeOK
  PROVE  /\ Top = stack[Len(stack)] /\ Top \in Frame
         /\ Top.node \in Comparison /\ Top.node \in DOMAIN outcomes
         /\ Top.next \in Nat /\ Top.next >= 1 /\ Top.interesting \in BOOLEAN
         /\ Top.lines \in Seq(Line) /\ Len(Top.lines) \in Nat
         /\ Printing <=> Within(Len(stack))
         /\ Printing => /\ Current \in Comparison \cup OneSided \cup {NoEdge}
                        /\ Current = outcomes[Top.node].details[Top.next]
                        /\ Current # NoEdge => Current \in DOMAIN outcomes /\ Current # root
         /\ ~Printing => Top.next = Len(outcomes[Top.node].details) + 1
<1>1. Len(stack) \in 1 .. Len(stack)
  BY StackFacts
<1>2. Top = stack[Len(stack)]
  BY DEF Top
<1>3. /\ Top \in Frame /\ Top.node \in Comparison /\ Top.node \in DOMAIN outcomes
      /\ Top.next \in Nat /\ Top.next >= 1 /\ Top.interesting \in BOOLEAN
      /\ Top.lines \in Seq(Line) /\ Len(Top.lines) \in Nat
      /\ Top.next <= Len(outcomes[Top.node].details) + 1
  BY <1>1, <1>2, StackFacts
<1>4. Printing <=> Within(Len(stack))
  BY <1>2 DEF Printing, Within
<1>5. Len(outcomes[Top.node].details) \in Nat
  BY <1>3, GraphFacts
<1>6. Printing => Top.next \in 1 .. Len(outcomes[Top.node].details)
  BY <1>3, <1>5 DEF Printing
<1>7. Printing => /\ Current \in Comparison \cup OneSided \cup {NoEdge}
                  /\ Current = outcomes[Top.node].details[Top.next]
                  /\ Current # NoEdge => Current \in DOMAIN outcomes /\ Current # root
  BY <1>3, <1>6, GraphFacts DEF Current
<1>8. ~Printing => Top.next = Len(outcomes[Top.node].details) + 1
  BY <1>3, <1>5 DEF Printing
<1> QED BY <1>2, <1>3, <1>4, <1>7, <1>8

--------------------------------------------------------------------------------
(***************************************************************************)
(* What a step does to the stack.                                          *)
(***************************************************************************)

LEMMA CallFacts ==
  ASSUME NEW c \in Comparison, NEW m \in Nat \ {0}, NEW b \in BOOLEAN, NEW l \in Seq(Line)
  PROVE  /\ Call(c, m, b, l) \in Frame
         /\ Call(c, m, b, l).node = c /\ Call(c, m, b, l).next = m
         /\ Call(c, m, b, l).interesting = b /\ Call(c, m, b, l).lines = l
BY DEF Frame, Call

\* A detail is through: the innermost call has some lines more.
PrintedStep(more, b) ==
  /\ Printing /\ stack' = Printed(more, b)
  /\ UNCHANGED <<outcomes, root, format>>

LEMMA PrintedFacts ==
  ASSUME TypeOK, NEW more \in Seq(Line), NEW b \in BOOLEAN, PrintedStep(more, b)
  PROVE  /\ stack' \in Seq(Frame) /\ Len(stack') = Len(stack)
         /\ \A f \in 1 .. Len(stack) - 1 : stack'[f] = stack[f]
         /\ stack'[Len(stack)].node = Top.node
         /\ stack'[Len(stack)].next = Top.next + 1
         /\ stack'[Len(stack)].interesting = (Top.interesting \/ b)
         /\ stack'[Len(stack)].lines = Top.lines \o more
<1> DEFINE n == Len(stack)
           i == Top.interesting \/ b
           l == Top.lines \o more
           m == Top.next + 1
           new == Call(Top.node, m, i, l)
<1>1. n \in Nat /\ n >= 1 /\ n \in 1 .. n /\ stack \in Seq(Frame)
  BY StackFacts DEF TypeOK, CallsOK
<1>2. l \in Seq(Line) /\ m \in Nat \ {0} /\ i \in BOOLEAN
  <2>1. l \in Seq(Line)
    BY TopFacts, ConcatProperties
  <2>2. i \in BOOLEAN
    BY Zenon
  <2> QED BY <2>1, <2>2, TopFacts
<1>3. stack' = [stack EXCEPT ![n] = new]
  BY Zenon DEF PrintedStep, Printed
<1> HIDE DEF i, l, m, n
<1>4. new \in Frame /\ new.node = Top.node /\ new.next = m /\ new.interesting = i /\ new.lines = l
  BY <1>2, TopFacts, CallFacts
<1> HIDE DEF new
<1>5. \A k \in 1 .. n : stack'[k] = IF k = n THEN new ELSE stack[k]
  BY <1>1, <1>3, <1>4, ExceptSeq DEF n
<1>6. stack' \in Seq(Frame) /\ Len(stack') = n
  BY <1>1, <1>3, <1>4, ExceptSeq DEF n
<1>7. stack'[n] = new /\ \A f \in 1 .. n - 1 : stack'[f] = stack[f]
  BY <1>1, <1>5
<1> QED BY <1>4, <1>6, <1>7, Zenon DEF i, l, m, n

\* A call is made.
LEMMA PushFacts ==
  ASSUME TypeOK, NEW new \in Frame, stack' = Append(stack, new)
  PROVE  /\ stack' \in Seq(Frame) /\ Len(stack') = Len(stack) + 1
         /\ \A f \in 1 .. Len(stack) : stack'[f] = stack[f]
         /\ stack'[Len(stack) + 1] = new
BY StackFacts, AppendProperties DEF TypeOK, CallsOK

\* The innermost call is done, and its caller's frame changes.
LEMMA PopFacts ==
  ASSUME TypeOK, NEW new \in Frame, Len(stack) > 1,
         stack' = Append(SubSeq(stack, 1, Len(stack) - 1 - 1), new)
  PROVE  /\ stack' \in Seq(Frame) /\ Len(stack') = Len(stack) - 1
         /\ \A f \in 1 .. Len(stack) - 2 : stack'[f] = stack[f]
         /\ stack'[Len(stack) - 1] = new
<1> DEFINE n == Len(stack) - 1 - 1
           s == SubSeq(stack, 1, n)
<1>1. n \in Nat /\ n + 2 = Len(stack) /\ stack \in Seq(Frame) /\ \A f \in 1 .. n : stack[f] \in Frame
  BY StackFacts DEF TypeOK, CallsOK
<1>2. stack' = Append(s, new)
  BY DEF s, n
<1> HIDE DEF n
<1>3. s \in Seq(Frame) /\ Len(s) = n /\ \A f \in 1 .. n : s[f] = stack[f]
  BY <1>1, SubSeqProperties
<1> HIDE DEF s
<1>4. /\ Append(s, new) \in Seq(Frame) /\ Len(Append(s, new)) = n + 1
      /\ \A f \in 1 .. n : Append(s, new)[f] = s[f]
      /\ Append(s, new)[n + 1] = new
  BY <1>1, <1>3, AppendProperties
<1> QED BY <1>1, <1>2, <1>3, <1>4

--------------------------------------------------------------------------------
(***************************************************************************)
(* Calls are in order.                                                     *)
(***************************************************************************)
LEMMA PrintedCalls ==
  ASSUME TypeOK, CallsMatch, NEW more \in Seq(Line), NEW b \in BOOLEAN, PrintedStep(more, b)
  PROVE  CallsOK' /\ CallsMatch'
<1> DEFINE n == Len(stack)
<1>1. n \in Nat /\ n >= 1
  BY StackFacts
<1>2. /\ stack' \in Seq(Frame) /\ Len(stack') = n
      /\ \A f \in 1 .. n - 1 : stack'[f] = stack[f]
      /\ stack'[n].node = Top.node /\ stack'[n].next = Top.next + 1
  BY PrintedFacts
<1>3. outcomes' = outcomes /\ root' = root /\ format' = format
  BY DEF PrintedStep
<1>4. Top.next <= Len(outcomes[Top.node].details) /\ Top = stack[n]
  BY TopFacts DEF PrintedStep, Printing
<1>5. \A f \in 1 .. n : stack'[f].node = stack[f].node
  BY <1>1, <1>2, <1>4
<1>6. \A f \in 1 .. n - 1 : Within(f)' <=> Within(f)
  BY <1>2, <1>3 DEF Within
<1>7. CallsOK'
  <2>1. stack' # << >>
    BY <1>1, <1>2, EmptySeq
  <2>2. ASSUME NEW f \in 1 .. n
        PROVE  /\ stack'[f].node \in DOMAIN outcomes
               /\ stack'[f].next <= Len(outcomes[stack'[f].node].details) + 1
    <3>1. CASE f = n
      BY <3>1, <1>2, <1>4, TopFacts, GraphFacts
    <3>2. CASE f # n
      <4>1. f \in 1 .. n - 1
        BY <3>2, <1>1
      <4> QED BY <4>1, <1>2, StackFacts
    <3> QED BY <3>1, <3>2
  <2> QED BY <1>2, <1>3, <2>1, <2>2 DEF CallsOK
<1>8. CallsMatch'
  <2>1. stack'[1].node = root
    BY <1>1, <1>5 DEF CallsMatch
  <2>2. ASSUME NEW f \in 1 .. n - 1
        PROVE  IF Within(f)' THEN stack'[f + 1].node = outcomes[stack'[f].node].details[stack'[f].next]
               ELSE Flat' /\ f = 1 /\ Holder(stack[2].node)'
    <3>1. /\ f \in 1 .. n /\ f + 1 \in 1 .. n /\ stack'[f] = stack[f]
          /\ stack'[f + 1].node = stack[f + 1].node
      BY <1>1, <1>2, <1>5
    <3>2. f = 1 => stack'[2].node = stack[2].node
      BY <3>1
    <3>3. IF Within(f) THEN stack[f + 1].node = outcomes[stack[f].node].details[stack[f].next]
          ELSE Flat /\ f = 1 /\ Holder(stack[2].node)
      BY DEF CallsMatch
    <3> QED BY <1>3, <1>6, <3>1, <3>2, <3>3 DEF Flat, Holder
  <2> QED BY <1>2, <1>3, <2>1, <2>2 DEF CallsMatch
<1> QED BY <1>7, <1>8

\* A call for c.
CallStep(c, b, l) ==
  /\ stack' = Append(stack, Call(c, 1, b, l))
  /\ UNCHANGED <<outcomes, root, format>>
  /\ IF Printing THEN c = Current ELSE Flat /\ Len(stack) = 1 /\ Holder(c)

LEMMA CallStepFacts ==
  ASSUME TypeOK, NEW c \in Comparison \cap DOMAIN outcomes, NEW b \in BOOLEAN, NEW l \in Seq(Line),
         CallStep(c, b, l)
  PROVE  /\ stack' \in Seq(Frame) /\ Len(stack') = Len(stack) + 1
         /\ \A f \in 1 .. Len(stack) : stack'[f] = stack[f]
         /\ stack'[Len(stack) + 1] \in Frame
         /\ stack'[Len(stack) + 1].node = c /\ stack'[Len(stack) + 1].next = 1
         /\ stack'[Len(stack) + 1].interesting = b /\ stack'[Len(stack) + 1].lines = l
<1> DEFINE new == Call(c, 1, b, l)
<1>1. new \in Frame /\ new.node = c /\ new.next = 1 /\ new.interesting = b /\ new.lines = l
  BY CallFacts
<1>2. stack' = Append(stack, new)
  BY DEF CallStep
<1> HIDE DEF new
<1> QED BY <1>1, <1>2, PushFacts

LEMMA CallCalls ==
  ASSUME TypeOK, CallsMatch, NEW c \in Comparison \cap DOMAIN outcomes, NEW b \in BOOLEAN,
         NEW l \in Seq(Line), CallStep(c, b, l)
  PROVE  CallsOK' /\ CallsMatch'
<1> DEFINE n == Len(stack)
<1>1. n \in Nat /\ n >= 1
  BY StackFacts
<1>2. /\ stack' \in Seq(Frame) /\ Len(stack') = n + 1
      /\ \A f \in 1 .. n : stack'[f] = stack[f]
      /\ stack'[n + 1].node = c /\ stack'[n + 1].next = 1
  BY CallStepFacts
<1>3. outcomes' = outcomes /\ root' = root /\ format' = format
  BY DEF CallStep
<1>4. \A f \in 1 .. n : Within(f)' <=> Within(f)
  BY <1>2, <1>3 DEF Within
<1>5. CallsOK'
  <2>1. stack' # << >>
    BY <1>1, <1>2, EmptySeq
  <2>2. ASSUME NEW f \in 1 .. n + 1
        PROVE  /\ stack'[f].node \in DOMAIN outcomes
               /\ stack'[f].next <= Len(outcomes[stack'[f].node].details) + 1
    <3>1. CASE f = n + 1
      BY <3>1, <1>2, GraphFacts
    <3>2. CASE f # n + 1
      <4>1. f \in 1 .. n
        BY <3>2, <1>1
      <4> QED BY <4>1, <1>2, StackFacts
    <3> QED BY <3>1, <3>2
  <2> QED BY <1>2, <1>3, <2>1, <2>2 DEF CallsOK
<1>6. CallsMatch'
  <2>1. stack'[1].node = root
    BY <1>1, <1>2 DEF CallsMatch
  <2>2. ASSUME NEW f \in 1 .. n
        PROVE  IF Within(f)' THEN stack'[f + 1].node = outcomes[stack'[f].node].details[stack'[f].next]
               ELSE Flat' /\ f = 1 /\ Holder(stack[2].node)'
    <3>1. CASE f = n
      <4>1. stack'[f] = stack[f] /\ stack'[f + 1].node = c /\ (f = 1 => stack'[2].node = c)
        BY <3>1, <1>1, <1>2
      <4>2. stack[f] = Top /\ (Printing <=> Within(f))
        BY <3>1, TopFacts
      <4>3. CASE Printing
        BY <4>1, <4>2, <4>3, <1>3, <1>4 DEF CallStep, Current
      <4>4. CASE ~Printing
        BY <3>1, <4>1, <4>2, <4>4, <1>3, <1>4 DEF CallStep, Flat, Holder
      <4> QED BY <4>3, <4>4
    <3>2. CASE f # n
      <4>1. f \in 1 .. n - 1 /\ f + 1 \in 1 .. n
        BY <3>2, <1>1
      <4>2. stack'[f] = stack[f] /\ stack'[f + 1] = stack[f + 1] /\ (f = 1 => stack'[2] = stack[2])
        BY <4>1, <1>2
      <4>3. IF Within(f) THEN stack[f + 1].node = outcomes[stack[f].node].details[stack[f].next]
            ELSE Flat /\ f = 1 /\ Holder(stack[2].node)
        BY <4>1 DEF CallsMatch
      <4> QED BY <1>3, <1>4, <4>2, <4>3 DEF Flat, Holder
    <3> QED BY <3>1, <3>2
  <2> QED BY <1>2, <1>3, <2>1, <2>2 DEF CallsMatch
<1> QED BY <1>5, <1>6

\* The innermost call returns.
Caller == stack[Len(stack) - 1]

ReturnStep(b, l) ==
  /\ ~Printing /\ Len(stack) > 1
  /\ stack' = Append(SubSeq(stack, 1, Len(stack) - 1 - 1),
                     Call(Caller.node,
                          IF Caller.next <= Len(outcomes[Caller.node].details)
                          THEN Caller.next + 1 ELSE Caller.next, b, l))
  /\ UNCHANGED <<outcomes, root, format>>

LEMMA ReturnStepFacts ==
  ASSUME TypeOK, NEW b \in BOOLEAN, NEW l \in Seq(Line), ReturnStep(b, l)
  PROVE  LET m == Len(stack) - 1
         IN  /\ m \in Nat /\ m >= 1 /\ Caller = stack[m]
             /\ stack' \in Seq(Frame) /\ Len(stack') = m
             /\ \A f \in 1 .. m - 1 : stack'[f] = stack[f]
             /\ stack'[m].node = Caller.node
             /\ Within(m) => stack'[m].next = Caller.next + 1
             /\ ~Within(m) => stack'[m].next = Caller.next
             /\ stack'[m].interesting = b /\ stack'[m].lines = l
<1> DEFINE m == Len(stack) - 1
           x == IF Caller.next <= Len(outcomes[Caller.node].details)
                THEN Caller.next + 1 ELSE Caller.next
           new == Call(Caller.node, x, b, l)
<1>1. m \in Nat /\ m >= 1 /\ Caller = stack[m] /\ m \in 1 .. Len(stack)
  BY StackFacts DEF ReturnStep, Caller
<1>2. Caller.node \in Comparison /\ Caller.next \in Nat /\ Caller.next >= 1
  BY <1>1, StackFacts
<1>3. x \in Nat \ {0}
  BY <1>2
<1>4. stack' = Append(SubSeq(stack, 1, Len(stack) - 1 - 1), new)
  BY DEF ReturnStep
<1>5. /\ Within(m) => x = Caller.next + 1
      /\ ~Within(m) => x = Caller.next
  BY <1>1 DEF Within
<1> HIDE DEF x
<1>6. new \in Frame /\ new.node = Caller.node /\ new.next = x /\ new.interesting = b /\ new.lines = l
  BY <1>2, <1>3, CallFacts
<1> HIDE DEF new
<1>7. /\ stack' \in Seq(Frame) /\ Len(stack') = m
      /\ \A f \in 1 .. Len(stack) - 2 : stack'[f] = stack[f]
      /\ stack'[m] = new
  BY <1>4, <1>6, PopFacts DEF ReturnStep
<1>8. \A f \in 1 .. m - 1 : stack'[f] = stack[f]
  BY <1>1, <1>7
<1> QED BY <1>1, <1>5, <1>6, <1>7, <1>8

LEMMA ReturnCalls ==
  ASSUME TypeOK, CallsMatch, NEW b \in BOOLEAN, NEW l \in Seq(Line), ReturnStep(b, l)
  PROVE  CallsOK' /\ CallsMatch'
<1> DEFINE m == Len(stack) - 1
<1>1. /\ m \in Nat /\ m >= 1 /\ Caller = stack[m]
      /\ stack' \in Seq(Frame) /\ Len(stack') = m
      /\ \A f \in 1 .. m - 1 : stack'[f] = stack[f]
      /\ stack'[m].node = Caller.node
      /\ Within(m) => stack'[m].next = Caller.next + 1
      /\ ~Within(m) => stack'[m].next = Caller.next
  BY ReturnStepFacts
<1>2. outcomes' = outcomes /\ root' = root /\ format' = format
  BY DEF ReturnStep
<1>3. \A f \in 1 .. m : stack'[f].node = stack[f].node
  <2> SUFFICES ASSUME NEW f \in 1 .. m PROVE stack'[f].node = stack[f].node
    OBVIOUS
  <2>1. f \in 1 .. m - 1 \/ f = m
    BY <1>1
  <2> QED BY <1>1, <2>1
<1>4. CallsOK'
  <2>1. stack' # << >>
    BY <1>1, EmptySeq
  <2>2. ASSUME NEW f \in 1 .. m
        PROVE  /\ stack'[f].node \in DOMAIN outcomes
               /\ stack'[f].next <= Len(outcomes[stack'[f].node].details) + 1
    <3>1. f \in 1 .. Len(stack)
      BY <1>1, StackFacts
    <3>2. /\ stack[f].node \in DOMAIN outcomes \cap Comparison /\ stack[f].next \in Nat
          /\ stack[f].next <= Len(outcomes[stack[f].node].details) + 1
      BY <3>1, StackFacts
    <3>3. CASE f = m
      <4>1. CASE Within(m)
        BY <3>2, <3>3, <4>1, <1>1, GraphFacts DEF Within
      <4>2. CASE ~Within(m)
        BY <3>2, <3>3, <4>2, <1>1
      <4> QED BY <4>1, <4>2
    <3>4. CASE f # m
      <4>1. f \in 1 .. m - 1
        BY <3>4, <1>1
      <4> QED BY <4>1, <3>2, <1>1
    <3> QED BY <3>3, <3>4
  <2> QED BY <1>1, <1>2, <2>1, <2>2 DEF CallsOK
<1>5. CallsMatch'
  <2>1. stack'[1].node = root
    BY <1>1, <1>3 DEF CallsMatch
  <2>2. ASSUME NEW f \in 1 .. m - 1
        PROVE  IF Within(f)' THEN stack'[f + 1].node = outcomes[stack'[f].node].details[stack'[f].next]
               ELSE Flat' /\ f = 1 /\ Holder(stack[2].node)'
    <3>1. /\ f + 1 \in 1 .. m /\ stack'[f] = stack[f] /\ f \in 1 .. Len(stack) - 1
          /\ stack'[f + 1].node = stack[f + 1].node
      BY <1>1, <1>3
    <3>2. f = 1 => stack'[2].node = stack[2].node
      BY <3>1
    <3>3. IF Within(f) THEN stack[f + 1].node = outcomes[stack[f].node].details[stack[f].next]
          ELSE Flat /\ f = 1 /\ Holder(stack[2].node)
      BY <3>1 DEF CallsMatch
    <3>4. Within(f)' <=> Within(f)
      BY <1>2, <3>1 DEF Within
    <3> QED BY <1>2, <3>1, <3>2, <3>3, <3>4 DEF Flat, Holder
  <2> QED BY <1>1, <1>2, <2>1, <2>2 DEF CallsMatch
<1> QED BY <1>4, <1>5

--------------------------------------------------------------------------------
(***************************************************************************)
(* Lines are added, and moved to callers.                                  *)
(***************************************************************************)
LinesIn(s) == UNION {{s[f].lines[i] : i \in 1 .. Len(s[f].lines)} : f \in 1 .. Len(s)}

LEMMA LinesElements ==
  ASSUME NEW s, NEW x
  PROVE  x \in LinesIn(s) <=>
           \E f \in 1 .. Len(s) : \E i \in 1 .. Len(s[f].lines) : x = s[f].lines[i]
BY DEF LinesIn

LEMMA LinesNow == AllLines = LinesIn(stack) /\ AllLines' = LinesIn(stack')
BY DEF AllLines, LinesIn

LEMMA OneLineFacts ==
  ASSUME NEW c, NEW how, LineFor(c, how) \in Line
  PROVE  /\ OneLine(c, how) \in Seq(Line) /\ Len(OneLine(c, how)) = 1
         /\ OneLine(c, how)[1] = LineFor(c, how)
BY DEF OneLine

LEMMA LineForFacts ==
  ASSUME NEW c, NEW how
  PROVE  LineFor(c, how).node = c /\ LineFor(c, how).how = how
BY DEF LineFor

LEMMA DescribedFacts ==
  /\ \A c \in Comparison : Described(c) \in Line /\ Described(c).node = c /\ Described(c).how = "described"
  /\ \A c, d \in Comparison : Described(c) = Described(d) => c = d
  /\ \A x \in Line : x.how = "described" => x.node \in Comparison /\ x = Described(x.node)
  /\ \A x \in Line : x.how = "removed or added" => x.node \in OneSided
<1>1. ASSUME NEW c \in Comparison
      PROVE  Described(c) \in Line /\ Described(c).node = c /\ Described(c).how = "described"
  BY DEF Line, Described, LineFor
<1>2. \A c, d \in Comparison : Described(c) = Described(d) => c = d
  BY <1>1
<1>3. ASSUME NEW x \in Line, x.how = "described"
      PROVE  x.node \in Comparison /\ x = Described(x.node)
  BY <1>3 DEF Line, Described, LineFor
<1>4. ASSUME NEW x \in Line, x.how = "removed or added"
      PROVE  x.node \in OneSided
  BY <1>4 DEF Line
<1> QED BY <1>1, <1>2, <1>3, <1>4

\* Where the lines are after a detail was printed.
LEMMA PrintedMore ==
  ASSUME TypeOK, NEW more \in Seq(Line), NEW b \in BOOLEAN, PrintedStep(more, b)
  PROVE  /\ \A f \in 1 .. Len(stack) : \A i \in 1 .. Len(stack[f].lines) :
              i \in 1 .. Len(stack'[f].lines) /\ stack'[f].lines[i] = stack[f].lines[i]
         /\ \A f \in 1 .. Len(stack) : \A i \in 1 .. Len(stack'[f].lines) :
              \/ i \in 1 .. Len(stack[f].lines) /\ stack'[f].lines[i] = stack[f].lines[i]
              \/ /\ f = Len(stack) /\ i - Len(Top.lines) \in 1 .. Len(more)
                 /\ stack'[f].lines[i] = more[i - Len(Top.lines)]
         /\ \A i \in 1 .. Len(more) :
              /\ Len(Top.lines) + i \in 1 .. Len(stack'[Len(stack)].lines)
              /\ stack'[Len(stack)].lines[Len(Top.lines) + i] = more[i]
<1> DEFINE n == Len(stack)
           k == Len(Top.lines)
           l == Top.lines \o more
<1>1. n \in Nat /\ n >= 1 /\ Top = stack[n] /\ k \in Nat /\ Top.lines \in Seq(Line) /\ Len(more) \in Nat
  BY StackFacts, TopFacts
<1>2. /\ \A f \in 1 .. n - 1 : stack'[f] = stack[f]
      /\ stack'[n].lines = l
  BY PrintedFacts
<1>3. /\ Len(l) = k + Len(more)
      /\ \A i \in 1 .. k + Len(more) : l[i] = IF i <= k THEN Top.lines[i] ELSE more[i - k]
  BY <1>1, ConcatProperties
<1> HIDE DEF n, l, k
<1>4. \A i \in 1 .. k : stack'[n].lines[i] = Top.lines[i] /\ i \in 1 .. Len(stack'[n].lines)
  <2> SUFFICES ASSUME NEW i \in 1 .. k PROVE l[i] = Top.lines[i] /\ i \in 1 .. Len(l)
    BY <1>2
  <2>1. i \in 1 .. k + Len(more) /\ i <= k
    BY <1>1
  <2> QED BY <2>1, <1>3
<1>5. ASSUME NEW i \in 1 .. Len(more)
      PROVE  k + i \in 1 .. Len(stack'[n].lines) /\ stack'[n].lines[k + i] = more[i]
  <2>1. k + i \in 1 .. k + Len(more) /\ ~(k + i <= k) /\ k + i - k = i
    BY <1>1
  <2>2. l[k + i] = more[i]
    BY <2>1, <1>1, <1>3
  <2>3. k + i \in 1 .. Len(l)
    BY <2>1, <1>3
  <2> QED BY <2>2, <2>3, <1>2
<1>6. ASSUME NEW f \in 1 .. n, NEW i \in 1 .. Len(stack[f].lines)
      PROVE  i \in 1 .. Len(stack'[f].lines) /\ stack'[f].lines[i] = stack[f].lines[i]
  <2>1. CASE f = n
    BY <2>1, <1>1, <1>4 DEF k
  <2>2. CASE f # n
    BY <2>2, <1>1, <1>2
  <2> QED BY <2>1, <2>2
<1>7. ASSUME NEW f \in 1 .. n, NEW i \in 1 .. Len(stack'[f].lines)
      PROVE  \/ i \in 1 .. Len(stack[f].lines) /\ stack'[f].lines[i] = stack[f].lines[i]
             \/ f = n /\ i - k \in 1 .. Len(more) /\ stack'[f].lines[i] = more[i - k]
  <2>1. CASE f = n
    <3>1. i \in 1 .. k \/ (i - k \in 1 .. Len(more) /\ ~(i <= k))
      BY <1>1, <1>2, <1>3, <2>1
    <3>2. i \in 1 .. k => i \in 1 .. Len(stack[n].lines) /\ stack'[n].lines[i] = stack[n].lines[i]
      BY <1>1, <1>4 DEF k
    <3>3. i \in 1 .. k + Len(more)
      BY <1>2, <1>3, <2>1
    <3> QED BY <1>2, <1>3, <2>1, <3>1, <3>2, <3>3
  <2>2. CASE f # n
    <3>1. stack'[f] = stack[f]
      BY <2>2, <1>1, <1>2
    <3> QED BY <3>1
  <2> QED BY <2>1, <2>2
<1> QED BY <1>5, <1>6, <1>7 DEF n, k

LEMMA PrintedLines ==
  ASSUME TypeOK, NEW c, NEW how, LineFor(c, how) \in Line, NEW b \in BOOLEAN,
         PrintedStep(OneLine(c, how), b)
  PROVE  /\ \A f \in 1 .. Len(stack) : \A i \in 1 .. Len(stack[f].lines) :
              i \in 1 .. Len(stack'[f].lines) /\ stack'[f].lines[i] = stack[f].lines[i]
         /\ \A f \in 1 .. Len(stack) : \A i \in 1 .. Len(stack'[f].lines) :
              \/ i \in 1 .. Len(stack[f].lines) /\ stack'[f].lines[i] = stack[f].lines[i]
              \/ /\ f = Len(stack) /\ i = Len(Top.lines) + 1
                 /\ stack'[f].lines[i] = LineFor(c, how)
         /\ Len(Top.lines) + 1 \in 1 .. Len(stack'[Len(stack)].lines)
         /\ stack'[Len(stack)].lines[Len(Top.lines) + 1] = LineFor(c, how)
<1> DEFINE more == OneLine(c, how)
           k == Len(Top.lines)
           line == LineFor(c, how)
<1>1. more \in Seq(Line) /\ Len(more) = 1 /\ more[1] = line
  BY OneLineFacts
<1>2. PrintedStep(more, b)
  OBVIOUS
<1>3. k \in Nat
  BY TopFacts
<1> HIDE DEF more, line, k
<1>4. /\ \A f \in 1 .. Len(stack) : \A i \in 1 .. Len(stack[f].lines) :
           i \in 1 .. Len(stack'[f].lines) /\ stack'[f].lines[i] = stack[f].lines[i]
      /\ \A f \in 1 .. Len(stack) : \A i \in 1 .. Len(stack'[f].lines) :
           \/ i \in 1 .. Len(stack[f].lines) /\ stack'[f].lines[i] = stack[f].lines[i]
           \/ f = Len(stack) /\ i - k \in 1 .. Len(more) /\ stack'[f].lines[i] = more[i - k]
      /\ \A i \in 1 .. Len(more) :
           /\ k + i \in 1 .. Len(stack'[Len(stack)].lines)
           /\ stack'[Len(stack)].lines[k + i] = more[i]
  BY <1>1, <1>2, PrintedMore DEF k
<1>5. \A i \in Int : i - k \in 1 .. Len(more) => i = k + 1 /\ i - k = 1
  BY <1>1, <1>3
<1>6. k + 1 \in 1 .. Len(stack'[Len(stack)].lines) /\ stack'[Len(stack)].lines[k + 1] = line
  BY <1>1, <1>4
<1>7. \A f \in 1 .. Len(stack) : \A i \in 1 .. Len(stack'[f].lines) :
        \/ i \in 1 .. Len(stack[f].lines) /\ stack'[f].lines[i] = stack[f].lines[i]
        \/ f = Len(stack) /\ i = k + 1 /\ stack'[f].lines[i] = line
  BY SMTT(30), <1>1, <1>4, <1>5
<1> QED BY <1>4, <1>6, <1>7 DEF line, k

LEMMA PrintedAllLines ==
  ASSUME TypeOK, NEW c, NEW how, LineFor(c, how) \in Line, NEW b \in BOOLEAN,
         PrintedStep(OneLine(c, how), b)
  PROVE  \A x : x \in AllLines' <=> x \in AllLines \/ x = LineFor(c, how)
<1> DEFINE line == LineFor(c, how)
<1> HIDE DEF line
<1> SUFFICES ASSUME NEW x PROVE x \in LinesIn(stack') <=> x \in LinesIn(stack) \/ x = line
  BY LinesNow DEF line
<1>1. Len(stack') = Len(stack) /\ Len(stack) \in 1 .. Len(stack)
  BY OneLineFacts, PrintedFacts, StackFacts
<1>2. /\ \A f \in 1 .. Len(stack) : \A i \in 1 .. Len(stack[f].lines) :
           i \in 1 .. Len(stack'[f].lines) /\ stack'[f].lines[i] = stack[f].lines[i]
      /\ \A f \in 1 .. Len(stack) : \A i \in 1 .. Len(stack'[f].lines) :
           \/ i \in 1 .. Len(stack[f].lines) /\ stack'[f].lines[i] = stack[f].lines[i]
           \/ stack'[f].lines[i] = line
      /\ Len(Top.lines) + 1 \in 1 .. Len(stack'[Len(stack)].lines)
      /\ stack'[Len(stack)].lines[Len(Top.lines) + 1] = line
  BY PrintedLines DEF line
<1>3. ASSUME x \in LinesIn(stack') PROVE x \in LinesIn(stack) \/ x = line
  <2>1. PICK f \in 1 .. Len(stack) : \E i \in 1 .. Len(stack'[f].lines) : x = stack'[f].lines[i]
    BY <1>1, <1>3, LinesElements
  <2>2. PICK i \in 1 .. Len(stack'[f].lines) : x = stack'[f].lines[i]
    BY <2>1
  <2>3. CASE i \in 1 .. Len(stack[f].lines) /\ stack'[f].lines[i] = stack[f].lines[i]
    BY <2>2, <2>3, LinesElements
  <2> QED BY <1>2, <2>2, <2>3
<1>4. ASSUME x \in LinesIn(stack) PROVE x \in LinesIn(stack')
  <2>1. PICK f \in 1 .. Len(stack) : \E i \in 1 .. Len(stack[f].lines) : x = stack[f].lines[i]
    BY <1>4, LinesElements
  <2>2. PICK i \in 1 .. Len(stack[f].lines) : x = stack[f].lines[i]
    BY <2>1
  <2>3. i \in 1 .. Len(stack'[f].lines) /\ x = stack'[f].lines[i]
    BY <1>2, <2>2
  <2> QED BY <1>1, <2>3, LinesElements
<1>5. line \in LinesIn(stack')
  BY <1>1, <1>2, LinesElements
<1> QED BY <1>3, <1>4, <1>5

\* Where they are after a call that begins with a line.
LEMMA CallAllLines ==
  ASSUME TypeOK, NEW c \in Comparison \cap DOMAIN outcomes, NEW b \in BOOLEAN,
         CallStep(c, b, OneLine(c, "described"))
  PROVE  /\ \A x : x \in AllLines' <=> x \in AllLines \/ x = Described(c)
         /\ Len(stack'[Len(stack) + 1].lines) = 1
         /\ stack'[Len(stack) + 1].lines[1] = Described(c)
<1> DEFINE n == Len(stack)
           l == OneLine(c, "described")
<1>1. l \in Seq(Line) /\ Len(l) = 1 /\ l[1] = Described(c)
  BY OneLineFacts, DescribedFacts DEF Described
<1> HIDE DEF l
<1>2. /\ n \in Nat /\ n >= 1 /\ Len(stack') = n + 1
      /\ \A f \in 1 .. n : stack'[f] = stack[f]
      /\ stack'[n + 1].lines = l
  BY <1>1, CallStepFacts, StackFacts DEF l
<1>3. ASSUME NEW x PROVE x \in LinesIn(stack') <=> x \in LinesIn(stack) \/ x = Described(c)
  <2>1. ASSUME x \in LinesIn(stack') PROVE x \in LinesIn(stack) \/ x = Described(c)
    <3>1. PICK f \in 1 .. n + 1 : \E i \in 1 .. Len(stack'[f].lines) : x = stack'[f].lines[i]
      BY <2>1, <1>2, LinesElements
    <3>2. CASE f = n + 1
      <4>1. PICK i \in 1 .. Len(stack'[n + 1].lines) : x = stack'[n + 1].lines[i]
        BY <3>1, <3>2
      <4>2. Len(stack'[n + 1].lines) = 1
        BY <1>1, <1>2
      <4>3. i = 1
        BY <4>2
      <4> QED BY <4>1, <4>3, <1>1, <1>2
    <3>3. CASE f # n + 1
      <4>1. f \in 1 .. n
        BY <3>3, <1>2
      <4> QED BY <3>1, <4>1, <1>2, LinesElements
    <3> QED BY <3>2, <3>3
  <2>2. ASSUME x \in LinesIn(stack) PROVE x \in LinesIn(stack')
    <3>1. PICK f \in 1 .. n : \E i \in 1 .. Len(stack[f].lines) : x = stack[f].lines[i]
      BY <2>2, <1>2, LinesElements
    <3>2. f \in 1 .. n + 1 /\ stack'[f] = stack[f]
      BY <1>2
    <3> QED BY <3>1, <3>2, <1>2, LinesElements
  <2>3. Described(c) \in LinesIn(stack')
    <3>1. n + 1 \in 1 .. n + 1 /\ 1 \in 1 .. Len(stack'[n + 1].lines) /\ stack'[n + 1].lines[1] = Described(c)
      BY <1>1, <1>2
    <3> QED BY <3>1, <1>2, LinesElements
  <2> QED BY <2>1, <2>2, <2>3
<1> QED BY <1>1, <1>2, <1>3, LinesNow

\* Where they are after a return that keeps some: where they were, or in the caller's
\* frame after what was there.
LEMMA ReturnMore ==
  ASSUME TypeOK, NEW b \in BOOLEAN, NEW s \in Seq(Line), ReturnStep(b, Caller.lines \o s)
  PROVE  LET m == Len(stack) - 1
             k == Len(Caller.lines)
         IN  /\ m \in Nat /\ m >= 1 /\ Caller = stack[m] /\ Len(stack) = m + 1 /\ Len(stack') = m
             /\ k \in Nat /\ Top = stack[m + 1]
             /\ \A f \in 1 .. m - 1 : stack'[f] = stack[f]
             /\ Len(stack'[m].lines) = k + Len(s)
             /\ \A i \in 1 .. k : stack'[m].lines[i] = Caller.lines[i]
             /\ \A i \in 1 .. Len(s) : stack'[m].lines[k + i] = s[i]
             /\ \A i \in 1 .. Len(stack'[m].lines) :
                  \/ i \in 1 .. k /\ stack'[m].lines[i] = Caller.lines[i]
                  \/ i - k \in 1 .. Len(s) /\ stack'[m].lines[i] = s[i - k]
<1> DEFINE m == Len(stack) - 1
           k == Len(Caller.lines)
           l == Caller.lines \o s
<1>1. m \in Nat /\ m >= 1 /\ Len(stack) = m + 1 /\ m \in 1 .. Len(stack) /\ Caller = stack[m] /\ Top = stack[m + 1]
  BY StackFacts, TopFacts DEF ReturnStep, Caller
<1>2. Caller.lines \in Seq(Line) /\ s \in Seq(Line) /\ k \in Nat /\ Len(s) \in Nat
  BY <1>1, StackFacts
<1>3. /\ l \in Seq(Line) /\ Len(l) = k + Len(s)
      /\ \A i \in 1 .. k + Len(s) : l[i] = IF i <= k THEN Caller.lines[i] ELSE s[i - k]
  BY <1>2, ConcatProperties
<1>4. ReturnStep(b, l)
  OBVIOUS
<1> HIDE DEF l
<1>5. Len(stack') = m /\ stack'[m].lines = l /\ \A f \in 1 .. m - 1 : stack'[f] = stack[f]
  BY <1>3, <1>4, ReturnStepFacts
<1>6. \A i \in 1 .. k : stack'[m].lines[i] = Caller.lines[i]
  <2> SUFFICES ASSUME NEW i \in 1 .. k PROVE l[i] = Caller.lines[i]
    BY <1>5
  <2>1. i \in 1 .. k + Len(s) /\ i <= k
    BY <1>2
  <2> QED BY <2>1, <1>3
<1>7. \A i \in 1 .. Len(s) : stack'[m].lines[k + i] = s[i]
  <2> SUFFICES ASSUME NEW i \in 1 .. Len(s) PROVE l[k + i] = s[i]
    BY <1>5
  <2>1. k + i \in 1 .. k + Len(s) /\ ~(k + i <= k) /\ k + i - k = i
    BY <1>2
  <2> QED BY <2>1, <1>3
<1>8. \A i \in 1 .. Len(stack'[m].lines) :
        \/ i \in 1 .. k /\ stack'[m].lines[i] = Caller.lines[i]
        \/ i - k \in 1 .. Len(s) /\ stack'[m].lines[i] = s[i - k]
  BY <1>2, <1>3, <1>5
<1> QED BY <1>1, <1>2, <1>3, <1>5, <1>6, <1>7, <1>8

LEMMA ReturnLines ==
  ASSUME TypeOK, NEW b \in BOOLEAN, ReturnStep(b, Caller.lines \o Top.lines)
  PROVE  LET m == Len(stack) - 1
             k == Len(Caller.lines)
         IN  /\ m \in Nat /\ m >= 1 /\ Caller = stack[m] /\ Len(stack) = m + 1 /\ Len(stack') = m
             /\ k \in Nat /\ Top = stack[m + 1]
             /\ \A f \in 1 .. m - 1 : stack'[f] = stack[f]
             /\ Len(stack'[m].lines) = k + Len(Top.lines)
             /\ \A i \in 1 .. k : stack'[m].lines[i] = Caller.lines[i]
             /\ \A i \in 1 .. Len(Top.lines) : stack'[m].lines[k + i] = Top.lines[i]
             /\ \A i \in 1 .. Len(stack'[m].lines) :
                  \/ i \in 1 .. k /\ stack'[m].lines[i] = Caller.lines[i]
                  \/ i - k \in 1 .. Len(Top.lines) /\ stack'[m].lines[i] = Top.lines[i - k]
<1> DEFINE s == Top.lines
<1>1. s \in Seq(Line) /\ ReturnStep(b, Caller.lines \o s)
  BY TopFacts
<1> HIDE DEF s
<1> QED BY <1>1, ReturnMore DEF s

LEMMA ReturnAllLines ==
  ASSUME TypeOK, NEW b \in BOOLEAN, ReturnStep(b, Caller.lines \o Top.lines)
  PROVE  \A x : x \in AllLines' <=> x \in AllLines
<1> SUFFICES ASSUME NEW x PROVE x \in LinesIn(stack') <=> x \in LinesIn(stack)
  BY LinesNow
<1> DEFINE m == Len(stack) - 1
           k == Len(Caller.lines)
<1>1. /\ m \in Nat /\ m >= 1 /\ Caller = stack[m] /\ Len(stack) = m + 1 /\ Len(stack') = m
      /\ k \in Nat /\ Top = stack[m + 1] /\ Len(Top.lines) \in Nat
      /\ \A f \in 1 .. m - 1 : stack'[f] = stack[f]
      /\ Len(stack'[m].lines) = k + Len(Top.lines)
      /\ \A i \in 1 .. k : stack'[m].lines[i] = Caller.lines[i]
      /\ \A i \in 1 .. Len(Top.lines) : stack'[m].lines[k + i] = Top.lines[i]
      /\ \A i \in 1 .. Len(stack'[m].lines) :
           \/ i \in 1 .. k /\ stack'[m].lines[i] = Caller.lines[i]
           \/ i - k \in 1 .. Len(Top.lines) /\ stack'[m].lines[i] = Top.lines[i - k]
  BY ReturnLines, TopFacts
<1> HIDE DEF m, k
<1>2. ASSUME NEW f \in 1 .. m, NEW i \in 1 .. Len(stack'[f].lines), x = stack'[f].lines[i]
      PROVE  x \in LinesIn(stack)
  <2>1. CASE f = m
    <3>1. CASE i \in 1 .. k /\ stack'[m].lines[i] = Caller.lines[i]
      <4>1. m \in 1 .. Len(stack) /\ i \in 1 .. Len(stack[m].lines) /\ x = stack[m].lines[i]
        BY <1>1, <1>2, <2>1, <3>1 DEF k
      <4> QED BY <4>1, LinesElements
    <3>2. CASE i - k \in 1 .. Len(Top.lines) /\ stack'[m].lines[i] = Top.lines[i - k]
      <4>1. m + 1 \in 1 .. Len(stack) /\ i - k \in 1 .. Len(stack[m + 1].lines) /\ x = stack[m + 1].lines[i - k]
        BY <1>1, <1>2, <2>1, <3>2
      <4> QED BY <4>1, LinesElements
    <3> QED BY <1>1, <2>1, <3>1, <3>2
  <2>2. CASE f # m
    <3>1. f \in 1 .. m - 1 /\ f \in 1 .. Len(stack)
      BY <2>2, <1>1
    <3> QED BY <3>1, <1>1, <1>2, LinesElements
  <2> QED BY <2>1, <2>2
<1>3. ASSUME NEW f \in 1 .. m + 1, NEW i \in 1 .. Len(stack[f].lines), x = stack[f].lines[i]
      PROVE  x \in LinesIn(stack')
  <2>1. CASE f = m
    <3>1. i \in 1 .. k /\ x = Caller.lines[i]
      BY <1>1, <1>3, <2>1 DEF k
    <3>2. m \in 1 .. Len(stack') /\ i \in 1 .. Len(stack'[m].lines) /\ x = stack'[m].lines[i]
      BY <1>1, <3>1
    <3> QED BY <3>2, LinesElements
  <2>2. CASE f = m + 1
    <3>1. m \in 1 .. Len(stack') /\ k + i \in 1 .. Len(stack'[m].lines) /\ x = stack'[m].lines[k + i]
      BY <1>1, <1>3, <2>2
    <3> QED BY <3>1, LinesElements
  <2>3. CASE f # m /\ f # m + 1
    <3>1. f \in 1 .. m - 1 /\ f \in 1 .. m
      BY <2>3, <1>1
    <3>2. f \in 1 .. Len(stack') /\ i \in 1 .. Len(stack'[f].lines) /\ x = stack'[f].lines[i]
      BY <3>1, <1>1, <1>3
    <3> QED BY <3>2, LinesElements
  <2> QED BY <2>1, <2>2, <2>3
<1>4. ASSUME x \in LinesIn(stack') PROVE x \in LinesIn(stack)
  <2>1. PICK f \in 1 .. Len(stack') : \E i \in 1 .. Len(stack'[f].lines) : x = stack'[f].lines[i]
    BY <1>4, LinesElements
  <2> QED BY <1>1, <1>2, <2>1
<1>5. ASSUME x \in LinesIn(stack) PROVE x \in LinesIn(stack')
  <2>1. PICK f \in 1 .. Len(stack) : \E i \in 1 .. Len(stack[f].lines) : x = stack[f].lines[i]
    BY <1>5, LinesElements
  <2> QED BY <1>1, <1>3, <2>1
<1> QED BY <1>4, <1>5

--------------------------------------------------------------------------------
(***************************************************************************)
(* Which calls are active.                                                 *)
(***************************************************************************)
LEMMA PrintedActive ==
  ASSUME TypeOK, NEW more \in Seq(Line), NEW b \in BOOLEAN, PrintedStep(more, b)
  PROVE  Active' = Active /\ \A f \in 1 .. Len(stack) : stack'[f].node = stack[f].node
<1> DEFINE n == Len(stack)
<1>1. n \in Nat /\ n >= 1 /\ Len(stack') = n
  BY PrintedFacts, StackFacts
<1>2. \A f \in 1 .. n : stack'[f].node = stack[f].node
  BY <1>1, PrintedFacts, TopFacts
<1> QED BY <1>1, <1>2 DEF Active

LEMMA CallActive ==
  ASSUME TypeOK, NEW c \in Comparison \cap DOMAIN outcomes, NEW b \in BOOLEAN, NEW l \in Seq(Line),
         CallStep(c, b, l)
  PROVE  \A x : x \in Active' <=> x \in Active \/ x = c
<1> DEFINE n == Len(stack)
<1>1. /\ n \in Nat /\ n >= 1 /\ Len(stack') = n + 1
      /\ \A f \in 1 .. n : stack'[f] = stack[f]
      /\ stack'[n + 1].node = c
  BY CallStepFacts, StackFacts
<1> SUFFICES ASSUME NEW x PROVE x \in Active' <=> x \in Active \/ x = c
  OBVIOUS
<1>2. x \in Active' <=> \E f \in 2 .. n + 1 : x = stack'[f].node
  BY <1>1 DEF Active
<1>3. x \in Active <=> \E f \in 2 .. n : x = stack[f].node
  BY DEF Active
<1>4. n + 1 \in 2 .. n + 1 /\ \A f \in 2 .. n : f \in 2 .. n + 1 /\ f \in 1 .. n
  BY <1>1
<1>5. \A f \in 2 .. n + 1 : f = n + 1 \/ f \in 2 .. n
  BY <1>1
<1> QED BY <1>1, <1>2, <1>3, <1>4, <1>5

LEMMA ReturnActive ==
  ASSUME TypeOK, NEW b \in BOOLEAN, NEW l \in Seq(Line), ReturnStep(b, l)
  PROVE  /\ \A x : x \in Active <=> x \in Active' \/ x = Top.node
         /\ \A x : x \in Active' <=> \E f \in 2 .. Len(stack) - 1 : x = stack[f].node
         /\ \A f \in 1 .. Len(stack) - 1 : stack'[f].node = stack[f].node
<1> DEFINE m == Len(stack) - 1
<1>1. /\ m \in Nat /\ m >= 1 /\ Len(stack) = m + 1 /\ Len(stack') = m /\ Top = stack[m + 1]
      /\ \A f \in 1 .. m - 1 : stack'[f] = stack[f]
      /\ stack'[m].node = stack[m].node
  BY ReturnStepFacts, StackFacts, TopFacts
<1> HIDE DEF m
<1>2. ASSUME NEW f \in 1 .. m PROVE stack'[f].node = stack[f].node
  <2>1. f \in 1 .. m - 1 \/ f = m
    BY <1>1
  <2> QED BY <1>1, <2>1
<1>3. \A x : x \in Active' <=> \E f \in 2 .. m : x = stack[f].node
  <2>1. \A x : x \in Active' <=> \E f \in 2 .. Len(stack') : x = stack'[f].node
    BY DEF Active
  <2>2. Len(stack') = m /\ \A f \in 2 .. m : stack'[f].node = stack[f].node
    BY <1>1, <1>2
  <2> QED BY <2>1, <2>2
<1>4. \A x : x \in Active <=> \E f \in 2 .. m + 1 : x = stack[f].node
  BY <1>1 DEF Active
<1>5. m + 1 \in 2 .. m + 1 /\ \A f : f \in 2 .. m + 1 <=> f \in 2 .. m \/ f = m + 1
  BY <1>1
<1>6. \A x : x \in Active <=> x \in Active' \/ x = Top.node
  BY <1>1, <1>3, <1>4, <1>5
<1> QED BY <1>2, <1>3, <1>6 DEF m

--------------------------------------------------------------------------------
(***************************************************************************)
(* The plain report.                                                       *)
(***************************************************************************)
\* A line other than a description.
Mention(c, how) ==
  /\ LineFor(c, how) \in Line
  /\ LineFor(c, how).how # "described" /\ LineFor(c, how).how # "line not ended"

LEMMA MentionFacts ==
  ASSUME NEW c, NEW how, Mention(c, how)
  PROVE  /\ LineFor(c, how) \in Line /\ LineFor(c, how).how # "line not ended"
         /\ \A e \in Comparison : LineFor(c, how) # Described(e)
BY DescribedFacts DEF Mention

LEMMA MentionLines ==
  ASSUME TypeOK, NEW c, NEW how, Mention(c, how), NEW b \in BOOLEAN, PrintedStep(OneLine(c, how), b)
  PROVE  \A f \in 1 .. Len(stack) : \A i \in 1 .. Len(stack'[f].lines) : \A e \in Comparison :
           stack'[f].lines[i] = Described(e) =>
             i \in 1 .. Len(stack[f].lines) /\ stack[f].lines[i] = Described(e)
<1>1. LineFor(c, how) \in Line /\ \A e \in Comparison : LineFor(c, how) # Described(e)
  BY MentionFacts
<1>2. \A f \in 1 .. Len(stack) : \A i \in 1 .. Len(stack'[f].lines) :
        \/ i \in 1 .. Len(stack[f].lines) /\ stack'[f].lines[i] = stack[f].lines[i]
        \/ stack'[f].lines[i] = LineFor(c, how)
  BY <1>1, PrintedLines
<1> QED BY <1>1, <1>2

LEMMA DealtMore ==
  ASSUME NEW d, NEW S, NEW T, S \subseteq T, Dealt(d, S)
  PROVE  Dealt(d, T)
BY DEF Dealt

\* A reference, a removal or addition, or a difference of the comparison itself.
LEMMA PlainPrinted ==
  ASSUME TypeOK, CallsMatch, PlainSoFar, format = "plain",
         NEW c, NEW how, Mention(c, how),
         NEW b \in BOOLEAN, PrintedStep(OneLine(c, how), b),
         seen' = seen, todo' = todo,
         NEW d, d = Current, Dealt(d, AllLines')
  PROVE  PlainSoFar'
<1> DEFINE n == Len(stack)
           line == LineFor(c, how)
           more == OneLine(c, how)
<1> HIDE DEF line, more
<1>0. line \in Line /\ line.how # "line not ended" /\ \A e \in Comparison : line # Described(e)
  BY MentionFacts DEF line
<1>6. more \in Seq(Line)
  BY OneLineFacts, MentionFacts DEF more
<1>7. PrintedStep(more, b)
  BY DEF more
<1>1. n \in Nat /\ n >= 1 /\ Len(stack') = n /\ outcomes' = outcomes /\ Top = stack[n]
  BY <1>6, <1>7, PrintedFacts, StackFacts, TopFacts DEF PrintedStep
<1>2. /\ \A f \in 1 .. n : stack'[f].node = stack[f].node
      /\ \A f \in 1 .. n - 1 : stack'[f] = stack[f]
      /\ stack'[n].next = Top.next + 1
  BY <1>1, <1>6, <1>7, PrintedFacts
<1>3. Active' = Active
  BY <1>1, <1>2 DEF Active
<1>4. \A x : x \in AllLines' <=> x \in AllLines \/ x = line
  BY PrintedAllLines, MentionFacts DEF line
<1>5. AllLines \subseteq AllLines'
  BY <1>4
<1>8. SeenSoFar'
  BY <1>1, <1>3, <1>5 DEF SeenSoFar, PlainSoFar, Holder, Described
<1>9. DescribedOnce'
  <2>1. \A f \in 1 .. n : \A i \in 1 .. Len(stack'[f].lines) : \A e \in Comparison :
          stack'[f].lines[i] = Described(e) =>
            i \in 1 .. Len(stack[f].lines) /\ stack[f].lines[i] = Described(e)
    BY MentionLines
  <2>2. ASSUME NEW f \in 1 .. n, NEW i \in 1 .. Len(stack'[f].lines), NEW e \in Comparison,
               stack'[f].lines[i] = Described(e), Holder(e)
        PROVE  e \in DOMAIN seen /\ \A g \in 1 .. n : \A j \in 1 .. Len(stack'[g].lines) :
                                      stack'[g].lines[j] = Described(e) => g = f /\ j = i
    <3>1. e \in DOMAIN seen /\ OnlyAt(e, f, i)
      BY <2>1, <2>2 DEF DescribedOnce, PlainSoFar
    <3> QED BY <3>1, <2>1 DEF OnlyAt
  <2> QED BY <1>1, <2>2 DEF DescribedOnce, OnlyAt, Holder, Described
<1>10. AllEnded'
  BY <1>4, <1>0 DEF AllEnded, PlainSoFar
<1>11. CallsDealt'
  <2> SUFFICES ASSUME NEW f \in 1 .. n, NEW i \in 1 .. stack'[f].next - 1
               PROVE  Dealt(outcomes[stack[f].node].details[i], AllLines')
    BY <1>1, <1>2 DEF CallsDealt
  <2>1. CASE i \in 1 .. stack[f].next - 1
    BY <2>1, <1>5, DealtMore DEF CallsDealt, PlainSoFar
  <2>2. CASE i \notin 1 .. stack[f].next - 1
    <3>1. f = n
      BY <2>2, <1>1, <1>2
    <3>2. i = Top.next
      BY <2>2, <3>1, <1>1, <1>2, TopFacts
    <3>3. outcomes[stack[f].node].details[i] = d
      BY <3>1, <3>2, <1>1 DEF Current
    <3> QED BY <3>3
  <2> QED BY <2>1, <2>2
<1>12. DescribedDealt'
  BY <1>1, <1>3, <1>4, <1>5, <1>0, DealtMore DEF DescribedDealt, PlainSoFar
<1>13. todo' = << >>
  BY DEF PlainSoFar
<1> QED BY <1>8, <1>9, <1>10, <1>11, <1>12, <1>13 DEF PlainSoFar

\* A comparison is described: one that holds differences is met for the first time.
LEMMA PlainCalled ==
  ASSUME TypeOK, CallsMatch, PlainSoFar, format = "plain",
         NEW c \in Comparison \cap DOMAIN outcomes, NEW b \in BOOLEAN,
         CallStep(c, b, OneLine(c, "described")), todo' = todo,
         \/ ~Holder(c) /\ seen' = seen
         \/ Holder(c) /\ c \notin DOMAIN seen /\ seen' = WithSeen(c, FALSE)
  PROVE  PlainSoFar'
<1> DEFINE n == Len(stack)
           l == OneLine(c, "described")
<1>1. l \in Seq(Line)
  BY OneLineFacts, DescribedFacts DEF Described
<1> HIDE DEF l
<1>2. /\ n \in Nat /\ n >= 1 /\ Len(stack') = n + 1 /\ outcomes' = outcomes
      /\ \A f \in 1 .. n : stack'[f] = stack[f]
      /\ stack'[n + 1].node = c /\ stack'[n + 1].next = 1
  BY <1>1, CallStepFacts, StackFacts DEF CallStep, l
<1>3. /\ \A x : x \in AllLines' <=> x \in AllLines \/ x = Described(c)
      /\ Len(stack'[n + 1].lines) = 1 /\ stack'[n + 1].lines[1] = Described(c)
  BY CallAllLines
<1>4. AllLines \subseteq AllLines'
  BY <1>3
<1>5. Active' = Active \cup {c}
  BY <1>1, CallActive DEF l
<1>6. /\ DOMAIN seen' = IF Holder(c) THEN DOMAIN seen \cup {c} ELSE DOMAIN seen
      /\ \A d \in DOMAIN seen : d # c /\ seen'[d] = seen[d]
      /\ Holder(c) => c \notin DOMAIN seen /\ seen'[c] = FALSE
  <2>1. CASE ~Holder(c)
    BY <2>1 DEF PlainSoFar, SeenSoFar
  <2>2. CASE Holder(c)
    BY <2>2 DEF WithSeen
  <2> QED BY <2>1, <2>2
<1>7. SeenSoFar'
  <2> SUFFICES ASSUME NEW d \in DOMAIN seen'
               PROVE  /\ Holder(d)
                      /\ Described(d) \in AllLines'
                      /\ seen'[d] <=> d \notin Active'
    BY <1>2 DEF SeenSoFar, Holder, Described
  <2>1. CASE d = c
    BY <2>1, <1>3, <1>5, <1>6
  <2>2. CASE d # c
    <3>1. d \in DOMAIN seen /\ seen'[d] = seen[d]
      BY <2>2, <1>6
    <3>2. Holder(d) /\ Described(d) \in AllLines /\ (seen[d] <=> d \notin Active)
      BY <3>1 DEF PlainSoFar, SeenSoFar
    <3> QED BY <2>2, <3>1, <3>2, <1>4, <1>5
  <2> QED BY <2>1, <2>2
<1>8. DescribedOnce'
  <2> SUFFICES ASSUME NEW f \in 1 .. n + 1, NEW i \in 1 .. Len(stack'[f].lines), NEW e \in Comparison,
                      stack'[f].lines[i] = Described(e), Holder(e)
               PROVE  /\ e \in DOMAIN seen'
                      /\ \A g \in 1 .. n + 1 : \A j \in 1 .. Len(stack'[g].lines) :
                           stack'[g].lines[j] = Described(e) => g = f /\ j = i
    BY <1>2, SMTT(60) DEF DescribedOnce, OnlyAt, Holder
  <2>1. ASSUME NEW g \in 1 .. n, NEW j \in 1 .. Len(stack[g].lines), stack[g].lines[j] = Described(e)
        PROVE  e \in DOMAIN seen /\ OnlyAt(e, g, j)
    BY <2>1 DEF DescribedOnce, PlainSoFar
  <2>2. CASE e = c
    <3>1. \A g \in 1 .. n : \A j \in 1 .. Len(stack'[g].lines) : stack'[g].lines[j] # Described(e)
      BY <2>1, <2>2, <1>2, <1>6
    <3>2. \A g \in 1 .. n + 1 : \A j \in 1 .. Len(stack'[g].lines) :
            stack'[g].lines[j] = Described(e) => g = n + 1 /\ j = 1
      <4> SUFFICES ASSUME NEW g \in 1 .. n + 1, NEW j \in 1 .. Len(stack'[g].lines),
                          stack'[g].lines[j] = Described(e)
                   PROVE  g = n + 1 /\ j = 1
        OBVIOUS
      <4>1. g = n + 1
        BY <3>1, <1>2
      <4>2. Len(stack'[g].lines) = 1
        BY <4>1, <1>3
      <4> QED BY <4>1, <4>2
    <3> QED BY <2>2, <3>2, <1>6
  <2>3. CASE e # c
    <3>1. \A g \in 1 .. n + 1 : \A j \in 1 .. Len(stack'[g].lines) :
            stack'[g].lines[j] = Described(e) => g \in 1 .. n
      <4> SUFFICES ASSUME NEW g \in 1 .. n + 1, NEW j \in 1 .. Len(stack'[g].lines),
                          stack'[g].lines[j] = Described(e), g = n + 1
                   PROVE  FALSE
        BY <1>2
      <4>1. Len(stack'[g].lines) = 1
        BY <1>3
      <4>2. j = 1
        BY <4>1
      <4> QED BY <4>2, <2>3, <1>3, DescribedFacts
    <3>2. f \in 1 .. n /\ stack'[f] = stack[f]
      BY <3>1, <1>2
    <3>3. e \in DOMAIN seen /\ OnlyAt(e, f, i)
      BY <2>1, <3>2
    <3> QED BY <3>1, <3>3, <1>2, <1>6 DEF OnlyAt
  <2> QED BY <2>2, <2>3
<1>9. AllEnded'
  BY <1>3, DescribedFacts DEF AllEnded, PlainSoFar
<1>10. CallsDealt'
  <2> SUFFICES ASSUME NEW f \in 1 .. n + 1, NEW i \in 1 .. stack'[f].next - 1
               PROVE  Dealt(outcomes[stack'[f].node].details[i], AllLines')
    BY <1>2 DEF CallsDealt
  <2>1. f # n + 1
    BY <1>2
  <2>2. f \in 1 .. n /\ stack'[f] = stack[f]
    BY <2>1, <1>2
  <2> QED BY <2>2, <1>4, DealtMore DEF CallsDealt, PlainSoFar
<1>11. DescribedDealt'
  <2> SUFFICES ASSUME NEW e \in Comparison \ Active', Described(e) \in AllLines'
               PROVE  /\ e \in DOMAIN outcomes
                      /\ \A i \in 1 .. Len(outcomes[e].details) : Dealt(outcomes[e].details[i], AllLines')
    BY <1>2 DEF DescribedDealt, Described
  <2>1. e # c /\ e \notin Active
    BY <1>5
  <2>2. Described(e) \in AllLines
    BY <2>1, <1>3, DescribedFacts
  <2> QED BY <2>1, <2>2, <1>4, DealtMore DEF DescribedDealt, PlainSoFar
<1>12. todo' = << >>
  BY DEF PlainSoFar
<1> QED BY <1>7, <1>8, <1>9, <1>10, <1>11, <1>12 DEF PlainSoFar

\* A line of a caller's frame was there, or in the frame of the call that returned.
WasAt(f, i, g, j) ==
  LET m == Len(stack) - 1
      k == Len(Caller.lines)
  IN  \/ f < m /\ g = f /\ j = i
      \/ f = m /\ g = m /\ j = i /\ i <= k
      \/ f = m /\ g = m + 1 /\ j = i - k /\ i > k

LEMMA LinesMoved ==
  ASSUME TypeOK, NEW b \in BOOLEAN, ReturnStep(b, Caller.lines \o Top.lines)
  PROVE  /\ \A f \in 1 .. Len(stack') : \A i \in 1 .. Len(stack'[f].lines) :
              \E g \in 1 .. Len(stack) : \E j \in 1 .. Len(stack[g].lines) :
                WasAt(f, i, g, j) /\ stack'[f].lines[i] = stack[g].lines[j]
         /\ \A f, e \in 1 .. Len(stack') : \A g \in 1 .. Len(stack) : \A i, h, j \in Int :
              WasAt(f, i, g, j) /\ WasAt(e, h, g, j) => f = e /\ i = h
<1> DEFINE m == Len(stack) - 1
           k == Len(Caller.lines)
<1>1. /\ m \in Nat /\ m >= 1 /\ Caller = stack[m] /\ Len(stack) = m + 1 /\ Len(stack') = m
      /\ k \in Nat /\ Top = stack[m + 1]
      /\ \A f \in 1 .. m - 1 : stack'[f] = stack[f]
      /\ \A i \in 1 .. Len(stack'[m].lines) :
           \/ i \in 1 .. k /\ stack'[m].lines[i] = Caller.lines[i]
           \/ i - k \in 1 .. Len(Top.lines) /\ stack'[m].lines[i] = Top.lines[i - k]
  BY ReturnLines
<1>2. \A f, i, g, j : WasAt(f, i, g, j) <=> \/ f < m /\ g = f /\ j = i
                                            \/ f = m /\ g = m /\ j = i /\ i <= k
                                            \/ f = m /\ g = m + 1 /\ j = i - k /\ i > k
  BY Zenon DEF WasAt
<1> HIDE DEF m, k
<1>3. ASSUME NEW f \in 1 .. m, NEW i \in 1 .. Len(stack'[f].lines)
      PROVE  \E g \in 1 .. m + 1 : \E j \in 1 .. Len(stack[g].lines) :
               WasAt(f, i, g, j) /\ stack'[f].lines[i] = stack[g].lines[j]
  <2>1. CASE f = m
    <3>1. CASE i \in 1 .. k /\ stack'[m].lines[i] = Caller.lines[i]
      <4>1. WasAt(f, i, m, i) /\ m \in 1 .. m + 1
        BY <1>1, <1>2, <2>1, <3>1
      <4>2. i \in 1 .. Len(stack[m].lines) /\ stack'[f].lines[i] = stack[m].lines[i]
        BY <1>1, <2>1, <3>1 DEF k
      <4> QED BY <4>1, <4>2
    <3>2. CASE i - k \in 1 .. Len(Top.lines) /\ stack'[m].lines[i] = Top.lines[i - k]
      <4>1. WasAt(f, i, m + 1, i - k) /\ m + 1 \in 1 .. m + 1
        BY <1>1, <1>2, <2>1, <3>2
      <4>2. i - k \in 1 .. Len(stack[m + 1].lines) /\ stack'[f].lines[i] = stack[m + 1].lines[i - k]
        BY <1>1, <2>1, <3>2
      <4> QED BY <4>1, <4>2
    <3> QED BY <1>1, <2>1, <3>1, <3>2
  <2>2. CASE f # m
    <3>1. WasAt(f, i, f, i) /\ f \in 1 .. m + 1
      BY <1>1, <1>2, <2>2
    <3>2. stack'[f] = stack[f]
      BY <1>1, <2>2
    <3> QED BY <3>1, <3>2
  <2> QED BY <2>1, <2>2
<1>4. ASSUME NEW f \in 1 .. m, NEW e \in 1 .. m, NEW g \in 1 .. m + 1,
             NEW i \in Int, NEW h \in Int, NEW j \in Int, WasAt(f, i, g, j), WasAt(e, h, g, j)
      PROVE  f = e /\ i = h
  <2>1. /\ \/ f < m /\ g = f /\ j = i
           \/ f = m /\ g = m /\ j = i /\ i <= k
           \/ f = m /\ g = m + 1 /\ j = i - k /\ i > k
        /\ \/ e < m /\ g = e /\ j = h
           \/ e = m /\ g = m /\ j = h /\ h <= k
           \/ e = m /\ g = m + 1 /\ j = h - k /\ h > k
    BY <1>2, <1>4
  <2> QED BY <2>1, <1>1
<1> QED BY <1>1, <1>3, <1>4

\* A comparison has been printed in full.
LEMMA PlainReturned ==
  ASSUME TypeOK, CallsMatch, CallsDescribed, PlainSoFar, format = "plain",
         NEW b \in BOOLEAN, ReturnStep(b, Caller.lines \o Top.lines), todo' = todo,
         seen' = IF Holder(Top.node) THEN WithSeen(Top.node, TRUE) ELSE seen
  PROVE  PlainSoFar'
<1> DEFINE m == Len(stack) - 1
           c == Top.node
<1>1. /\ m \in Nat /\ m >= 1 /\ Caller = stack[m] /\ Len(stack) = m + 1 /\ Len(stack') = m
      /\ Top = stack[m + 1]
      /\ \A f \in 1 .. m - 1 : stack'[f] = stack[f]
  BY ReturnLines
<1>2. outcomes' = outcomes
  BY DEF ReturnStep
<1>3. Within(m) /\ c = outcomes[Caller.node].details[Caller.next]
  <2>1. m \in 1 .. Len(stack) - 1 /\ ~Flat
    BY <1>1 DEF Flat
  <2> QED BY <2>1, <1>1 DEF CallsMatch
<1>4. stack'[m].node = Caller.node /\ stack'[m].next = Caller.next + 1
  <2>1. Caller.lines \o Top.lines \in Seq(Line)
    BY <1>1, StackFacts, ConcatProperties
  <2> QED BY <2>1, <1>3, ReturnStepFacts
<1>5. c \in Comparison /\ c \in DOMAIN outcomes
  BY TopFacts
<1>6. m + 1 \in 1 .. Len(stack) /\ 1 \in 1 .. Len(stack[m + 1].lines) /\ stack[m + 1].lines[1] = Described(c)
  <2>1. Textual /\ m + 1 \in 2 .. Len(stack)
    BY <1>1 DEF Textual
  <2>2. Len(stack[m + 1].lines) > 0 /\ stack[m + 1].lines[1] = Described(c)
    BY <2>1, <1>1 DEF CallsDescribed
  <2> QED BY <2>1, <2>2, <1>1, TopFacts
<1>7. AllLines' = AllLines
  <2>1. \A x : x \in AllLines' <=> x \in AllLines
    BY ReturnAllLines
  <2> QED BY <2>1
<1>8. Described(c) \in AllLines
  BY <1>6, LinesElements, LinesNow
<1>9. \A f \in 1 .. m : stack'[f].node = stack[f].node
  BY <1>1, <1>4
<1>10. /\ \A x : x \in Active <=> x \in Active' \/ x = c
       /\ \A x \in Active' : \E f \in 2 .. m : x = stack[f].node
  <2>1. Caller.lines \o Top.lines \in Seq(Line)
    BY <1>1, StackFacts, ConcatProperties
  <2> QED BY <2>1, ReturnActive
<1>11. ASSUME Holder(c) PROVE c \in DOMAIN seen /\ c \notin Active'
  <2>1. c \in DOMAIN seen /\ OnlyAt(c, m + 1, 1)
    BY <1>5, <1>6, <1>11 DEF PlainSoFar, DescribedOnce
  <2>2. ASSUME NEW f \in 2 .. m, stack[f].node = c PROVE FALSE
    <3>1. f \in 1 .. Len(stack) /\ f \in 2 .. Len(stack) /\ Textual
      BY <1>1 DEF Textual
    <3>2. Len(stack[f].lines) > 0 /\ stack[f].lines[1] = Described(c)
      BY <2>2, <3>1 DEF CallsDescribed
    <3>3. 1 \in 1 .. Len(stack[f].lines)
      BY <3>1, <3>2, StackFacts
    <3>4. f = m + 1
      BY <2>1, <3>1, <3>2, <3>3 DEF OnlyAt
    <3> QED BY <1>1, <3>4
  <2> QED BY <1>10, <2>1, <2>2
<1>12. /\ DOMAIN seen' = DOMAIN seen
       /\ \A d \in DOMAIN seen : IF d = c THEN seen'[d] = TRUE ELSE seen'[d] = seen[d]
  <2>1. CASE Holder(c)
    <3>1. c \in DOMAIN seen
      BY <1>11, <2>1
    <3> QED BY <2>1, <3>1 DEF WithSeen
  <2>2. CASE ~Holder(c)
    <3>1. c \notin DOMAIN seen
      BY <2>2 DEF PlainSoFar, SeenSoFar
    <3> QED BY <2>2, <3>1
  <2> QED BY <2>1, <2>2
<1> HIDE DEF m, c
<1>13. SeenSoFar'
  <2> SUFFICES ASSUME NEW d \in DOMAIN seen
               PROVE  /\ Holder(d)
                      /\ Described(d) \in AllLines'
                      /\ seen'[d] <=> d \notin Active'
    BY <1>2, <1>12 DEF SeenSoFar, Holder, Described
  <2>1. Holder(d) /\ Described(d) \in AllLines /\ (seen[d] <=> d \notin Active)
    BY DEF PlainSoFar, SeenSoFar
  <2>2. CASE d = c
    BY <2>1, <2>2, <1>7, <1>11, <1>12
  <2>3. CASE d # c
    BY <2>1, <2>3, <1>7, <1>10, <1>12
  <2> QED BY <2>2, <2>3
<1>14. DescribedOnce'
  <2>1. ASSUME NEW f \in 1 .. m, NEW i \in 1 .. Len(stack'[f].lines), NEW e \in Comparison,
               stack'[f].lines[i] = Described(e), Holder(e)
        PROVE  /\ e \in DOMAIN seen
               /\ \A g \in 1 .. m : \A j \in 1 .. Len(stack'[g].lines) :
                    stack'[g].lines[j] = Described(e) => g = f /\ j = i
    <3>1. PICK h \in 1 .. Len(stack) : \E l \in 1 .. Len(stack[h].lines) :
            WasAt(f, i, h, l) /\ stack'[f].lines[i] = stack[h].lines[l]
      BY <1>1, LinesMoved
    <3>2. PICK l \in 1 .. Len(stack[h].lines) : WasAt(f, i, h, l) /\ stack'[f].lines[i] = stack[h].lines[l]
      BY <3>1
    <3>3. e \in DOMAIN seen /\ OnlyAt(e, h, l)
      BY <2>1, <3>2 DEF PlainSoFar, DescribedOnce
    <3>4. ASSUME NEW g \in 1 .. m, NEW j \in 1 .. Len(stack'[g].lines), stack'[g].lines[j] = Described(e)
          PROVE  g = f /\ j = i
      <4>1. PICK x \in 1 .. Len(stack) : \E y \in 1 .. Len(stack[x].lines) :
              WasAt(g, j, x, y) /\ stack'[g].lines[j] = stack[x].lines[y]
        BY ZenonT(40), <1>1, LinesMoved
      <4>2. PICK y \in 1 .. Len(stack[x].lines) : WasAt(g, j, x, y) /\ stack'[g].lines[j] = stack[x].lines[y]
        BY <4>1
      <4>3. x = h /\ y = l
        BY <3>3, <3>4, <4>2 DEF OnlyAt
      <4>4. i \in Int /\ j \in Int /\ l \in Int
        OBVIOUS
      <4> QED BY <1>1, <3>2, <4>2, <4>3, <4>4, LinesMoved
    <3> QED BY <3>3, <3>4
  <2>2. Len(stack') = m /\ DOMAIN seen' = DOMAIN seen
    BY <1>1, <1>12
  <2>3. ASSUME NEW f \in 1 .. Len(stack'), NEW i \in 1 .. Len(stack'[f].lines), NEW e \in Comparison,
               stack'[f].lines[i] = Described(e), Holder(e)
        PROVE  e \in DOMAIN seen' /\ OnlyAt(e, f, i)'
    <3>1. f \in 1 .. m
      BY <2>2
    <3>2. /\ e \in DOMAIN seen
          /\ \A g \in 1 .. m : \A j \in 1 .. Len(stack'[g].lines) :
               stack'[g].lines[j] = Described(e) => g = f /\ j = i
      BY <2>1, <2>3, <3>1
    <3>3. \A g \in 1 .. Len(stack') : \A j \in 1 .. Len(stack'[g].lines) :
               stack'[g].lines[j] = Described(e) => g = f /\ j = i
      BY <2>2, <3>2
    <3> QED BY <2>2, <3>2, <3>3 DEF OnlyAt
  <2> QED BY <1>2, <2>3 DEF DescribedOnce, Holder, Described
<1>15. AllEnded'
  BY <1>7 DEF AllEnded, PlainSoFar
<1>16. CallsDealt'
  <2> SUFFICES ASSUME NEW f \in 1 .. m, NEW i \in 1 .. stack'[f].next - 1
               PROVE  Dealt(outcomes[stack[f].node].details[i], AllLines)
    BY <1>1, <1>2, <1>7, <1>9 DEF CallsDealt
  <2>1. CASE i \in 1 .. stack[f].next - 1
    BY <2>1, <1>1 DEF CallsDealt, PlainSoFar
  <2>2. CASE i \notin 1 .. stack[f].next - 1
    <3>1. f = m
      BY <2>2, <1>1
    <3>2. Caller.next \in Nat
      BY <1>1, StackFacts
    <3>3. i = Caller.next
      BY <2>2, <3>1, <3>2, <1>1, <1>4
    <3>4. outcomes[stack[f].node].details[i] = c
      BY <3>1, <3>3, <1>1, <1>3
    <3> QED BY <3>4, <1>5, <1>8, ComparisonAssumption DEF Dealt
  <2> QED BY <2>1, <2>2
<1>17. DescribedDealt'
  <2> SUFFICES ASSUME NEW e \in Comparison \ Active', Described(e) \in AllLines
               PROVE  /\ e \in DOMAIN outcomes
                      /\ \A i \in 1 .. Len(outcomes[e].details) : Dealt(outcomes[e].details[i], AllLines)
    BY <1>2, <1>7 DEF DescribedDealt, Described
  <2>1. CASE e = c
    <3>1. Top.next - 1 = Len(outcomes[c].details)
      <4>1. Top.next = Len(outcomes[c].details) + 1
        BY TopFacts DEF ReturnStep, c
      <4> QED BY <4>1, <1>5, GraphFacts
    <3>2. \A i \in 1 .. Top.next - 1 : Dealt(outcomes[c].details[i], AllLines)
      BY <1>1, <1>6 DEF PlainSoFar, CallsDealt, c
    <3> QED BY <2>1, <3>1, <3>2, <1>5
  <2>2. CASE e # c
    BY <2>2, <1>10 DEF PlainSoFar, DescribedDealt
  <2> QED BY <2>1, <2>2
<1>18. todo' = << >>
  BY DEF PlainSoFar
<1> QED BY <1>13, <1>14, <1>15, <1>16, <1>17, <1>18 DEF PlainSoFar

--------------------------------------------------------------------------------
(***************************************************************************)
(* The actions.                                                            *)
(***************************************************************************)
LEMMA Mentions ==
  /\ \A c \in Comparison : /\ Mention(c, "node diff") /\ Mention(c, "being reported")
                           /\ Mention(c, "already reported") /\ Mention(c, "stopped at")
  /\ \A c \in OneSided : Mention(c, "removed or added")
<1>1. \A c \in Comparison : /\ LineFor(c, "node diff") \in Line /\ LineFor(c, "being reported") \in Line
                            /\ LineFor(c, "already reported") \in Line /\ LineFor(c, "stopped at") \in Line
  BY DEF LineFor, Line
<1>2. \A c \in OneSided : LineFor(c, "removed or added") \in Line
  BY DEF LineFor, Line
<1>3. \A c : /\ LineFor(c, "node diff").how = "node diff"
              /\ LineFor(c, "being reported").how = "being reported"
              /\ LineFor(c, "already reported").how = "already reported"
              /\ LineFor(c, "stopped at").how = "stopped at"
              /\ LineFor(c, "removed or added").how = "removed or added"
  BY DEF LineFor
<1> QED BY <1>1, <1>2, <1>3 DEF Mention

\* Which kind of step each action is.
LEMMA PrintedActions ==
  ASSUME TypeOK
  PROVE  /\ NodeDiff => PrintedStep(OneLine(Top.node, "node diff"), FALSE)
         /\ RemovedOrAdded => PrintedStep(OneLine(Current, "removed or added"), TRUE)
         /\ FlatStop => PrintedStep(Kept(OneLine(Current, "stopped at"), FALSE), FALSE)
         /\ VizAttribute => PrintedStep(<< >>, FALSE)
         /\ VizEdge => PrintedStep(<< >>, FALSE)
BY Zenon DEF PrintedStep, NodeDiff, RemovedOrAdded, FlatStop, VizAttribute, VizEdge

\* What holds differences is not empty, so the lines all end.
LEMMA SeenHolderStep ==
  ASSUME TypeOK, PlainSeenHolder
  PROVE  LET how == IF seen[Current] THEN "already reported" ELSE "being reported"
         IN  /\ PrintedStep(OneLine(Current, how), FALSE)
             /\ Mention(Current, how)
             /\ Current \in Comparison \cap DOMAIN outcomes /\ Current \in DOMAIN seen
             /\ seen' = seen /\ todo' = todo
<1>1. Printing /\ Current \in Comparison /\ Holder(Current) /\ Current \in DOMAIN seen
  BY DEF PlainSeenHolder
<1>2. Current \in DOMAIN outcomes
  BY <1>1, TopFacts, ComparisonAssumption
<1>3. outcomes[Current].details # << >>
  BY <1>1, <1>2 DEF Holder, TypeOK, WellFormed
<1>4. seen[Current] \in BOOLEAN
  BY <1>1 DEF TypeOK
<1> DEFINE how == IF seen[Current] THEN "already reported" ELSE "being reported"
<1>5. PrintedStep(OneLine(Current, how), FALSE)
  <2>1. CASE seen[Current]
    BY <1>1, <1>3, <2>1, Zenon DEF PlainSeenHolder, PrintedStep
  <2>2. CASE ~seen[Current]
    BY <1>1, <1>3, <2>2, Zenon DEF PlainSeenHolder, PrintedStep
  <2> QED BY <2>1, <2>2
<1>6. Mention(Current, how)
  BY <1>1, Mentions
<1>7. seen' = seen /\ todo' = todo
  BY DEF PlainSeenHolder
<1> QED BY <1>1, <1>2, <1>5, <1>6, <1>7

LEMMA CallActions ==
  ASSUME TypeOK
  PROVE  /\ OpenInner \/ PlainOpenHolder =>
              /\ CallStep(Current, outcomes[Current].has_changes, OneLine(Current, "described"))
              /\ Current \in Comparison \cap DOMAIN outcomes
         /\ VizEnter => /\ CallStep(Current, FALSE, << >>)
                        /\ Current \in Comparison \cap DOMAIN outcomes
         /\ FlatSection => /\ CallStep(Head(todo), outcomes[Head(todo)].has_changes,
                                       OneLine(Head(todo), "described"))
                           /\ Head(todo) \in Comparison \cap DOMAIN outcomes
<1>1. OpenInner \/ PlainOpenHolder \/ VizEnter =>
        Printing /\ Current \in Comparison \cap DOMAIN outcomes
  BY TopFacts, ComparisonAssumption DEF OpenInner, PlainOpenHolder, VizEnter
<1>2. OpenInner \/ PlainOpenHolder =>
        CallStep(Current, outcomes[Current].has_changes, OneLine(Current, "described"))
  BY Zenon DEF OpenInner, PlainOpenHolder, CallStep, Enters
<1>3. VizEnter => CallStep(Current, FALSE, << >>)
  BY Zenon DEF VizEnter, CallStep
<1>4. FlatSection => CallStep(Head(todo), outcomes[Head(todo)].has_changes,
                              OneLine(Head(todo), "described"))
  BY Zenon DEF FlatSection, CallStep, Enters, Appropriate
<1>5. FlatSection => Head(todo) \in Comparison \cap DOMAIN outcomes
  BY HeadTailProperties DEF TypeOK, FlatSection
<1> QED BY <1>1, <1>2, <1>3, <1>4, <1>5

LEMMA ReturnActions ==
  ASSUME TypeOK, CallsMatch
  PROVE  /\ Return => ReturnStep(Interest(Caller, Top), Caller.lines \o Kept(Top.lines, Top.interesting))
         /\ VizReturn => ReturnStep(FALSE, << >>)
<1>1. Return => ReturnStep(Interest(Caller, Top), Caller.lines \o Kept(Top.lines, Top.interesting))
  BY Zenon DEF Return, ReturnStep, Caller
<1>2. ASSUME VizReturn PROVE ReturnStep(FALSE, << >>)
  <2>1. /\ ~Printing /\ Len(stack) > 1 /\ UNCHANGED <<outcomes, root, format>>
        /\ stack' = Append(SubSeq(stack, 1, Len(stack) - 1 - 1), Call(Caller.node, Caller.next + 1, FALSE, << >>))
    BY <1>2, Zenon DEF VizReturn, Caller
  <2>2. Caller.next <= Len(outcomes[Caller.node].details)
    <3>1. Len(stack) - 1 \in 1 .. Len(stack) - 1
      BY <2>1, StackFacts
    <3>2. ~Flat
      BY <1>2 DEF VizReturn, Viz, Flat
    <3> QED BY <3>1, <3>2 DEF CallsMatch, Within, Caller
  <2> QED BY <2>1, <2>2, Zenon DEF ReturnStep
<1> QED BY <1>1, <1>2

LEMMA KeptFacts ==
  ASSUME NEW l \in Seq(Line), NEW b
  PROVE  /\ Kept(l, b) \in Seq(Line)
         /\ format # "small" \/ b => Kept(l, b) = l
         /\ format = "small" /\ ~b => Kept(l, b) = << >>
<1>1. << >> \in Seq(Line)
  OBVIOUS
<1> QED BY <1>1, Zenon DEF Kept

LEMMA ReturnedLines ==
  ASSUME TypeOK, Len(stack) > 1
  PROVE  /\ Caller.lines \o Kept(Top.lines, Top.interesting) \in Seq(Line)
         /\ Interest(Caller, Top) \in BOOLEAN
         /\ format # "small" => Caller.lines \o Kept(Top.lines, Top.interesting) = Caller.lines \o Top.lines
<1>1. Caller.lines \in Seq(Line) /\ Top.lines \in Seq(Line)
  <2>1. Len(stack) - 1 \in 1 .. Len(stack)
    BY StackFacts
  <2> QED BY <2>1, StackFacts, TopFacts DEF Caller
<1>2. Kept(Top.lines, Top.interesting) \in Seq(Line)
  BY <1>1, KeptFacts
<1>3. format # "small" => Kept(Top.lines, Top.interesting) = Top.lines
  BY <1>1, KeptFacts
<1>4. Interest(Caller, Top) \in BOOLEAN
  BY Zenon DEF Interest
<1> QED BY <1>1, <1>2, <1>3, <1>4, ConcatProperties

LEMMA SeenMore ==
  ASSUME TypeOK, NEW c \in DOMAIN outcomes, NEW b \in BOOLEAN, seen' = WithSeen(c, b)
  PROVE  /\ seen' \in [DOMAIN seen' -> BOOLEAN]
         /\ DOMAIN seen' = DOMAIN seen \cup {c} /\ DOMAIN seen' \subseteq DOMAIN outcomes
         /\ seen'[c] = b
<1>1. seen \in [DOMAIN seen -> BOOLEAN] /\ DOMAIN seen \subseteq DOMAIN outcomes
  BY DEF TypeOK
<1>2. seen' = [d \in DOMAIN seen \cup {c} |-> IF d = c THEN b ELSE seen[d]]
  BY DEF WithSeen
<1>3. DOMAIN seen' = DOMAIN seen \cup {c}
  BY <1>2
<1>4. \A d \in DOMAIN seen \cup {c} : seen'[d] = IF d = c THEN b ELSE seen[d]
  BY <1>2
<1>5. \A d \in DOMAIN seen \cup {c} : seen'[d] \in BOOLEAN
  BY <1>1, <1>4
<1>6. seen' = [d \in DOMAIN seen' |-> seen'[d]]
  BY <1>2, <1>3
<1>7. seen' \in [DOMAIN seen' -> BOOLEAN]
  BY <1>3, <1>5, <1>6
<1> QED BY <1>1, <1>3, <1>4, <1>7

\* What an action may do to what has been seen and to the sections to come.
LEMMA SeenSteps ==
  ASSUME TypeOK, Next
  PROVE  /\ seen' \in [DOMAIN seen' -> BOOLEAN] /\ DOMAIN seen' \subseteq DOMAIN outcomes
         /\ todo' \in Seq(Comparison \cap DOMAIN outcomes)
<1>1. /\ seen \in [DOMAIN seen -> BOOLEAN] /\ DOMAIN seen \subseteq DOMAIN outcomes
      /\ todo \in Seq(Comparison \cap DOMAIN outcomes)
  BY DEF TypeOK
<1>2. Printing /\ Current # NoEdge => Current \in DOMAIN outcomes
  BY TopFacts
<1>3. Current \in Comparison \/ Current \in OneSided \/ Current \in DOMAIN seen => Current # NoEdge
  BY <1>1, ComparisonAssumption DEF TypeOK, WellFormed
<1>4. CASE NodeDiff \/ RemovedOrAdded \/ OpenInner \/ PlainSeenHolder \/ VizAttribute \/ VizReturn \/ Finished
  BY <1>1, <1>4 DEF NodeDiff, RemovedOrAdded, OpenInner, PlainSeenHolder, VizAttribute, VizReturn, Finished, vars
<1>5. CASE PlainOpenHolder \/ VizEdge \/ VizEnter
  <2>1. /\ Current \in DOMAIN outcomes /\ seen' = WithSeen(Current, FALSE) /\ todo' = todo
    BY <1>2, <1>3, <1>5 DEF PlainOpenHolder, VizEdge, VizEnter, SeenStarted
  <2> QED BY <1>1, <2>1, SeenMore
<1>6. CASE FlatStop
  <2>1. Current \in DOMAIN outcomes /\ Current \in Comparison
    BY <1>2, <1>3, <1>6 DEF FlatStop
  <2>2. todo' = todo \/ todo' = Append(todo, Current)
    BY <1>6 DEF FlatStop, QueueNew
  <2>3. seen' = WithSeen(Current, FALSE)
    BY <1>6 DEF FlatStop
  <2>4. todo' \in Seq(Comparison \cap DOMAIN outcomes)
    BY <1>1, <2>1, <2>2, AppendProperties
  <2> QED BY <2>1, <2>3, <2>4, SeenMore
<1>7. CASE FlatSection
  <2>1. todo # << >> /\ todo' = Tail(todo) /\ seen' = seen
    BY <1>7 DEF FlatSection
  <2> QED BY <1>1, <2>1, HeadTailProperties
<1>8. CASE Return
  <2>1. todo' = todo /\ (seen' = seen \/ seen' = WithSeen(Top.node, TRUE))
    BY <1>8 DEF Return
  <2> QED BY <1>1, <2>1, TopFacts, SeenMore
<1> QED BY <1>4, <1>5, <1>6, <1>7, <1>8 DEF Next

LEMMA SameCalls ==
  ASSUME TypeOK, CallsMatch, UNCHANGED vars
  PROVE  CallsOK' /\ CallsMatch' /\ outcomes' = outcomes /\ root' = root /\ format' = format
<1>1. stack' = stack /\ outcomes' = outcomes /\ root' = root /\ format' = format
  BY DEF vars
<1>2. CallsOK'
  BY <1>1 DEF TypeOK, CallsOK
<1>3. \A f : Within(f)' <=> Within(f)
  BY <1>1 DEF Within
<1>4. CallsMatch'
  BY <1>1, <1>3 DEF CallsMatch, Flat, Holder
<1> QED BY <1>1, <1>2, <1>4

LEMMA CallSteps ==
  ASSUME TypeOK, CallsMatch, Next
  PROVE  CallsOK' /\ CallsMatch' /\ outcomes' = outcomes /\ root' = root /\ format' = format
<1>1. CASE NodeDiff
  <2>1. OneLine(Top.node, "node diff") \in Seq(Line)
    BY TopFacts, Mentions, OneLineFacts DEF Mention
  <2> QED BY <1>1, <2>1, PrintedActions, PrintedCalls DEF PrintedStep
<1>2. CASE RemovedOrAdded
  <2>1. OneLine(Current, "removed or added") \in Seq(Line)
    BY <1>2, Mentions, OneLineFacts DEF Mention, RemovedOrAdded
  <2> QED BY <1>2, <2>1, PrintedActions, PrintedCalls DEF PrintedStep
<1>3. CASE PlainSeenHolder
  <2> DEFINE how == IF seen[Current] THEN "already reported" ELSE "being reported"
  <2>1. PrintedStep(OneLine(Current, how), FALSE) /\ OneLine(Current, how) \in Seq(Line)
    BY <1>3, SeenHolderStep, OneLineFacts DEF Mention
  <2> HIDE DEF how
  <2> QED BY <2>1, PrintedCalls DEF PrintedStep
<1>4. CASE FlatStop
  <2>1. Kept(OneLine(Current, "stopped at"), FALSE) \in Seq(Line)
    BY <1>4, Mentions, OneLineFacts, KeptFacts DEF Mention, FlatStop
  <2> QED BY <1>4, <2>1, PrintedActions, PrintedCalls DEF PrintedStep
<1>5. CASE VizAttribute \/ VizEdge
  <2>1. PrintedStep(<< >>, FALSE)
    BY <1>5, PrintedActions
  <2>2. << >> \in Seq(Line)
    OBVIOUS
  <2> QED BY <2>1, <2>2, PrintedCalls DEF PrintedStep
<1>6. CASE OpenInner \/ PlainOpenHolder
  <2>1. CallStep(Current, outcomes[Current].has_changes, OneLine(Current, "described"))
    BY <1>6, CallActions
  <2>2. Current \in Comparison \cap DOMAIN outcomes
    BY <1>6, CallActions
  <2>3. OneLine(Current, "described") \in Seq(Line) /\ outcomes[Current].has_changes \in BOOLEAN
    BY <2>2, OneLineFacts, DescribedFacts, GraphFacts DEF Described
  <2> QED BY <2>1, <2>2, <2>3, CallCalls DEF CallStep
<1>7. CASE VizEnter
  <2>1. CallStep(Current, FALSE, << >>) /\ Current \in Comparison \cap DOMAIN outcomes
    BY <1>7, CallActions
  <2>2. << >> \in Seq(Line)
    OBVIOUS
  <2> QED BY <2>1, <2>2, CallCalls DEF CallStep
<1>8. CASE Return
  <2>1. /\ ReturnStep(Interest(Caller, Top), Caller.lines \o Kept(Top.lines, Top.interesting))
        /\ Caller.lines \o Kept(Top.lines, Top.interesting) \in Seq(Line)
        /\ Interest(Caller, Top) \in BOOLEAN
    BY <1>8, ReturnActions, ReturnedLines DEF Return
  <2> QED BY <2>1, ReturnCalls DEF ReturnStep
<1>9. CASE VizReturn
  <2>1. ReturnStep(FALSE, << >>)
    BY <1>9, ReturnActions
  <2>2. << >> \in Seq(Line)
    OBVIOUS
  <2> QED BY <2>1, <2>2, ReturnCalls DEF ReturnStep
<1>10. CASE Finished
  BY <1>10, SameCalls DEF Finished
<1>11. CASE FlatSection
  <2> DEFINE c == Head(todo)
  <2>1. CallStep(c, outcomes[c].has_changes, OneLine(c, "described")) /\ c \in Comparison \cap DOMAIN outcomes
    BY <1>11, CallActions
  <2>2. OneLine(c, "described") \in Seq(Line) /\ outcomes[c].has_changes \in BOOLEAN
    BY <2>1, OneLineFacts, DescribedFacts, GraphFacts DEF Described
  <2> HIDE DEF c
  <2> QED BY <2>1, <2>2, CallCalls DEF CallStep
<1> QED BY <1>1, <1>2, <1>3, <1>4, <1>5, <1>6, <1>7, <1>8, <1>9, <1>10, <1>11 DEF Next

LEMMA TypeSteps ==
  ASSUME TypeOK, CallsMatch, [Next]_vars
  PROVE  TypeOK' /\ CallsMatch'
<1>1. CASE Next
  <2>1. CallsOK' /\ CallsMatch' /\ outcomes' = outcomes /\ root' = root /\ format' = format
    BY <1>1, CallSteps
  <2>2. /\ seen' \in [DOMAIN seen' -> BOOLEAN] /\ DOMAIN seen' \subseteq DOMAIN outcomes
        /\ todo' \in Seq(Comparison \cap DOMAIN outcomes)
    BY <1>1, SeenSteps
  <2>3. WellFormed(outcomes, root) /\ format \in {"plain", "flat", "small", "viz"}
    BY DEF TypeOK
  <2> QED BY <2>1, <2>2, <2>3 DEF TypeOK
<1>2. CASE UNCHANGED vars
  <2>1. CallsOK' /\ CallsMatch' /\ outcomes' = outcomes /\ root' = root /\ format' = format
    BY <1>2, SameCalls
  <2>2. seen' = seen /\ todo' = todo
    BY <1>2 DEF vars
  <2> QED BY <2>1, <2>2 DEF TypeOK
<1> QED BY <1>1, <1>2

\* Every textual call begins with a description.
LEMMA PrintedDescribed ==
  ASSUME TypeOK, CallsDescribed, NEW more \in Seq(Line), NEW b \in BOOLEAN, PrintedStep(more, b)
  PROVE  CallsDescribed'
<1> DEFINE n == Len(stack)
<1>1. n \in Nat /\ n >= 1 /\ Len(stack') = n /\ \A f \in 1 .. n - 1 : stack'[f] = stack[f]
  BY PrintedFacts, StackFacts
<1>2. stack'[n].node = stack[n].node /\ stack'[n].lines = stack[n].lines \o more
  BY PrintedFacts, TopFacts
<1>3. stack[n].lines \in Seq(Line)
  BY <1>1, StackFacts
<1>4. /\ Len(stack'[n].lines) = Len(stack[n].lines) + Len(more) /\ Len(more) \in Nat
      /\ Len(stack[n].lines) \in Nat
      /\ Len(stack[n].lines) > 0 => stack'[n].lines[1] = stack[n].lines[1]
  <2>1. Len(more) \in Nat /\ Len(stack[n].lines) \in Nat
    BY <1>3
  <2> QED BY <1>2, <1>3, <2>1, ConcatProperties
<1>5. ASSUME Textual, NEW f \in 2 .. n
      PROVE  Len(stack'[f].lines) > 0 /\ stack'[f].lines[1] = Described(stack'[f].node)
  <2>1. Len(stack[f].lines) > 0 /\ stack[f].lines[1] = Described(stack[f].node)
    BY <1>5 DEF CallsDescribed
  <2>2. CASE f = n
    BY <2>1, <2>2, <1>2, <1>4
  <2>3. CASE f # n
    <3>1. stack'[f] = stack[f]
      BY <2>3, <1>1
    <3> QED BY <2>1, <3>1
  <2> QED BY <2>2, <2>3
<1>6. Textual' <=> Textual
  BY DEF Textual, PrintedStep
<1> QED BY <1>1, <1>5, <1>6 DEF CallsDescribed

LEMMA CallDescribed ==
  ASSUME TypeOK, CallsDescribed, NEW c \in Comparison \cap DOMAIN outcomes, NEW b \in BOOLEAN,
         CallStep(c, b, OneLine(c, "described"))
  PROVE  CallsDescribed'
<1> DEFINE n == Len(stack)
           l == OneLine(c, "described")
<1>1. l \in Seq(Line) /\ Len(l) = 1 /\ l[1] = Described(c)
  BY OneLineFacts, DescribedFacts DEF Described
<1> HIDE DEF l
<1>2. /\ n \in Nat /\ n >= 1 /\ Len(stack') = n + 1
      /\ \A f \in 1 .. n : stack'[f] = stack[f]
      /\ stack'[n + 1].node = c /\ stack'[n + 1].lines = l
  BY <1>1, CallStepFacts, StackFacts DEF l
<1>3. ASSUME Textual, NEW f \in 2 .. n + 1
      PROVE  Len(stack'[f].lines) > 0 /\ stack'[f].lines[1] = Described(stack'[f].node)
  <2>1. CASE f = n + 1
    BY <2>1, <1>1, <1>2
  <2>2. CASE f # n + 1
    <3>1. f \in 2 .. n /\ stack'[f] = stack[f]
      BY <2>2, <1>2
    <3> QED BY <1>3, <3>1 DEF CallsDescribed
  <2> QED BY <2>1, <2>2
<1>4. Textual' <=> Textual
  BY DEF Textual, CallStep
<1> QED BY <1>2, <1>3, <1>4 DEF CallsDescribed

LEMMA ReturnDescribed ==
  ASSUME TypeOK, CallsDescribed, NEW b \in BOOLEAN, NEW x \in Seq(Line),
         ReturnStep(b, Caller.lines \o x)
  PROVE  CallsDescribed'
<1> DEFINE m == Len(stack) - 1
           l == Caller.lines \o x
<1>1. m \in Nat /\ m >= 1 /\ Len(stack) = m + 1 /\ Caller = stack[m]
  BY StackFacts DEF ReturnStep, Caller
<1>2. Caller.lines \in Seq(Line) /\ Len(Caller.lines) \in Nat /\ Len(x) \in Nat
  BY <1>1, StackFacts
<1>3. /\ l \in Seq(Line) /\ Len(l) = Len(Caller.lines) + Len(x)
      /\ Len(Caller.lines) > 0 => l[1] = Caller.lines[1]
  BY <1>2, ConcatProperties
<1> HIDE DEF l
<1>4. /\ Len(stack') = m /\ \A f \in 1 .. m - 1 : stack'[f] = stack[f]
      /\ stack'[m].node = Caller.node /\ stack'[m].lines = l
  BY <1>3, ReturnStepFacts DEF l
<1> HIDE DEF m
<1>5. ASSUME Textual, NEW f \in 2 .. m
      PROVE  Len(stack'[f].lines) > 0 /\ stack'[f].lines[1] = Described(stack'[f].node)
  <2>1. Len(stack[f].lines) > 0 /\ stack[f].lines[1] = Described(stack[f].node)
    BY <1>1, <1>5 DEF CallsDescribed
  <2>2. CASE f = m
    BY <2>1, <2>2, <1>1, <1>2, <1>3, <1>4
  <2>3. CASE f # m
    <3>1. f \in 1 .. m - 1
      BY <2>3, <1>1
    <3>2. stack'[f] = stack[f]
      BY <3>1, <1>4
    <3> QED BY <2>1, <3>2
  <2> QED BY <2>2, <2>3
<1>6. Textual' <=> Textual
  BY DEF Textual, ReturnStep
<1> QED BY <1>4, <1>5, <1>6 DEF CallsDescribed

LEMMA DescribedSteps ==
  ASSUME TypeOK, CallsMatch, CallsDescribed, [Next]_vars
  PROVE  CallsDescribed'
<1>1. CASE NodeDiff
  <2>1. OneLine(Top.node, "node diff") \in Seq(Line)
    BY TopFacts, Mentions, OneLineFacts DEF Mention
  <2> QED BY <1>1, <2>1, PrintedActions, PrintedDescribed
<1>2. CASE RemovedOrAdded
  <2>1. OneLine(Current, "removed or added") \in Seq(Line)
    BY <1>2, Mentions, OneLineFacts DEF Mention, RemovedOrAdded
  <2> QED BY <1>2, <2>1, PrintedActions, PrintedDescribed
<1>3. CASE PlainSeenHolder
  <2> DEFINE how == IF seen[Current] THEN "already reported" ELSE "being reported"
  <2>1. PrintedStep(OneLine(Current, how), FALSE) /\ OneLine(Current, how) \in Seq(Line)
    BY <1>3, SeenHolderStep, OneLineFacts DEF Mention
  <2> HIDE DEF how
  <2> QED BY <2>1, PrintedDescribed
<1>4. CASE FlatStop
  <2>1. Kept(OneLine(Current, "stopped at"), FALSE) \in Seq(Line)
    BY <1>4, Mentions, OneLineFacts, KeptFacts DEF Mention, FlatStop
  <2> QED BY <1>4, <2>1, PrintedActions, PrintedDescribed
<1>5. CASE VizAttribute \/ VizEdge \/ VizEnter \/ VizReturn
  BY <1>5 DEF VizAttribute, VizEdge, VizEnter, VizReturn, Viz, CallsDescribed, Textual
<1>6. CASE OpenInner \/ PlainOpenHolder
  <2>1. CallStep(Current, outcomes[Current].has_changes, OneLine(Current, "described"))
    BY <1>6, CallActions
  <2>2. Current \in Comparison \cap DOMAIN outcomes
    BY <1>6, CallActions
  <2>3. outcomes[Current].has_changes \in BOOLEAN
    BY <2>2, GraphFacts
  <2> QED BY <2>1, <2>2, <2>3, CallDescribed
<1>7. CASE FlatSection
  <2> DEFINE c == Head(todo)
  <2>1. CallStep(c, outcomes[c].has_changes, OneLine(c, "described")) /\ c \in Comparison \cap DOMAIN outcomes
    BY <1>7, CallActions
  <2>2. outcomes[c].has_changes \in BOOLEAN
    BY <2>1, GraphFacts
  <2> HIDE DEF c
  <2> QED BY <2>1, <2>2, CallDescribed
<1>8. CASE Return
  <2>1. ReturnStep(Interest(Caller, Top), Caller.lines \o Kept(Top.lines, Top.interesting))
    BY <1>8, ReturnActions
  <2>2. Kept(Top.lines, Top.interesting) \in Seq(Line) /\ Interest(Caller, Top) \in BOOLEAN
    BY <1>8, TopFacts, KeptFacts, ReturnedLines DEF Return
  <2> QED BY <2>1, <2>2, ReturnDescribed
<1>9. CASE Finished \/ UNCHANGED vars
  BY <1>9 DEF Finished, vars, CallsDescribed, Textual
<1> QED BY <1>1, <1>2, <1>3, <1>4, <1>5, <1>6, <1>7, <1>8, <1>9 DEF Next

LEMMA SamePlain ==
  ASSUME PlainSoFar, UNCHANGED vars
  PROVE  PlainSoFar'
<1>1. /\ stack' = stack /\ outcomes' = outcomes /\ format' = format /\ seen' = seen /\ todo' = todo
      /\ AllLines' = AllLines /\ Active' = Active
  BY DEF vars, AllLines, Active
<1>2. SeenSoFar => SeenSoFar'
  BY <1>1 DEF SeenSoFar, Holder
<1>3. DescribedOnce => DescribedOnce'
  BY <1>1 DEF DescribedOnce, OnlyAt, Holder
<1>4. CallsDealt => CallsDealt'
  BY <1>1 DEF CallsDealt
<1>5. DescribedDealt => DescribedDealt'
  BY <1>1 DEF DescribedDealt
<1>6. AllEnded => AllEnded'
  BY <1>1 DEF AllEnded
<1> QED BY <1>1, <1>2, <1>3, <1>4, <1>5, <1>6 DEF PlainSoFar

LEMMA PlainSteps ==
  ASSUME TypeOK, CallsMatch, CallsDescribed, PlainSoFar, [Next]_vars
  PROVE  PlainSoFar'
<1> SUFFICES ASSUME format = "plain"
             PROVE  PlainSoFar'
  <2>1. format' = format
    BY CallSteps, SameCalls
  <2> QED BY <2>1 DEF PlainSoFar
<1>1. CASE NodeDiff
  <2>1. /\ Mention(Top.node, "node diff") /\ PrintedStep(OneLine(Top.node, "node diff"), FALSE)
        /\ seen' = seen /\ todo' = todo /\ Current = NoEdge
    BY <1>1, TopFacts, Mentions, PrintedActions DEF NodeDiff
  <2>2. Dealt(NoEdge, AllLines')
    BY ComparisonAssumption DEF Dealt
  <2> QED BY <2>1, <2>2, PlainPrinted
<1>2. CASE RemovedOrAdded
  <2> DEFINE how == "removed or added"
  <2>1. /\ Mention(Current, how) /\ PrintedStep(OneLine(Current, how), TRUE)
        /\ seen' = seen /\ todo' = todo /\ Current \in OneSided
    BY <1>2, Mentions, PrintedActions DEF RemovedOrAdded
  <2>2. LineFor(Current, how) \in AllLines'
    BY <2>1, PrintedAllLines DEF Mention
  <2>3. Dealt(Current, AllLines')
    BY <2>1, <2>2, ComparisonAssumption DEF Dealt
  <2> HIDE DEF how
  <2> QED BY <2>1, <2>3, PlainPrinted
<1>3. CASE PlainSeenHolder
  <2> DEFINE how == IF seen[Current] THEN "already reported" ELSE "being reported"
  <2>1. /\ Mention(Current, how) /\ PrintedStep(OneLine(Current, how), FALSE)
        /\ seen' = seen /\ todo' = todo /\ Current \in Comparison /\ Current \in DOMAIN seen
    BY <1>3, SeenHolderStep
  <2> HIDE DEF how
  <2>2. Described(Current) \in AllLines
    BY <2>1 DEF PlainSoFar, SeenSoFar
  <2>3. Described(Current) \in AllLines'
    BY <2>1, <2>2, PrintedAllLines DEF Mention
  <2>4. Dealt(Current, AllLines')
    BY <2>1, <2>3, ComparisonAssumption DEF Dealt
  <2> QED BY <2>1, <2>4, PlainPrinted
<1>4. CASE OpenInner \/ PlainOpenHolder
  <2> DEFINE c == Current
  <2>1. CallStep(c, outcomes[c].has_changes, OneLine(c, "described")) /\ c \in Comparison \cap DOMAIN outcomes
    BY <1>4, CallActions
  <2>2. outcomes[c].has_changes \in BOOLEAN
    BY <2>1, GraphFacts
  <2>3. /\ todo' = todo
        /\ \/ ~Holder(c) /\ seen' = seen
           \/ Holder(c) /\ c \notin DOMAIN seen /\ seen' = WithSeen(c, FALSE)
    BY <1>4 DEF OpenInner, PlainOpenHolder, SeenStarted
  <2> HIDE DEF c
  <2> QED BY <2>1, <2>2, <2>3, PlainCalled
<1>5. CASE Return
  <2>1. ReturnStep(Interest(Caller, Top), Caller.lines \o Top.lines) /\ Interest(Caller, Top) \in BOOLEAN
    BY <1>5, ReturnActions, ReturnedLines DEF Return
  <2>2. todo' = todo /\ seen' = IF Holder(Top.node) THEN WithSeen(Top.node, TRUE) ELSE seen
    BY <1>5 DEF Return
  <2> QED BY <2>1, <2>2, PlainReturned
<1>6. CASE FlatStop \/ FlatSection \/ VizAttribute \/ VizEdge \/ VizEnter \/ VizReturn
  BY <1>6 DEF FlatStop, FlatSection, VizAttribute, VizEdge, VizEnter, VizReturn, Viz, Flat
<1>7. CASE Finished \/ UNCHANGED vars
  BY <1>7, SamePlain DEF Finished
<1> QED BY <1>1, <1>2, <1>3, <1>4, <1>5, <1>6, <1>7 DEF Next

--------------------------------------------------------------------------------
(***************************************************************************)
(* What is met from where.                                                 *)
(***************************************************************************)
LEMMA OpenedFacts ==
  ASSUME NEW o, NEW S, NEW c \in Comparison
  PROVE  /\ c \in DOMAIN o /\ Len(o[c].details) \in Nat =>
              \A x : x \in Paths!Succ(Opened(o, S), c) <=>
                       \E i \in 1 .. Len(o[c].details) :
                         x = IF o[c].details[i] \in S THEN o[c].details[i] ELSE c
         /\ c \notin DOMAIN o => Paths!Succ(Opened(o, S), c) = {}
<1>1. Opened(o, S)[c] = IF c \notin DOMAIN o THEN << >>
                        ELSE [i \in 1 .. Len(o[c].details) |->
                                IF o[c].details[i] \in S THEN o[c].details[i] ELSE c]
  BY DEF Opened
<1>2. ASSUME c \in DOMAIN o, Len(o[c].details) \in Nat
      PROVE  \A x : x \in Paths!Succ(Opened(o, S), c) <=>
                       \E i \in 1 .. Len(o[c].details) :
                         x = IF o[c].details[i] \in S THEN o[c].details[i] ELSE c
  BY <1>1, <1>2 DEF Paths!Succ
<1>3. ASSUME c \notin DOMAIN o
      PROVE  Paths!Succ(Opened(o, S), c) = {}
  BY <1>1, <1>3 DEF Paths!Succ
<1> QED BY <1>2, <1>3

\* A set that holds with a comparison those it leads to.
LEMMA OpenedClosed ==
  ASSUME TypeOK, NEW S, NEW T \in SUBSET Comparison,
         \A c \in T \cap DOMAIN outcomes : \A i \in 1 .. Len(outcomes[c].details) :
           outcomes[c].details[i] \in S => outcomes[c].details[i] \in T
  PROVE  Paths!Closed(Opened(outcomes, S), T)
<1> SUFFICES ASSUME NEW c \in T, NEW x \in Paths!Succ(Opened(outcomes, S), c)
             PROVE  x \in T
  BY DEF Paths!Closed
<1>1. c \in Comparison
  OBVIOUS
<1>2. c \in DOMAIN outcomes
  BY <1>1, OpenedFacts
<1>3. Len(outcomes[c].details) \in Nat
  BY <1>1, <1>2, GraphFacts
<1> QED BY <1>1, <1>2, <1>3, OpenedFacts

\* What is met, is met from a comparison of such a set.
LEMMA MetInside ==
  ASSUME TypeOK, NEW T \in SUBSET Comparison, root \in T,
         \A c \in T \cap DOMAIN outcomes : \A i \in 1 .. Len(outcomes[c].details) :
           outcomes[c].details[i] \in Comparison => outcomes[c].details[i] \in T,
         NEW x \in Met
  PROVE  \E c \in T \cap DOMAIN outcomes : \E i \in 1 .. Len(outcomes[c].details) :
           x = outcomes[c].details[i]
<1> DEFINE S == T \cap DOMAIN outcomes
<1>1. PICK d \in Comparison : /\ Paths!Reach(Opened(outcomes, Comparison), root, d)
                              /\ x \in EdgesOf(outcomes[d].details)
  BY DEF Met
<1>2. S \in SUBSET Comparison /\ root \in S
  BY GraphFacts
<1>3. \A c \in S \cap DOMAIN outcomes : \A i \in 1 .. Len(outcomes[c].details) :
        outcomes[c].details[i] \in Comparison => outcomes[c].details[i] \in S
  BY GraphFacts, ComparisonAssumption
<1> HIDE DEF S
<1>4. Paths!Closed(Opened(outcomes, Comparison), S)
  BY <1>2, <1>3, OpenedClosed
<1>5. d \in S
  BY <1>1, <1>2, <1>4 DEF Paths!Reach
<1> QED BY <1>1, <1>5 DEF EdgesOf, S

\* Counting the descriptions in the output.
LEMMA Descriptions ==
  ASSUME TypeOK, NEW c \in Comparison
  PROVE  /\ Times(c, "described") =
              Cardinality({i \in 1 .. Len(stack[1].lines) : stack[1].lines[i] = Described(c)})
         /\ IsFiniteSet({i \in 1 .. Len(stack[1].lines) : stack[1].lines[i] = Described(c)})
<1> DEFINE s == stack[1].lines
           A == {i \in 1 .. Len(s) : s[i] = Described(c)}
<1>1. s \in Seq(Line) /\ Len(s) \in Nat
  BY StackFacts
<1>2. \A i \in 1 .. Len(s) : s[i] \in Line
  BY <1>1, ElementOfSeq
<1>3. \A i \in 1 .. Len(s) : s[i].how = "described" /\ s[i].node = c <=> s[i] = Described(c)
  <2>1. \A x \in Line : x.how = "described" /\ x.node = c <=> x = Described(c)
    BY DescribedFacts
  <2> HIDE DEF s
  <2> QED BY <1>2, <2>1, Zenon
<1>4. {i \in Lines("described") : s[i].node = c} = A
  <2>1. \A i : i \in Lines("described") <=> i \in 1 .. Len(s) /\ s[i].how = "described"
    BY DEF Lines
  <2> HIDE DEF s
  <2> QED BY <1>3, <2>1
<1>5. IsFiniteSet(A)
  <2>1. IsFiniteSet(1 .. Len(s))
    BY <1>1, FS_Interval
  <2>2. A \subseteq 1 .. Len(s)
    OBVIOUS
  <2> HIDE DEF s, A
  <2> QED BY <2>1, <2>2, FS_Subset
<1> QED BY <1>4, <1>5 DEF Times

LEMMA DescribedTimes ==
  ASSUME TypeOK, NEW c \in Comparison, NEW k \in 1 .. Len(stack[1].lines), stack[1].lines[k] = Described(c)
  PROVE  /\ Times(c, "described") > 0
         /\ (\A j \in 1 .. Len(stack[1].lines) : stack[1].lines[j] = Described(c) => j = k)
              => Times(c, "described") = 1
<1> DEFINE A == {i \in 1 .. Len(stack[1].lines) : stack[1].lines[i] = Described(c)}
<1>1. Times(c, "described") = Cardinality(A) /\ IsFiniteSet(A)
  BY Descriptions
<1>2. k \in A
  OBVIOUS
<1>3. (\A j \in 1 .. Len(stack[1].lines) : stack[1].lines[j] = Described(c) => j = k) => A = {k}
  OBVIOUS
<1> HIDE DEF A
<1>4. Cardinality(A) > 0
  <2>1. Cardinality(A) \in Nat /\ Cardinality(A) # 0
    BY <1>1, <1>2, FS_EmptySet, FS_CardinalityType
  <2> QED BY <2>1
<1>5. Cardinality({k}) = 1
  BY FS_Singleton
<1> QED BY <1>1, <1>3, <1>4, <1>5

LEMMA DescribedNever ==
  ASSUME TypeOK, NEW c \in Comparison,
         \A i \in 1 .. Len(stack[1].lines) : stack[1].lines[i] # Described(c)
  PROVE  Times(c, "described") = 0
<1>1. {i \in 1 .. Len(stack[1].lines) : stack[1].lines[i] = Described(c)} = {}
  OBVIOUS
<1> QED BY <1>1, Descriptions, FS_EmptySet

\* In the end.
LEMMA DoneFacts ==
  ASSUME TypeOK, CallsMatch, Done
  PROVE  /\ Len(stack) = 1 /\ stack[1].node = root /\ Active = {}
         /\ stack[1].next - 1 = Len(outcomes[root].details)
         /\ \A x : x \in AllLines <=> \E i \in 1 .. Len(stack[1].lines) : x = stack[1].lines[i]
<1>1. Len(stack) = 1 /\ stack[1].node = root /\ ~Printing /\ Top = stack[1]
  BY TopFacts DEF Done, CallsMatch
<1>2. stack[1].next - 1 = Len(outcomes[root].details)
  <2>1. stack[1].next = Len(outcomes[root].details) + 1
    BY <1>1, TopFacts
  <2> QED BY <2>1, GraphFacts
<1>3. Active = {}
  BY <1>1 DEF Active
<1>4. \A x : x \in AllLines <=> \E i \in 1 .. Len(stack[1].lines) : x = stack[1].lines[i]
  <2>1. \A x : x \in LinesIn(stack) <=>
                 \E f \in 1 .. 1 : \E i \in 1 .. Len(stack[f].lines) : x = stack[f].lines[i]
    BY <1>1, LinesElements, SMTT(30)
  <2> QED BY <2>1, LinesNow
<1> QED BY <1>1, <1>2, <1>3, <1>4

LEMMA PlainDone ==
  ASSUME TypeOK, CallsMatch, PlainSoFar, format = "plain", Done
  PROVE  \A x \in Met : Dealt(x, AllLines)
<1> DEFINE T == {root} \cup {c \in Comparison : Described(c) \in AllLines}
<1>1. ASSUME NEW c \in T \cap DOMAIN outcomes, NEW i \in 1 .. Len(outcomes[c].details)
      PROVE  Dealt(outcomes[c].details[i], AllLines)
  <2>1. CASE c = root
    BY <2>1, DoneFacts DEF PlainSoFar, CallsDealt
  <2>2. CASE c # root
    BY <2>2, DoneFacts DEF PlainSoFar, DescribedDealt
  <2> QED BY <2>1, <2>2
<1>2. \A c \in T \cap DOMAIN outcomes : \A i \in 1 .. Len(outcomes[c].details) :
        outcomes[c].details[i] \in Comparison => outcomes[c].details[i] \in T
  BY <1>1 DEF Dealt
<1>3. T \in SUBSET Comparison /\ root \in T
  BY GraphFacts
<1> HIDE DEF T
<1> QED BY <1>1, <1>2, <1>3, MetInside

LEMMA PlainCompleteNow ==
  ASSUME TypeOK, CallsMatch, PlainSoFar
  PROVE  PlainComplete
<1> SUFFICES ASSUME format = "plain", Done
             PROVE  /\ Lines("line not ended") = {}
                    /\ \A c \in Met \cap Comparison :
                         IF outcomes[c].holds_changes THEN Times(c, "described") = 1
                         ELSE Times(c, "described") > 0
  BY DEF PlainComplete
<1>1. Lines("line not ended") = {}
  BY DoneFacts DEF PlainSoFar, AllEnded, Lines
<1>2. ASSUME NEW c \in Met \cap Comparison
      PROVE  IF outcomes[c].holds_changes THEN Times(c, "described") = 1 ELSE Times(c, "described") > 0
  <2>1. Described(c) \in AllLines
    BY PlainDone DEF Dealt
  <2>2. PICK k \in 1 .. Len(stack[1].lines) : stack[1].lines[k] = Described(c)
    BY <2>1, DoneFacts
  <2>3. CASE Holder(c)
    <3>1. OnlyAt(c, 1, k)
      BY <2>2, <2>3, DoneFacts DEF PlainSoFar, DescribedOnce
    <3>2. \A j \in 1 .. Len(stack[1].lines) : stack[1].lines[j] = Described(c) => j = k
      BY <3>1, DoneFacts DEF OnlyAt
    <3> QED BY <2>2, <2>3, <3>2, DescribedTimes DEF Holder
  <2>4. CASE ~Holder(c)
    BY <2>2, <2>4, DescribedTimes DEF Holder
  <2> QED BY <2>3, <2>4
<1> QED BY <1>1, <1>2

\* A reference is right when it is made.
LEMMA ReferencesNow ==
  ASSUME TypeOK, CallsMatch, PlainSoFar, PlainSeenHolder
  PROVE  LET c      == Current
             inside == {stack[f].node : f \in 2 .. Len(stack)}
             how    == stack'[Len(stack)].lines[Len(Top.lines) + 1].how
         IN  /\ c \in inside => how = "being reported"
             /\ c \notin inside =>
                  /\ how = "already reported"
                  /\ \E l \in AllLines : l.node = c /\ l.how = "described"
<1> DEFINE c == Current
           how == IF seen[Current] THEN "already reported" ELSE "being reported"
           made == stack'[Len(stack)].lines[Len(Top.lines) + 1]
<1>1. PrintedStep(OneLine(c, how), FALSE) /\ Mention(c, how) /\ c \in Comparison /\ c \in DOMAIN seen
  BY SeenHolderStep
<1>2. /\ Described(c) \in AllLines
      /\ seen[c] <=> c \notin Active
  BY <1>1 DEF PlainSoFar, SeenSoFar, PlainSeenHolder
<1>3. made = LineFor(c, how)
  <2> HIDE DEF how
  <2> QED BY <1>1, PrintedLines DEF Mention
<1> HIDE DEF made, how
<1>4. made.how = how
  BY <1>3, LineForFacts
<1>5. \E l \in AllLines : l.node = c /\ l.how = "described"
  BY <1>1, <1>2, DescribedFacts
<1>6. /\ c \in Active => made.how = "being reported"
      /\ c \notin Active => made.how = "already reported"
  BY <1>2, <1>4 DEF how
<1> QED BY <1>5, <1>6 DEF Active, made

--------------------------------------------------------------------------------
(***************************************************************************)
(* What is interesting.                                                    *)
(***************************************************************************)
LEMMA InnerReflexive == ASSUME NEW c PROVE InnerReach(outcomes, c, c)
BY DEF InnerReach, Paths!Reach

LEMMA InnerClosed ==
  ASSUME NEW g, NEW c, NEW e, NEW d, e \in Paths!Succ(g, c), c \in Comparison
  PROVE  /\ Paths!Reach(g, e, d) => Paths!Reach(g, c, d)
         /\ Paths!Reach(g, d, c) => Paths!Reach(g, d, e)
<1>1. \A S \in SUBSET Comparison : c \in S /\ Paths!Closed(g, S) => e \in S
  BY DEF Paths!Closed
<1> QED BY <1>1 DEF Paths!Reach

\* An edge to a comparison that holds no differences.
LEMMA InnerEdge ==
  ASSUME TypeOK, NEW c \in Comparison \cap DOMAIN outcomes, NEW i \in 1 .. Len(outcomes[c].details),
         outcomes[c].details[i] \in Inner(outcomes), NEW d
  PROVE  /\ InnerReach(outcomes, outcomes[c].details[i], d) => InnerReach(outcomes, c, d)
         /\ InnerReach(outcomes, d, c) => InnerReach(outcomes, d, outcomes[c].details[i])
<1> DEFINE e == outcomes[c].details[i]
           g == Opened(outcomes, Inner(outcomes))
<1>1. Len(outcomes[c].details) \in Nat
  BY GraphFacts
<1>2. e \in Paths!Succ(g, c)
  BY <1>1, OpenedFacts
<1> HIDE DEF e, g
<1>3. /\ Paths!Reach(g, e, d) => Paths!Reach(g, c, d)
      /\ Paths!Reach(g, d, c) => Paths!Reach(g, d, e)
  BY <1>2, InnerClosed
<1> QED BY <1>3 DEF InnerReach, e, g

\* What is met from c is c, or met from an edge of c.
LEMMA InnerUnfold ==
  ASSUME TypeOK, NEW c \in Comparison \cap DOMAIN outcomes, NEW d, InnerReach(outcomes, c, d)
  PROVE  \/ d = c
         \/ \E i \in 1 .. Len(outcomes[c].details) :
              /\ outcomes[c].details[i] \in Inner(outcomes)
              /\ InnerReach(outcomes, outcomes[c].details[i], d)
<1> DEFINE From(x) == \E i \in 1 .. Len(outcomes[c].details) :
                        /\ outcomes[c].details[i] \in Inner(outcomes)
                        /\ InnerReach(outcomes, outcomes[c].details[i], x)
           T == {x \in Comparison : x = c \/ From(x)}
<1>1. T \in SUBSET Comparison /\ c \in T
  OBVIOUS
<1>2. ASSUME NEW x \in T \cap DOMAIN outcomes, NEW j \in 1 .. Len(outcomes[x].details),
             outcomes[x].details[j] \in Inner(outcomes)
      PROVE  outcomes[x].details[j] \in T
  <2>1. outcomes[x].details[j] \in Comparison
    BY <1>2 DEF Inner
  <2>2. CASE x = c
    <3>1. InnerReach(outcomes, outcomes[c].details[j], outcomes[c].details[j])
      BY InnerReflexive
    <3> QED BY <1>2, <2>1, <2>2, <3>1
  <2>3. CASE From(x)
    <3>1. PICK i \in 1 .. Len(outcomes[c].details) :
            /\ outcomes[c].details[i] \in Inner(outcomes)
            /\ InnerReach(outcomes, outcomes[c].details[i], x)
      BY <2>3
    <3>2. InnerReach(outcomes, outcomes[c].details[i], outcomes[x].details[j])
      BY <1>2, <3>1, InnerEdge
    <3> QED BY <2>1, <3>1, <3>2
  <2> QED BY <2>2, <2>3
<1> HIDE DEF T
<1>3. Paths!Closed(Opened(outcomes, Inner(outcomes)), T)
  BY <1>1, <1>2, OpenedClosed
<1>4. d \in T
  BY <1>1, <1>3 DEF InnerReach, Paths!Reach
<1> QED BY <1>4 DEF T

\* A comparison is interesting if it has a change itself, or by one of its details.
LEMMA InterestUnfold ==
  ASSUME TypeOK, NEW c \in Comparison \cap DOMAIN outcomes
  PROVE  Interesting(c) <=>
           \/ outcomes[c].has_changes
           \/ \E i \in 1 .. Len(outcomes[c].details) :
                LET d == outcomes[c].details[i]
                IN  d \in OneSided \/ (d \in Inner(outcomes) /\ Interesting(d))
<1>1. Changed(c) <=> \/ outcomes[c].has_changes
                     \/ \E i \in 1 .. Len(outcomes[c].details) : outcomes[c].details[i] \in OneSided
  BY ComparisonAssumption DEF Changed, EdgesOf
<1>2. ASSUME Changed(c) PROVE Interesting(c)
  BY <1>2, InnerReflexive DEF Interesting
<1>3. ASSUME NEW i \in 1 .. Len(outcomes[c].details), outcomes[c].details[i] \in Inner(outcomes),
             Interesting(outcomes[c].details[i])
      PROVE  Interesting(c)
  <2>1. PICK d \in DOMAIN outcomes \cap Comparison :
          Changed(d) /\ InnerReach(outcomes, outcomes[c].details[i], d)
    BY <1>3 DEF Interesting
  <2>2. InnerReach(outcomes, c, d)
    BY <1>3, <2>1, InnerEdge
  <2> QED BY <2>1, <2>2 DEF Interesting
<1>4. ASSUME Interesting(c)
      PROVE  \/ Changed(c)
             \/ \E i \in 1 .. Len(outcomes[c].details) :
                  /\ outcomes[c].details[i] \in Inner(outcomes)
                  /\ Interesting(outcomes[c].details[i])
  <2>1. PICK d \in DOMAIN outcomes \cap Comparison : Changed(d) /\ InnerReach(outcomes, c, d)
    BY <1>4 DEF Interesting
  <2>2. CASE d = c
    BY <2>1, <2>2
  <2>3. CASE \E i \in 1 .. Len(outcomes[c].details) :
               /\ outcomes[c].details[i] \in Inner(outcomes)
               /\ InnerReach(outcomes, outcomes[c].details[i], d)
    BY <2>1, <2>3 DEF Interesting
  <2> QED BY <2>1, <2>2, <2>3, InnerUnfold
<1> QED BY <1>1, <1>2, <1>3, <1>4

\* What is covered.
LEMMA CoveredMore ==
  ASSUME NEW o, NEW c, NEW S, NEW T, NEW H, NEW J, S \subseteq T, H \subseteq J, Covered(o, c, S, H)
  PROVE  Covered(o, c, T, J)
BY DEF Covered

LEMMA CoveredFrom ==
  ASSUME TypeOK, NEW c \in Comparison \cap DOMAIN outcomes, NEW S, NEW H,
         outcomes[c].has_changes => c \in S,
         \A i \in 1 .. Len(outcomes[c].details) :
           LET d == outcomes[c].details[i]
           IN  /\ d \in OneSided => d \in S
               /\ d \in Comparison /\ Holder(d) => d \in H
               /\ d \in Inner(outcomes) => Covered(outcomes, d, S, H)
  PROVE  Covered(outcomes, c, S, H)
<1> SUFFICES ASSUME NEW d \in DOMAIN outcomes \cap Comparison, InnerReach(outcomes, c, d)
             PROVE  /\ outcomes[d].has_changes => d \in S
                    /\ \A e \in EdgesOf(outcomes[d].details) :
                         /\ e \in OneSided => e \in S
                         /\ e \in Comparison /\ outcomes[e].holds_changes => e \in H
  BY DEF Covered
<1>1. CASE d = c
  BY <1>1 DEF EdgesOf, Holder
<1>2. CASE \E i \in 1 .. Len(outcomes[c].details) :
             /\ outcomes[c].details[i] \in Inner(outcomes)
             /\ InnerReach(outcomes, outcomes[c].details[i], d)
  <2>1. PICK i \in 1 .. Len(outcomes[c].details) :
             /\ outcomes[c].details[i] \in Inner(outcomes)
             /\ InnerReach(outcomes, outcomes[c].details[i], d)
    BY <1>2
  <2>2. Covered(outcomes, outcomes[c].details[i], S, H)
    BY <2>1
  <2> QED BY <2>1, <2>2 DEF Covered
<1> QED BY <1>1, <1>2, InnerUnfold

\* What is not interesting has nothing to cover but its sections.
LEMMA CoveredWithout ==
  ASSUME TypeOK, NEW c, ~Interesting(c), NEW S, NEW T, NEW H, Covered(outcomes, c, S, H)
  PROVE  Covered(outcomes, c, T, H)
<1> SUFFICES ASSUME NEW d \in DOMAIN outcomes \cap Comparison, InnerReach(outcomes, c, d)
             PROVE  /\ outcomes[d].has_changes => d \in T
                    /\ \A e \in EdgesOf(outcomes[d].details) :
                         /\ e \in OneSided => e \in T
                         /\ e \in Comparison /\ outcomes[e].holds_changes => e \in H
  BY DEF Covered
<1>1. ~Changed(d)
  BY DEF Interesting
<1>2. ~outcomes[d].has_changes /\ EdgesOf(outcomes[d].details) \cap OneSided = {}
  BY <1>1 DEF Changed
<1> QED BY <1>2 DEF Covered

--------------------------------------------------------------------------------
(***************************************************************************)
(* The sections of a flat report.                                          *)
(***************************************************************************)
LEMMA QueueAppend ==
  ASSUME TypeOK, QueuedOnce, NEW c \in Comparison \cap DOMAIN outcomes, c \notin Queued,
         todo' = Append(todo, c)
  PROVE  QueuedOnce' /\ \A x : x \in Queued' <=> x \in Queued \/ x = c
<1> DEFINE n == Len(todo)
<1>1. todo \in Seq(Comparison \cap DOMAIN outcomes) /\ n \in Nat
  BY DEF TypeOK
<1>2. /\ Len(todo') = n + 1 /\ todo'[n + 1] = c
      /\ \A k \in 1 .. n : todo'[k] = todo[k]
  BY <1>1, AppendProperties
<1>3. \A k \in 1 .. n : todo[k] # c
  BY DEF Queued
<1>4. \A k \in 1 .. n + 1 : k = n + 1 \/ k \in 1 .. n
  BY <1>1
<1>5. QueuedOnce'
  <2>1. \A k, l \in 1 .. n + 1 : todo'[k] = todo'[l] => k = l
    BY <1>2, <1>3, <1>4 DEF QueuedOnce
  <2> QED BY <1>2, <2>1 DEF QueuedOnce
<1>6. ASSUME NEW x PROVE x \in Queued' <=> x \in Queued \/ x = c
  <2>1. x \in Queued' <=> \E k \in 1 .. n + 1 : x = todo'[k]
    BY <1>2 DEF Queued
  <2>2. x \in Queued <=> \E k \in 1 .. n : x = todo[k]
    BY DEF Queued
  <2>3. n + 1 \in 1 .. n + 1 /\ \A k \in 1 .. n : k \in 1 .. n + 1
    BY <1>1
  <2> QED BY <1>2, <1>4, <2>1, <2>2, <2>3
<1> QED BY <1>5, <1>6

LEMMA QueueTail ==
  ASSUME TypeOK, QueuedOnce, todo # << >>, todo' = Tail(todo)
  PROVE  /\ QueuedOnce' /\ Head(todo) \notin Queued'
         /\ \A x : x \in Queued <=> x \in Queued' \/ x = Head(todo)
<1> DEFINE n == Len(todo)
<1>1. todo \in Seq(Comparison \cap DOMAIN outcomes) /\ n \in Nat /\ n >= 1
  BY EmptySeq, LenProperties DEF TypeOK
<1>2. Len(todo') = n - 1 /\ Head(todo) = todo[1] /\ \A k \in 1 .. n - 1 : todo'[k] = todo[k + 1]
  BY <1>1, HeadTailProperties
<1>3. \A k \in 1 .. n - 1 : k + 1 \in 1 .. n /\ k + 1 # 1
  BY <1>1
<1>4. \A k \in 1 .. n : k = 1 \/ (k - 1 \in 1 .. n - 1 /\ k - 1 + 1 = k)
  BY <1>1
<1>5. QueuedOnce'
  <2>1. ASSUME NEW k \in 1 .. n - 1, NEW l \in 1 .. n - 1, todo'[k] = todo'[l]
        PROVE  k = l
    <3>1. k + 1 = l + 1
      BY <1>2, <1>3, <2>1 DEF QueuedOnce
    <3> QED BY <3>1
  <2> QED BY <1>2, <2>1 DEF QueuedOnce
<1>6. \A x : x \in Queued' <=> \E k \in 1 .. n - 1 : x = todo[k + 1]
  <2>1. \A x : x \in Queued' <=> \E k \in 1 .. n - 1 : x = todo'[k]
    BY <1>2 DEF Queued
  <2> QED BY <1>2, <2>1
<1>7. \A x : x \in Queued <=> \E k \in 1 .. n : x = todo[k]
  BY DEF Queued
<1>8. 1 \in 1 .. n
  BY <1>1
<1>9. Head(todo) \notin Queued'
  BY <1>2, <1>3, <1>6, <1>8 DEF QueuedOnce
<1>10. ASSUME NEW x PROVE x \in Queued <=> x \in Queued' \/ x = Head(todo)
  <2>1. ASSUME x \in Queued PROVE x \in Queued' \/ x = Head(todo)
    <3>1. PICK k \in 1 .. n : x = todo[k]
      BY <1>7, <2>1
    <3>2. CASE k = 1
      BY <3>1, <3>2, <1>2
    <3>3. CASE k # 1
      <4>1. k - 1 \in 1 .. n - 1 /\ x = todo[k - 1 + 1]
        BY <3>1, <3>3, <1>4
      <4> QED BY <4>1, <1>6
    <3> QED BY <3>2, <3>3
  <2>2. ASSUME x \in Queued' \/ x = Head(todo) PROVE x \in Queued
    BY <2>2, <1>2, <1>3, <1>6, <1>7, <1>8
  <2> QED BY <2>1, <2>2
<1> QED BY <1>5, <1>9, <1>10

\* What the sections are after each kind of step.
LEMMA SectionCallsPrinted ==
  ASSUME TypeOK, SectionCalls, NEW more \in Seq(Line), NEW b \in BOOLEAN, PrintedStep(more, b)
  PROVE  SectionCalls'
<1>1. /\ outcomes' = outcomes /\ Len(stack') = Len(stack)
      /\ \A f \in 1 .. Len(stack) : stack'[f].node = stack[f].node
      /\ \A f \in 1 .. Len(stack) - 1 : stack'[f] = stack[f]
  BY PrintedActive, PrintedFacts DEF PrintedStep
<1>2. ASSUME NEW f \in 2 .. Len(stack)
      PROVE  outcomes[stack'[f].node].holds_changes <=> f = 2 /\ ~Within(1)'
  <2>1. 1 \in 1 .. Len(stack) - 1 /\ f \in 1 .. Len(stack)
    BY StackFacts
  <2>2. stack'[f].node = stack[f].node /\ stack'[1] = stack[1]
    BY <1>1, <2>1
  <2>3. Within(1)' <=> Within(1)
    BY <1>1, <2>2 DEF Within
  <2>4. outcomes[stack[f].node].holds_changes <=> f = 2 /\ ~Within(1)
    BY DEF SectionCalls, Holder
  <2> QED BY <2>2, <2>3, <2>4
<1> QED BY <1>1, <1>2 DEF SectionCalls, Holder

LEMMA SectionsPrinted ==
  ASSUME TypeOK, SectionsSoFar, NEW more \in Seq(Line), NEW b \in BOOLEAN, PrintedStep(more, b),
         seen' = seen /\ todo' = todo
  PROVE  SectionsSoFar' /\ Sections' = Sections
<1>1. Active' = Active /\ outcomes' = outcomes
  BY PrintedActive DEF PrintedStep
<1>2. Called' = Called /\ Queued' = Queued
  BY <1>1 DEF Called, Queued, Holder
<1>3. SectionCalls'
  BY SectionCallsPrinted DEF SectionsSoFar
<1>4. QueuedOnce' /\ \A c \in DOMAIN seen' : Holder(c)'
  BY <1>1 DEF SectionsSoFar, QueuedOnce, Holder
<1>5. Called' \cup Queued' \subseteq DOMAIN seen' /\ Called' \cap Queued' = {}
  BY <1>2 DEF SectionsSoFar
<1> QED BY <1>2, <1>3, <1>4, <1>5 DEF Sections, SectionsSoFar

LEMMA SectionsStop ==
  ASSUME TypeOK, SectionsSoFar, NEW more \in Seq(Line), NEW b \in BOOLEAN, PrintedStep(more, b), FlatStop
  PROVE  SectionsSoFar' /\ Sections' = Sections /\ DOMAIN seen' = DOMAIN seen \cup {Current}
<1> DEFINE c == Current
<1>1. Active' = Active /\ outcomes' = outcomes
  BY PrintedActive DEF PrintedStep
<1>2. c \in Comparison \cap DOMAIN outcomes /\ Holder(c)
  BY TopFacts, ComparisonAssumption DEF FlatStop
<1>3. DOMAIN seen' = DOMAIN seen \cup {c}
  BY DEF FlatStop, WithSeen
<1>4. todo' = IF c \in DOMAIN seen THEN todo ELSE Append(todo, c)
  BY DEF FlatStop, QueueNew
<1>5. Called' = Called
  BY <1>1 DEF Called, Holder
<1>6. SectionCalls'
  BY SectionCallsPrinted DEF SectionsSoFar
<1> HIDE DEF c
<1>7. \A d \in DOMAIN seen' : Holder(d)'
  BY <1>1, <1>2, <1>3 DEF SectionsSoFar, Holder
<1>8. /\ QueuedOnce'
      /\ \A x : x \in Queued' <=> x \in Queued \/ (x = c /\ c \notin DOMAIN seen)
  <2>1. CASE c \in DOMAIN seen
    BY <1>4, <2>1 DEF Queued, SectionsSoFar, QueuedOnce
  <2>2. CASE c \notin DOMAIN seen
    <3>1. c \notin Queued
      BY <2>2 DEF SectionsSoFar
    <3> QED BY <1>2, <1>4, <2>2, <3>1, QueueAppend DEF SectionsSoFar
  <2> QED BY <2>1, <2>2
<1>9. Called' \cup Queued' \subseteq DOMAIN seen' /\ Called' \cap Queued' = {}
  BY <1>3, <1>5, <1>8 DEF SectionsSoFar
<1>10. Sections' = Sections
  BY <1>3, <1>5, <1>8 DEF Sections, SectionsSoFar
<1> QED BY <1>3, <1>6, <1>7, <1>8, <1>9, <1>10 DEF SectionsSoFar, c

LEMMA SectionCallsCalled ==
  ASSUME TypeOK, CallsMatch, SectionCalls, NEW c \in Comparison \cap DOMAIN outcomes,
         NEW b \in BOOLEAN, NEW l \in Seq(Line), CallStep(c, b, l), Holder(c) <=> ~Printing
  PROVE  SectionCalls'
<1> DEFINE n == Len(stack)
<1>1. /\ n \in Nat /\ n >= 1 /\ Len(stack') = n + 1 /\ outcomes' = outcomes
      /\ \A f \in 1 .. n : stack'[f] = stack[f]
      /\ stack'[n + 1].node = c
  BY CallStepFacts, StackFacts DEF CallStep
<1>2. Within(1)' <=> Within(1)
  BY <1>1 DEF Within
<1> HIDE DEF n
<1>3. ASSUME NEW f \in 2 .. n + 1
      PROVE  outcomes[stack'[f].node].holds_changes <=> f = 2 /\ ~Within(1)'
  <2>1. CASE f = n + 1
    <3>1. outcomes[stack'[f].node].holds_changes <=> ~Printing
      BY <2>1, <1>1 DEF Holder
    <3>2. CASE n = 1
      BY <2>1, <3>1, <3>2, <1>2, TopFacts DEF n
    <3>3. CASE n # 1
      <4>1. Printing
        BY <3>3 DEF CallStep, n
      <4>2. f # 2
        BY <2>1, <3>3, <1>1
      <4> QED BY <3>1, <4>1, <4>2
    <3> QED BY <3>2, <3>3
  <2>2. CASE f # n + 1
    <3>1. f \in 2 .. n /\ f \in 1 .. n
      BY <2>2, <1>1
    <3>2. outcomes[stack[f].node].holds_changes <=> f = 2 /\ ~Within(1)
      BY <3>1 DEF SectionCalls, Holder, n
    <3>3. stack'[f] = stack[f]
      BY <3>1, <1>1
    <3> QED BY <3>2, <3>3, <1>2
  <2> QED BY <2>1, <2>2
<1> QED BY <1>1, <1>3 DEF SectionCalls, Holder

LEMMA SectionsOpened ==
  ASSUME TypeOK, CallsMatch, SectionsSoFar, NEW c \in Comparison \cap DOMAIN outcomes,
         NEW b \in BOOLEAN, NEW l \in Seq(Line), CallStep(c, b, l), Printing, ~Holder(c),
         seen' = seen /\ todo' = todo
  PROVE  SectionsSoFar' /\ Sections' = Sections
<1>1. outcomes' = outcomes /\ \A x : x \in Active' <=> x \in Active \/ x = c
  BY CallActive DEF CallStep
<1>2. Called' = Called
  BY <1>1 DEF Called, Holder
<1>3. Queued' = Queued
  BY DEF Queued
<1>4. SectionCalls'
  BY SectionCallsCalled DEF SectionsSoFar
<1>5. QueuedOnce' /\ \A d \in DOMAIN seen' : Holder(d)'
  BY <1>1 DEF SectionsSoFar, QueuedOnce, Holder
<1>6. Called' \cup Queued' \subseteq DOMAIN seen' /\ Called' \cap Queued' = {}
  BY <1>2, <1>3 DEF SectionsSoFar
<1> QED BY <1>2, <1>3, <1>4, <1>5, <1>6 DEF Sections, SectionsSoFar

LEMMA SectionsCalled ==
  ASSUME TypeOK, CallsMatch, SectionsSoFar, NEW c \in Comparison \cap DOMAIN outcomes,
         NEW b \in BOOLEAN, NEW l \in Seq(Line), CallStep(c, b, l), ~Printing, Holder(c),
         c = Head(todo), todo # << >>, seen' = seen /\ todo' = Tail(todo)
  PROVE  SectionsSoFar' /\ Sections' = Sections
<1>1. outcomes' = outcomes /\ \A x : x \in Active' <=> x \in Active \/ x = c
  BY CallActive DEF CallStep
<1>2. \A x : x \in Called' <=> x \in Called \/ x = c
  BY <1>1 DEF Called, Holder
<1>3. QueuedOnce' /\ c \notin Queued' /\ \A x : x \in Queued <=> x \in Queued' \/ x = c
  BY QueueTail DEF SectionsSoFar
<1>4. SectionCalls'
  BY SectionCallsCalled DEF SectionsSoFar
<1>5. \A d \in DOMAIN seen' : Holder(d)'
  BY <1>1 DEF SectionsSoFar, Holder
<1>6. Called' \cup Queued' \subseteq DOMAIN seen' /\ Called' \cap Queued' = {}
  BY <1>2, <1>3 DEF SectionsSoFar
<1>7. Sections' = Sections
  BY <1>2, <1>3 DEF Sections
<1> QED BY <1>3, <1>4, <1>5, <1>6, <1>7 DEF SectionsSoFar

\* The call for a section is the second, so a return ends at most one.
LEMMA SectionsReturned ==
  ASSUME TypeOK, CallsMatch, SectionsSoFar, NEW b \in BOOLEAN, NEW l \in Seq(Line), ReturnStep(b, l),
         seen' = seen /\ todo' = todo
  PROVE  /\ SectionsSoFar'
         /\ Holder(Top.node) => /\ Len(stack) = 2 /\ Top.node \notin Sections
                                /\ \A x : x \in Sections' <=> x \in Sections \/ x = Top.node
         /\ ~Holder(Top.node) => Sections' = Sections
<1> DEFINE m == Len(stack) - 1
           c == Top.node
<1>1. /\ m \in Nat /\ m >= 1 /\ Len(stack) = m + 1 /\ Len(stack') = m /\ Top = stack[m + 1]
      /\ outcomes' = outcomes
      /\ \A f \in 1 .. m - 1 : stack'[f] = stack[f]
      /\ \A f \in 1 .. m : stack'[f].node = stack[f].node
  <2>1. m \in Nat /\ m >= 1 /\ Len(stack') = m /\ \A f \in 1 .. m - 1 : stack'[f] = stack[f]
    BY ReturnStepFacts
  <2>2. Len(stack) = m + 1 /\ Top = stack[m + 1]
    BY StackFacts, TopFacts
  <2>3. \A f \in 1 .. m : stack'[f].node = stack[f].node
    BY ReturnActive
  <2>4. outcomes' = outcomes
    BY DEF ReturnStep
  <2> QED BY <2>1, <2>2, <2>3, <2>4
<1>2. /\ \A x : x \in Active <=> x \in Active' \/ x = c
      /\ \A x : x \in Active' <=> \E f \in 2 .. m : x = stack[f].node
  BY ReturnActive
<1> HIDE DEF m, c
<1>3. Queued' = Queued
  BY DEF Queued
<1>4. SectionCalls'
  <2>1. ASSUME NEW f \in 2 .. m
        PROVE  outcomes[stack'[f].node].holds_changes <=> f = 2 /\ ~Within(1)'
    <3>1. f \in 2 .. Len(stack) /\ f \in 1 .. m /\ 1 \in 1 .. m - 1
      BY <1>1
    <3>2. Within(1)' <=> Within(1)
      BY <1>1, <3>1 DEF Within
    <3>3. outcomes[stack[f].node].holds_changes <=> f = 2 /\ ~Within(1)
      BY <3>1 DEF SectionsSoFar, SectionCalls, Holder
    <3> QED BY <1>1, <3>1, <3>2, <3>3
  <2> QED BY <1>1, <2>1 DEF SectionCalls, Holder
<1>5. ASSUME Holder(c) PROVE m = 1 /\ Active' = {} /\ c \in Called
  <2>1. m + 1 \in 2 .. Len(stack)
    BY <1>1
  <2>2. m + 1 = 2
    BY <1>1, <1>5, <2>1 DEF SectionsSoFar, SectionCalls, c
  <2>3. m = 1
    BY <1>1, <2>2
  <2>4. Active' = {}
    BY <1>2, <2>3
  <2> QED BY <1>2, <1>5, <2>3, <2>4 DEF Called
<1>6. /\ Called' \subseteq Called
      /\ Holder(c) => Called' = {} /\ Called = {c}
      /\ ~Holder(c) => Called' = Called
  BY <1>1, <1>2, <1>5 DEF Called, Holder
<1>7. QueuedOnce' /\ \A d \in DOMAIN seen' : Holder(d)'
  BY <1>1 DEF SectionsSoFar, QueuedOnce, Holder
<1>8. Called' \cup Queued' \subseteq DOMAIN seen' /\ Called' \cap Queued' = {}
  BY <1>3, <1>6 DEF SectionsSoFar
<1>9. SectionsSoFar'
  BY <1>4, <1>7, <1>8 DEF SectionsSoFar
<1>10. ASSUME Holder(c)
       PROVE  /\ Len(stack) = 2 /\ c \notin Sections
              /\ \A x : x \in Sections' <=> x \in Sections \/ x = c
  <2>1. c \in DOMAIN seen /\ c \notin Queued
    BY <1>5, <1>10 DEF SectionsSoFar
  <2> QED BY <1>1, <1>3, <1>5, <1>6, <1>10, <2>1 DEF Sections
<1>11. ~Holder(c) => Sections' = Sections
  BY <1>3, <1>6 DEF Sections
<1> QED BY <1>9, <1>10, <1>11 DEF c

--------------------------------------------------------------------------------
(***************************************************************************)
(* What a flat report has printed and passed.                              *)
(***************************************************************************)
LEMMA SameInterest ==
  ASSUME outcomes' = outcomes
  PROVE  /\ \A c : Interesting(c)' <=> Interesting(c)
         /\ \A c, S, H : Covered(outcomes, c, S, H)' <=> Covered(outcomes, c, S, H)
         /\ Inner(outcomes)' = Inner(outcomes)
         /\ \A c : Holder(c)' <=> Holder(c)
BY DEF Interesting, Changed, Holder

\* The parts of FlatSoFar other than SectionsSoFar.
FlatLines == /\ DescriptionsSoFar
             /\ SectionsOnce
             /\ SectionsDescribed
             /\ NoneStopped
             /\ InterestSoFar
             /\ CallsCovered
             /\ SectionsCovered

LEMMA PassedElements ==
  ASSUME NEW f, NEW x
  PROVE  /\ x \in Passed(f) <=> \E i \in 1 .. stack[f].next - 1 : x = outcomes[stack[f].node].details[i]
         /\ x \in Lined(f) <=> \E i \in 1 .. Len(stack[f].lines) : x = stack[f].lines[i].node
         /\ x \in Passed(f)' <=> \E i \in 1 .. stack'[f].next - 1 : x = outcomes'[stack'[f].node].details[i]
         /\ x \in Lined(f)' <=> \E i \in 1 .. Len(stack'[f].lines) : x = stack'[f].lines[i].node
BY DEF Passed, Lined

LEMMA PrintedPassed ==
  ASSUME TypeOK, NEW more \in Seq(Line), NEW b \in BOOLEAN, PrintedStep(more, b), NEW f \in 1 .. Len(stack)
  PROVE  /\ \A x : x \in Passed(f)' <=> x \in Passed(f) \/ (f = Len(stack) /\ x = Current)
         /\ Lined(f) \subseteq Lined(f)'
         /\ f = Len(stack) => \A i \in 1 .. Len(more) : more[i].node \in Lined(f)'
<1> DEFINE n == Len(stack)
           k == Top.next
           d == outcomes[Top.node].details
<1>1. /\ n \in Nat /\ n >= 1 /\ Top = stack[n] /\ k \in Nat /\ k >= 1 /\ outcomes' = outcomes
      /\ Current = d[k]
  BY StackFacts, TopFacts DEF PrintedStep
<1>2. /\ \A g \in 1 .. n - 1 : stack'[g] = stack[g]
      /\ stack'[n].node = Top.node /\ stack'[n].next = k + 1
  BY PrintedFacts
<1>3. ASSUME f # n PROVE Passed(f)' = Passed(f)
  <2>1. stack'[f] = stack[f]
    BY <1>1, <1>2, <1>3
  <2> QED BY <2>1, <1>1 DEF Passed
<1>4. ASSUME f = n, NEW x PROVE x \in Passed(f)' <=> x \in Passed(f) \/ x = Current
  <2> DEFINE next == stack'[f].next
             node == stack'[f].node
  <2>1. next = k + 1 /\ node = Top.node
    BY <1>2, <1>4
  <2>2. x \in Passed(f)' <=> \E i \in 1 .. next - 1 : x = outcomes[node].details[i]
    BY <1>1, PassedElements
  <2> HIDE DEF next, node
  <2>3. x \in Passed(f)' <=> \E i \in 1 .. k + 1 - 1 : x = d[i]
    BY <1>1, <2>1, <2>2
  <2>4. x \in Passed(f) <=> \E i \in 1 .. k - 1 : x = d[i]
    BY <1>1, <1>4, PassedElements
  <2>5. \A i : i \in 1 .. k + 1 - 1 <=> i \in 1 .. k - 1 \/ i = k
    BY <1>1
  <2> QED BY <1>1, <2>3, <2>4, <2>5
<1>5. ASSUME NEW x \in Lined(f) PROVE x \in Lined(f)'
  <2>1. PICK i \in 1 .. Len(stack[f].lines) : x = stack[f].lines[i].node
    BY PassedElements
  <2>2. i \in 1 .. Len(stack'[f].lines) /\ stack'[f].lines[i] = stack[f].lines[i]
    BY PrintedMore
  <2> QED BY <2>1, <2>2, PassedElements
<1>6. ASSUME f = n, NEW i \in 1 .. Len(more) PROVE more[i].node \in Lined(f)'
  <2>1. /\ Len(Top.lines) + i \in 1 .. Len(stack'[f].lines)
        /\ stack'[f].lines[Len(Top.lines) + i] = more[i]
    BY <1>6, PrintedMore
  <2> QED BY <2>1, PassedElements
<1> QED BY <1>3, <1>4, <1>5, <1>6

\* Lines of other kinds.
Stops(line) == line.how = "stopped at"

Quiet(more) == \A i \in 1 .. Len(more) : /\ more[i].how # "described"
                                         /\ format = "small" => ~Stops(more[i])

LEMMA QuietFacts ==
  ASSUME NEW more \in Seq(Line), Quiet(more), NEW i \in 1 .. Len(more)
  PROVE  /\ \A c \in Comparison : more[i] # Described(c)
         /\ format = "small" => ~Stops(more[i])
BY DescribedFacts, Zenon DEF Quiet

LEMMA NoneStoppedFacts ==
  /\ NoneStopped <=> (format = "small" => \A line \in LinesIn(stack) : ~Stops(line))
  /\ NoneStopped' <=> (format' = "small" => \A line \in LinesIn(stack') : ~Stops(line))
BY LinesNow, Zenon DEF NoneStopped, Stops

\* A detail that is not opened is printed in a flat report.
LEMMA FlatPrinted ==
  ASSUME TypeOK, FlatLines, NEW more \in Seq(Line), NEW b \in BOOLEAN, PrintedStep(more, b),
         Quiet(more), DOMAIN seen \subseteq DOMAIN seen', Sections' = Sections,
         b <=> Current \in OneSided,
         Current \in OneSided => \E i \in 1 .. Len(more) : more[i].node = Current,
         Current \in Comparison => Holder(Current) /\ Current \in DOMAIN seen'
  PROVE  FlatLines'
<1> DEFINE n == Len(stack)
<1>1. /\ n \in Nat /\ n >= 1 /\ Len(stack') = n /\ Top = stack[n]
      /\ outcomes' = outcomes /\ format' = format
      /\ \A f \in 1 .. n - 1 : stack'[f] = stack[f]
      /\ \A f \in 1 .. n : stack'[f].node = stack[f].node
      /\ stack'[n].interesting <=> Top.interesting \/ b
  BY PrintedFacts, PrintedActive, StackFacts, TopFacts DEF PrintedStep
<1>2. /\ \A f \in 1 .. n : \A i \in 1 .. Len(stack[f].lines) :
           i \in 1 .. Len(stack'[f].lines) /\ stack'[f].lines[i] = stack[f].lines[i]
      /\ \A f \in 1 .. n : \A i \in 1 .. Len(stack'[f].lines) :
           \/ i \in 1 .. Len(stack[f].lines) /\ stack'[f].lines[i] = stack[f].lines[i]
           \/ \E j \in 1 .. Len(more) : stack'[f].lines[i] = more[j]
  <2>1. \A f \in 1 .. n : \A i \in 1 .. Len(stack[f].lines) :
          i \in 1 .. Len(stack'[f].lines) /\ stack'[f].lines[i] = stack[f].lines[i]
    BY PrintedMore
  <2>2. ASSUME NEW f \in 1 .. n, NEW i \in 1 .. Len(stack'[f].lines)
        PROVE  \/ i \in 1 .. Len(stack[f].lines) /\ stack'[f].lines[i] = stack[f].lines[i]
               \/ \E j \in 1 .. Len(more) : stack'[f].lines[i] = more[j]
    <3>1. \/ i \in 1 .. Len(stack[f].lines) /\ stack'[f].lines[i] = stack[f].lines[i]
          \/ /\ f = Len(stack) /\ i - Len(Top.lines) \in 1 .. Len(more)
             /\ stack'[f].lines[i] = more[i - Len(Top.lines)]
      BY PrintedMore
    <3> QED BY <3>1
  <2> QED BY <2>1, <2>2
<1>3. \A f \in 1 .. n : \A i \in 1 .. Len(stack'[f].lines) : \A c \in Comparison :
        stack'[f].lines[i] = Described(c) =>
          i \in 1 .. Len(stack[f].lines) /\ stack[f].lines[i] = Described(c)
  BY <1>2, QuietFacts
<1>4. \A f \in 1 .. n : /\ \A x : x \in Passed(f)' <=> x \in Passed(f) \/ (f = n /\ x = Current)
                        /\ Lined(f) \subseteq Lined(f)'
                        /\ f = n => \A i \in 1 .. Len(more) : more[i].node \in Lined(f)'
  BY PrintedPassed
<1>5. /\ \A c : Interesting(c)' <=> Interesting(c)
      /\ \A c, S, H : Covered(outcomes, c, S, H)' <=> Covered(outcomes, c, S, H)
      /\ Inner(outcomes)' = Inner(outcomes)
      /\ \A c : Holder(c)' <=> Holder(c)
  BY <1>1, SameInterest
<1>6. Current \notin Inner(outcomes)
  BY DEF Inner, Holder
<1> HIDE DEF n
<1>7. DescriptionsSoFar'
  <2> SUFFICES ASSUME NEW f \in 1 .. n, NEW i \in (IF f = 1 THEN 1 ELSE 2) .. Len(stack'[f].lines),
                      NEW c \in Comparison, stack'[f].lines[i] = Described(c)
               PROVE  /\ Holder(c) => f = 1 /\ c \in Sections
                      /\ format = "small" => Interesting(c)
    BY <1>1, <1>5 DEF DescriptionsSoFar
  <2>1. i \in 1 .. Len(stack'[f].lines)
    OBVIOUS
  <2>2. i \in (IF f = 1 THEN 1 ELSE 2) .. Len(stack[f].lines) /\ stack[f].lines[i] = Described(c)
    BY <1>3, <2>1
  <2> QED BY <2>2 DEF FlatLines, DescriptionsSoFar, n
<1>8. SectionsOnce'
  <2>1. 1 \in 1 .. n
    BY <1>1
  <2> QED BY <2>1, <1>3, <1>5 DEF FlatLines, SectionsOnce
<1>9. SectionsDescribed'
  <2>1. 1 \in 1 .. n
    BY <1>1
  <2> QED BY <2>1, <1>1, <1>2, <1>5 DEF FlatLines, SectionsDescribed
<1>10. NoneStopped'
  <2> SUFFICES ASSUME format = "small", NEW x \in LinesIn(stack') PROVE ~Stops(x)
    BY <1>1, NoneStoppedFacts
  <2>1. PICK f \in 1 .. n : \E i \in 1 .. Len(stack'[f].lines) : x = stack'[f].lines[i]
    BY <1>1, LinesElements
  <2>2. PICK i \in 1 .. Len(stack'[f].lines) : x = stack'[f].lines[i]
    BY <2>1
  <2>3. CASE i \in 1 .. Len(stack[f].lines) /\ stack'[f].lines[i] = stack[f].lines[i]
    <3>1. x \in LinesIn(stack)
      BY <2>2, <2>3, LinesElements DEF n
    <3> QED BY <3>1, NoneStoppedFacts DEF FlatLines
  <2> QED BY <1>2, <2>2, <2>3, QuietFacts
<1>11. InterestSoFar'
  <2> SUFFICES ASSUME NEW f \in 2 .. n
               PROVE  stack'[f].interesting <=>
                        \/ outcomes[stack'[f].node].has_changes
                        \/ \E d \in Passed(f)' : d \in OneSided \/ (d \in Inner(outcomes) /\ Interesting(d))
    BY <1>1, <1>5 DEF InterestSoFar
  <2>1. f \in 1 .. n /\ f \in 2 .. Len(stack)
    BY DEF n
  <2>2. stack[f].interesting <=>
          \/ outcomes[stack[f].node].has_changes
          \/ \E d \in Passed(f) : d \in OneSided \/ (d \in Inner(outcomes) /\ Interesting(d))
    BY <2>1 DEF FlatLines, InterestSoFar
  <2>3. stack'[f].interesting <=> stack[f].interesting \/ (f = n /\ Current \in OneSided)
    BY <1>1, <2>1
  <2> QED BY <1>1, <1>4, <1>6, <2>1, <2>2, <2>3
<1>12. CallsCovered'
  <2> SUFFICES ASSUME NEW f \in 1 .. n, NEW d \in Passed(f)'
               PROVE  /\ d \in OneSided => d \in Lined(f)'
                      /\ d \in Comparison /\ Holder(d) => d \in DOMAIN seen'
                      /\ d \in Inner(outcomes) => Covered(outcomes, d, Lined(f)', DOMAIN seen')
    BY <1>1, <1>5 DEF CallsCovered
  <2>1. CASE d \in Passed(f)
    <3>1. /\ d \in OneSided => d \in Lined(f)
          /\ d \in Comparison /\ Holder(d) => d \in DOMAIN seen
          /\ d \in Inner(outcomes) => Covered(outcomes, d, Lined(f), DOMAIN seen)
      BY <2>1 DEF FlatLines, CallsCovered, n
    <3> QED BY <1>4, <3>1, CoveredMore
  <2>2. CASE f = n /\ d = Current
    BY <1>4, <1>6, <2>2
  <2> QED BY <1>4, <2>1, <2>2
<1>13. SectionsCovered'
  <2> SUFFICES ASSUME NEW c \in Sections PROVE Covered(outcomes, c, Lined(1)', DOMAIN seen')
    BY <1>1, <1>5 DEF SectionsCovered
  <2>1. Covered(outcomes, c, Lined(1), DOMAIN seen)
    BY DEF FlatLines, SectionsCovered
  <2>2. 1 \in 1 .. n
    BY <1>1
  <2> QED BY <1>4, <2>1, <2>2, CoveredMore
<1> QED BY <1>7, <1>8, <1>9, <1>10, <1>11, <1>12, <1>13 DEF FlatLines

\* A call is made in a flat report, for a detail or a section.
LEMMA FlatCalled ==
  ASSUME TypeOK, FlatLines, NEW c \in Comparison \cap DOMAIN outcomes,
         CallStep(c, outcomes[c].has_changes, OneLine(c, "described")),
         seen' = seen, Sections' = Sections
  PROVE  FlatLines'
<1> DEFINE n == Len(stack)
           b == outcomes[c].has_changes
           l == OneLine(c, "described")
<1>1. l \in Seq(Line) /\ Len(l) = 1 /\ l[1] = Described(c) /\ b \in BOOLEAN
  <2>1. l \in Seq(Line) /\ Len(l) = 1 /\ l[1] = Described(c)
    BY OneLineFacts, DescribedFacts DEF Described
  <2>2. b \in BOOLEAN
    BY GraphFacts
  <2> QED BY <2>1, <2>2
<1>2. CallStep(c, b, l)
  OBVIOUS
<1> HIDE DEF l, b
<1>3. /\ n \in Nat /\ n >= 1 /\ Len(stack') = n + 1
      /\ outcomes' = outcomes /\ format' = format
      /\ \A f \in 1 .. n : stack'[f] = stack[f]
      /\ stack'[n + 1].node = c /\ stack'[n + 1].next = 1
      /\ stack'[n + 1].interesting = b /\ stack'[n + 1].lines = l
  BY <1>1, <1>2, CallStepFacts, StackFacts DEF CallStep
<1>4. /\ \A d : Interesting(d)' <=> Interesting(d)
      /\ \A d, S, H : Covered(outcomes, d, S, H)' <=> Covered(outcomes, d, S, H)
      /\ Inner(outcomes)' = Inner(outcomes)
      /\ \A d : Holder(d)' <=> Holder(d)
  BY <1>3, SameInterest
<1>5. \A f \in 1 .. n : Passed(f)' = Passed(f) /\ Lined(f)' = Lined(f)
  BY <1>3 DEF Passed, Lined
<1>6. ASSUME NEW f, f = n + 1, NEW x PROVE x \notin Passed(f)'
  <2>1. x \in Passed(f)' <=> \E i \in 1 .. stack'[f].next - 1 : x = outcomes'[stack'[f].node].details[i]
    BY PassedElements
  <2>2. stack'[f].next - 1 = 0
    BY <1>3, <1>6
  <2> QED BY <2>1, <2>2
<1>7. 1 \in 1 .. n /\ \A f \in 1 .. n + 1 : f = n + 1 \/ f \in 1 .. n
  BY <1>3
<1> HIDE DEF n
<1>8. DescriptionsSoFar'
  <2> SUFFICES ASSUME NEW f \in 1 .. n + 1, NEW i \in (IF f = 1 THEN 1 ELSE 2) .. Len(stack'[f].lines),
                      NEW d \in Comparison, stack'[f].lines[i] = Described(d)
               PROVE  /\ Holder(d) => f = 1 /\ d \in Sections
                      /\ format = "small" => Interesting(d)
    BY <1>3, <1>4 DEF DescriptionsSoFar
  <2>1. f # n + 1
    <3> SUFFICES ASSUME f = n + 1 PROVE FALSE
      OBVIOUS
    <3>1. f # 1 /\ Len(stack'[f].lines) = 1
      BY <1>1, <1>3
    <3> QED BY <3>1
  <2>2. f \in 1 .. n /\ stack'[f] = stack[f]
    BY <1>3, <1>7, <2>1
  <2> QED BY <2>2 DEF FlatLines, DescriptionsSoFar, n
<1>9. SectionsOnce' /\ SectionsDescribed'
  BY <1>3, <1>4, <1>7 DEF FlatLines, SectionsOnce, SectionsDescribed
<1>10. NoneStopped'
  <2> SUFFICES ASSUME format = "small", NEW x \in LinesIn(stack') PROVE ~Stops(x)
    BY <1>3, NoneStoppedFacts
  <2>1. x \in AllLines' <=> x \in AllLines \/ x = Described(c)
    BY <1>1, CallAllLines DEF l, b
  <2>2. ~Stops(Described(c))
    BY DescribedFacts, Zenon DEF Stops
  <2> QED BY <2>1, <2>2, LinesNow, NoneStoppedFacts DEF FlatLines
<1>11. InterestSoFar'
  <2> SUFFICES ASSUME NEW f \in 2 .. n + 1
               PROVE  stack'[f].interesting <=>
                        \/ outcomes[stack'[f].node].has_changes
                        \/ \E d \in Passed(f)' : d \in OneSided \/ (d \in Inner(outcomes) /\ Interesting(d))
    BY <1>3, <1>4 DEF InterestSoFar
  <2>1. CASE f = n + 1
    <3>1. stack'[f].node = c /\ (stack'[f].interesting <=> outcomes[c].has_changes)
      BY <1>3, <2>1 DEF b
    <3> QED BY <1>6, <2>1, <3>1
  <2>2. CASE f # n + 1
    <3>1. f \in 1 .. n /\ f \in 2 .. n
      BY <1>3, <2>2
    <3>2. stack'[f] = stack[f] /\ Passed(f)' = Passed(f)
      BY <1>3, <1>5, <3>1
    <3> QED BY <3>1, <3>2 DEF FlatLines, InterestSoFar, n
  <2> QED BY <2>1, <2>2
<1>12. CallsCovered'
  <2> SUFFICES ASSUME NEW f \in 1 .. n + 1, NEW d \in Passed(f)'
               PROVE  /\ d \in OneSided => d \in Lined(f)'
                      /\ d \in Comparison /\ Holder(d) => d \in DOMAIN seen
                      /\ d \in Inner(outcomes) => Covered(outcomes, d, Lined(f)', DOMAIN seen)
    BY <1>3, <1>4 DEF CallsCovered
  <2>1. f \in 1 .. n
    BY <1>6, <1>7
  <2>2. d \in Passed(f) /\ Lined(f)' = Lined(f)
    BY <1>5, <2>1
  <2> QED BY <2>1, <2>2 DEF FlatLines, CallsCovered, n
<1>13. SectionsCovered'
  <2> SUFFICES ASSUME NEW d \in Sections PROVE Covered(outcomes, d, Lined(1)', DOMAIN seen)
    BY <1>3, <1>4 DEF SectionsCovered
  <2>1. Covered(outcomes, d, Lined(1), DOMAIN seen)
    BY DEF FlatLines, SectionsCovered
  <2> QED BY <1>5, <1>7, <2>1
<1> QED BY <1>8, <1>9, <1>10, <1>11, <1>12, <1>13 DEF FlatLines

\* A call that is over has been through all of its details.
LEMMA TopPassed ==
  ASSUME TypeOK, ~Printing
  PROVE  \A x : x \in Passed(Len(stack)) <=>
                  \E i \in 1 .. Len(outcomes[Top.node].details) : x = outcomes[Top.node].details[i]
<1>1. /\ Top = stack[Len(stack)] /\ Top.next = Len(outcomes[Top.node].details) + 1
      /\ Len(outcomes[Top.node].details) \in Nat
  BY TopFacts, GraphFacts
<1>2. Top.next - 1 = Len(outcomes[Top.node].details)
  BY <1>1
<1>3. \A x : x \in Passed(Len(stack)) <=>
               \E i \in 1 .. stack[Len(stack)].next - 1 : x = outcomes[stack[Len(stack)].node].details[i]
  BY PassedElements
<1> QED BY <1>1, <1>2, <1>3

LEMMA TopInteresting ==
  ASSUME TypeOK, FlatLines, ~Printing, Len(stack) > 1
  PROVE  Top.interesting <=> Interesting(Top.node)
<1> DEFINE n == Len(stack)
           c == Top.node
<1>1. n \in 2 .. n /\ Top = stack[n] /\ c \in Comparison \cap DOMAIN outcomes
  BY StackFacts, TopFacts
<1>2. Top.interesting <=>
        \/ outcomes[c].has_changes
        \/ \E d \in Passed(n) : d \in OneSided \/ (d \in Inner(outcomes) /\ Interesting(d))
  BY <1>1 DEF FlatLines, InterestSoFar
<1>3. \A x : x \in Passed(n) <=> \E i \in 1 .. Len(outcomes[c].details) : x = outcomes[c].details[i]
  BY TopPassed
<1>4. Interesting(c) <=>
        \/ outcomes[c].has_changes
        \/ \E i \in 1 .. Len(outcomes[c].details) :
             LET d == outcomes[c].details[i]
             IN  d \in OneSided \/ (d \in Inner(outcomes) /\ Interesting(d))
  BY <1>1, InterestUnfold
<1> HIDE DEF n, c
<1>5. (\E d \in Passed(n) : d \in OneSided \/ (d \in Inner(outcomes) /\ Interesting(d))) <=>
        \E i \in 1 .. Len(outcomes[c].details) :
          LET d == outcomes[c].details[i]
          IN  d \in OneSided \/ (d \in Inner(outcomes) /\ Interesting(d))
  BY <1>3
<1> QED BY <1>2, <1>4, <1>5 DEF c

LEMMA TopCovered ==
  ASSUME TypeOK, CallsDescribed, Textual, FlatLines, ~Printing, Len(stack) > 1
  PROVE  Covered(outcomes, Top.node, Lined(Len(stack)), DOMAIN seen)
<1> DEFINE n == Len(stack)
           c == Top.node
           S == Lined(n)
<1>1. n \in 2 .. n /\ n \in 1 .. n /\ Top = stack[n] /\ c \in Comparison \cap DOMAIN outcomes
  BY StackFacts, TopFacts
<1>2. c \in S
  <2>1. Len(stack[n].lines) > 0 /\ stack[n].lines[1] = Described(c)
    BY <1>1 DEF CallsDescribed
  <2>2. 1 \in 1 .. Len(stack[n].lines)
    BY <1>1, <2>1, StackFacts
  <2>3. Described(c).node = c
    BY <1>1, DescribedFacts
  <2> QED BY <2>1, <2>2, <2>3, PassedElements
<1>3. \A d \in Passed(n) : /\ d \in OneSided => d \in S
                           /\ d \in Comparison /\ Holder(d) => d \in DOMAIN seen
                           /\ d \in Inner(outcomes) => Covered(outcomes, d, S, DOMAIN seen)
  BY <1>1 DEF FlatLines, CallsCovered
<1>4. \A i \in 1 .. Len(outcomes[c].details) : outcomes[c].details[i] \in Passed(n)
  BY TopPassed
<1> HIDE DEF n, c, S
<1>5. \A i \in 1 .. Len(outcomes[c].details) :
        LET d == outcomes[c].details[i]
        IN  /\ d \in OneSided => d \in S
            /\ d \in Comparison /\ Holder(d) => d \in DOMAIN seen
            /\ d \in Inner(outcomes) => Covered(outcomes, d, S, DOMAIN seen)
  BY <1>3, <1>4
<1>6. Covered(outcomes, c, S, DOMAIN seen)
  BY <1>1, <1>2, <1>5, CoveredFrom
<1> QED BY <1>6 DEF n, c, S

\* The lines after a return: the call's are kept in a flat report or if it is interesting.
LEMMA FlatReturnLines ==
  ASSUME TypeOK, CallsMatch, FlatLines, Flat,
         ReturnStep(Interest(Caller, Top), Caller.lines \o Kept(Top.lines, Top.interesting))
  PROVE  LET m == Len(stack) - 1
             k == Len(Caller.lines)
         IN  /\ m \in Nat /\ m >= 1 /\ Len(stack) = m + 1 /\ Len(stack') = m
             /\ Caller = stack[m] /\ Top = stack[m + 1] /\ k \in Nat
             /\ \A f \in 1 .. m - 1 : stack'[f] = stack[f]
             /\ \A i \in 1 .. k : i \in 1 .. Len(stack'[m].lines) /\ stack'[m].lines[i] = Caller.lines[i]
             /\ \A i \in 1 .. Len(stack'[m].lines) :
                  \/ i \in 1 .. k /\ stack'[m].lines[i] = Caller.lines[i]
                  \/ /\ i - k \in 1 .. Len(Top.lines) /\ stack'[m].lines[i] = Top.lines[i - k]
                     /\ format = "small" => Interesting(Top.node)
             /\ format = "flat" \/ Interesting(Top.node) =>
                  \A i \in 1 .. Len(Top.lines) : /\ k + i \in 1 .. Len(stack'[m].lines)
                                                 /\ stack'[m].lines[k + i] = Top.lines[i]
<1> DEFINE m == Len(stack) - 1
           k == Len(Caller.lines)
           s == Kept(Top.lines, Top.interesting)
           b == Interest(Caller, Top)
<1>1. ~Printing /\ Len(stack) > 1 /\ Top.lines \in Seq(Line) /\ Len(Top.lines) \in Nat
  BY TopFacts DEF ReturnStep
<1>2. s \in Seq(Line) /\ b \in BOOLEAN
  BY <1>1, KeptFacts, ReturnedLines
<1>3. Top.interesting <=> Interesting(Top.node)
  BY <1>1, TopInteresting
<1>4. /\ format = "flat" \/ Interesting(Top.node) => s = Top.lines
      /\ s = Top.lines \/ Len(s) = 0
      /\ format = "small" /\ ~Interesting(Top.node) => Len(s) = 0
  <2>1. format = "flat" \/ format = "small"
    BY DEF Flat
  <2>2. format # "small" \/ Top.interesting => s = Top.lines
    BY <1>1, KeptFacts
  <2>3. format = "small" /\ ~Top.interesting => s = << >>
    BY <1>1, KeptFacts
  <2> HIDE DEF s
  <2> QED BY <1>3, <2>1, <2>2, <2>3
<1>5. ReturnStep(b, Caller.lines \o s)
  OBVIOUS
<1> HIDE DEF s, b
<1>6. /\ m \in Nat /\ m >= 1 /\ Caller = stack[m] /\ Len(stack) = m + 1 /\ Len(stack') = m
      /\ k \in Nat /\ Top = stack[m + 1]
      /\ \A f \in 1 .. m - 1 : stack'[f] = stack[f]
      /\ Len(stack'[m].lines) = k + Len(s)
      /\ \A i \in 1 .. k : stack'[m].lines[i] = Caller.lines[i]
      /\ \A i \in 1 .. Len(s) : stack'[m].lines[k + i] = s[i]
      /\ \A i \in 1 .. Len(stack'[m].lines) :
           \/ i \in 1 .. k /\ stack'[m].lines[i] = Caller.lines[i]
           \/ i - k \in 1 .. Len(s) /\ stack'[m].lines[i] = s[i - k]
  BY <1>2, <1>5, ReturnMore
<1> HIDE DEF m, k
<1>7. Len(s) \in Nat
  BY <1>2
<1>8. \A i \in 1 .. k : i \in 1 .. Len(stack'[m].lines) /\ stack'[m].lines[i] = Caller.lines[i]
  BY <1>6, <1>7
<1>9. ASSUME NEW i \in 1 .. Len(stack'[m].lines)
      PROVE  \/ i \in 1 .. k /\ stack'[m].lines[i] = Caller.lines[i]
             \/ /\ i - k \in 1 .. Len(Top.lines) /\ stack'[m].lines[i] = Top.lines[i - k]
                /\ format = "small" => Interesting(Top.node)
  <2>1. CASE i \in 1 .. k /\ stack'[m].lines[i] = Caller.lines[i]
    BY <2>1
  <2>2. CASE i - k \in 1 .. Len(s) /\ stack'[m].lines[i] = s[i - k]
    <3>1. Len(s) # 0
      BY <2>2, <1>6, <1>7
    <3> QED BY <2>2, <3>1, <1>4
  <2> QED BY <2>1, <2>2, <1>6
<1>10. ASSUME format = "flat" \/ Interesting(Top.node), NEW i \in 1 .. Len(Top.lines)
       PROVE  k + i \in 1 .. Len(stack'[m].lines) /\ stack'[m].lines[k + i] = Top.lines[i]
  <2>1. s = Top.lines
    BY <1>4, <1>10
  <2>2. k + i \in 1 .. k + Len(Top.lines)
    BY <1>1, <1>6
  <2> QED BY <1>6, <2>1, <2>2
<1> QED BY <1>6, <1>8, <1>9, <1>10 DEF m, k

LEMMA ReturnPassed ==
  ASSUME TypeOK, NEW b \in BOOLEAN, NEW l \in Seq(Line), ReturnStep(b, l), CallsMatch,
         NEW f \in 1 .. Len(stack) - 1
  PROVE  /\ \A x : x \in Passed(f)' <=>
                     x \in Passed(f) \/ (f = Len(stack) - 1 /\ Within(f) /\ x = Top.node)
         /\ ~Within(f) /\ f = Len(stack) - 1 => f = 1
<1> DEFINE m == Len(stack) - 1
           k == Caller.next
           d == outcomes[Caller.node].details
<1>1. /\ m \in Nat /\ m >= 1 /\ Caller = stack[m] /\ Len(stack) = m + 1 /\ Top = stack[m + 1]
      /\ outcomes' = outcomes /\ k \in Nat /\ k >= 1
  <2>1. m \in Nat /\ m >= 1 /\ Caller = stack[m] /\ Len(stack) = m + 1 /\ Top = stack[m + 1]
    BY ReturnStepFacts, StackFacts, TopFacts
  <2>2. k \in Nat /\ k >= 1
    BY <2>1, StackFacts
  <2>3. outcomes' = outcomes
    BY DEF ReturnStep
  <2> QED BY <2>1, <2>2, <2>3
<1>2. /\ \A g \in 1 .. m - 1 : stack'[g] = stack[g]
      /\ stack'[m].node = Caller.node
      /\ Within(m) => stack'[m].next = k + 1
      /\ ~Within(m) => stack'[m].next = k
  BY ReturnStepFacts
<1>3. IF Within(m) THEN Top.node = d[k] ELSE m = 1
  BY <1>1 DEF CallsMatch
<1> HIDE DEF m
<1>4. f \in 1 .. m
  BY DEF m
<1>5. ASSUME f # m PROVE Passed(f)' = Passed(f)
  <2>1. stack'[f] = stack[f]
    BY <1>1, <1>2, <1>4, <1>5
  <2> QED BY <2>1, <1>1 DEF Passed
<1>6. ASSUME f = m, NEW x PROVE x \in Passed(f)' <=> x \in Passed(f) \/ (Within(f) /\ x = Top.node)
  <2> DEFINE next == stack'[f].next
             node == stack'[f].node
  <2> HIDE DEF next, node
  <2>1. x \in Passed(f) <=> \E i \in 1 .. k - 1 : x = d[i]
    BY <1>1, <1>6, PassedElements
  <2>2. x \in Passed(f)' <=> \E i \in 1 .. next - 1 : x = outcomes[node].details[i]
    BY <1>1, PassedElements DEF next, node
  <2>3. node = Caller.node /\ (Within(f) => next = k + 1) /\ (~Within(f) => next = k)
    BY <1>2, <1>6 DEF next, node
  <2>4. CASE Within(f)
    <3>1. x \in Passed(f)' <=> \E i \in 1 .. k + 1 - 1 : x = d[i]
      BY <1>1, <2>4, <2>2, <2>3
    <3>2. \A i : i \in 1 .. k + 1 - 1 <=> i \in 1 .. k - 1 \/ i = k
      BY <1>1
    <3>3. Top.node = d[k]
      BY <1>3, <1>6, <2>4
    <3> QED BY <2>1, <2>4, <3>1, <3>2, <3>3
  <2>5. CASE ~Within(f)
    <3>1. x \in Passed(f)' <=> \E i \in 1 .. k - 1 : x = d[i]
      BY <1>1, <2>5, <2>2, <2>3
    <3> QED BY <2>1, <2>5, <3>1
  <2> QED BY <2>4, <2>5
<1>7. ~Within(f) /\ f = m => f = 1
  BY <1>3
<1> QED BY <1>5, <1>6, <1>7 DEF m

\* A call for a detail leaves to its caller what it covers, one for a section to the report.
LEMMA FlatReturned ==
  ASSUME TypeOK, CallsMatch, CallsDescribed, Textual, Flat, SectionsSoFar, FlatLines,
         ReturnStep(Interest(Caller, Top), Caller.lines \o Kept(Top.lines, Top.interesting)),
         seen' = seen, todo' = todo
  PROVE  FlatLines'
<1> DEFINE m == Len(stack) - 1
           k == Len(Caller.lines)
           s == Caller.lines \o Kept(Top.lines, Top.interesting)
           b == Interest(Caller, Top)
           c == Top.node
<1>1. /\ m \in Nat /\ m >= 1 /\ Len(stack) = m + 1 /\ Len(stack') = m
      /\ Caller = stack[m] /\ Top = stack[m + 1] /\ k \in Nat
      /\ \A f \in 1 .. m - 1 : stack'[f] = stack[f]
      /\ \A i \in 1 .. k : i \in 1 .. Len(stack'[m].lines) /\ stack'[m].lines[i] = Caller.lines[i]
      /\ \A i \in 1 .. Len(stack'[m].lines) :
           \/ i \in 1 .. k /\ stack'[m].lines[i] = Caller.lines[i]
           \/ /\ i - k \in 1 .. Len(Top.lines) /\ stack'[m].lines[i] = Top.lines[i - k]
              /\ format = "small" => Interesting(c)
      /\ format = "flat" \/ Interesting(c) =>
           \A i \in 1 .. Len(Top.lines) : /\ k + i \in 1 .. Len(stack'[m].lines)
                                          /\ stack'[m].lines[k + i] = Top.lines[i]
  BY FlatReturnLines
<1>2. ~Printing /\ Len(stack) > 1 /\ outcomes' = outcomes /\ format' = format
  BY DEF ReturnStep
<1>3. s \in Seq(Line) /\ b \in BOOLEAN /\ ReturnStep(b, s)
  BY <1>2, ReturnedLines
<1> HIDE DEF s, b
<1>4. /\ SectionsSoFar'
      /\ Holder(c) => m = 1 /\ c \notin Sections /\ \A x : x \in Sections' <=> x \in Sections \/ x = c
      /\ ~Holder(c) => Sections' = Sections
  BY <1>1, <1>3, SectionsReturned
<1>5. /\ \A f \in 1 .. m : stack'[f].node = stack[f].node
      /\ stack'[m].interesting = b
  BY <1>3, ReturnActive, ReturnStepFacts
<1>6. \A f \in 1 .. m : /\ \A x : x \in Passed(f)' <=> x \in Passed(f) \/ (f = m /\ Within(f) /\ x = c)
                        /\ ~Within(f) /\ f = m => f = 1
  BY <1>3, ReturnPassed
<1>7. /\ \A d : Interesting(d)' <=> Interesting(d)
      /\ \A d, S, H : Covered(outcomes, d, S, H)' <=> Covered(outcomes, d, S, H)
      /\ Inner(outcomes)' = Inner(outcomes)
      /\ \A d : Holder(d)' <=> Holder(d)
  BY <1>2, SameInterest
<1>8. /\ Top.interesting <=> Interesting(c)
      /\ \A S : S = Lined(Len(stack)) => Covered(outcomes, c, S, DOMAIN seen)
      /\ c \in Comparison /\ c \in DOMAIN outcomes
  BY <1>2, TopInteresting, TopCovered, TopFacts
<1>9. /\ Len(Top.lines) \in Nat /\ Len(Top.lines) > 0 /\ Top.lines[1] = Described(c)
  <2>1. m + 1 \in 2 .. Len(stack)
    BY <1>1
  <2> QED BY <1>1, <2>1, TopFacts DEF CallsDescribed
<1>10. format = "flat" \/ format = "small"
  BY DEF Flat
<1> HIDE DEF m, k, c
<1>11. \A f \in 1 .. m : \A i \in 1 .. Len(stack[f].lines) :
         i \in 1 .. Len(stack'[f].lines) /\ stack'[f].lines[i] = stack[f].lines[i]
  <2> SUFFICES ASSUME NEW f \in 1 .. m, NEW i \in 1 .. Len(stack[f].lines)
               PROVE  i \in 1 .. Len(stack'[f].lines) /\ stack'[f].lines[i] = stack[f].lines[i]
    OBVIOUS
  <2>1. CASE f = m
    BY <1>1, <2>1 DEF k
  <2>2. CASE f # m
    <3>1. stack'[f] = stack[f]
      BY <1>1, <2>2
    <3> QED BY <3>1
  <2> QED BY <2>1, <2>2
<1>12. \A f \in 1 .. m : Lined(f) \subseteq Lined(f)'
  <2> SUFFICES ASSUME NEW f \in 1 .. m, NEW x \in Lined(f) PROVE x \in Lined(f)'
    OBVIOUS
  <2>1. PICK i \in 1 .. Len(stack[f].lines) : x = stack[f].lines[i].node
    BY PassedElements
  <2>2. i \in 1 .. Len(stack'[f].lines) /\ stack'[f].lines[i] = stack[f].lines[i]
    BY <1>11, <2>1
  <2> QED BY <2>1, <2>2, PassedElements
<1>13. ASSUME NEW f, f = m PROVE Covered(outcomes, c, Lined(f)', DOMAIN seen)
  <2> DEFINE S == {Top.lines[i].node : i \in 1 .. Len(Top.lines)}
  <2>1. Covered(outcomes, c, S, DOMAIN seen)
    BY <1>1, <1>8 DEF Lined
  <2>2. CASE format = "flat" \/ Interesting(c)
    <3>1. ASSUME NEW i \in 1 .. Len(Top.lines) PROVE Top.lines[i].node \in Lined(f)'
      <4>1. k + i \in 1 .. Len(stack'[f].lines) /\ stack'[f].lines[k + i] = Top.lines[i]
        BY <1>1, <1>13, <2>2
      <4> QED BY <4>1, PassedElements
    <3>2. S \subseteq Lined(f)'
      BY <3>1
    <3> QED BY <2>1, <3>2, CoveredMore
  <2>3. CASE ~Interesting(c)
    BY <2>1, <2>3, CoveredWithout
  <2> QED BY <2>2, <2>3
\* Where a description comes from.
<1>14. ASSUME NEW f \in 1 .. m, NEW i \in 1 .. Len(stack'[f].lines), NEW d \in Comparison,
              stack'[f].lines[i] = Described(d)
       PROVE  \/ i \in 1 .. Len(stack[f].lines) /\ stack[f].lines[i] = Described(d)
              \/ /\ f = m /\ i = k + 1 /\ d = c
                 /\ format = "small" => Interesting(d)
              \/ /\ f = m /\ i - k \in 2 .. Len(Top.lines) /\ ~Holder(d)
                 /\ format = "small" => Interesting(d)
  <2>1. CASE f # m
    <3>1. stack'[f] = stack[f]
      BY <1>1, <2>1
    <3> QED BY <1>14, <3>1
  <2>2. CASE f = m /\ i \in 1 .. k /\ stack'[m].lines[i] = Caller.lines[i]
    BY <1>1, <1>14, <2>2 DEF k
  <2>3. CASE /\ f = m /\ i - k \in 1 .. Len(Top.lines) /\ stack'[m].lines[i] = Top.lines[i - k]
             /\ format = "small" => Interesting(c)
    <3>1. CASE i - k = 1
      <4>1. d = c
        <5>1. Described(d) = Described(c)
          BY <1>9, <1>14, <2>3, <3>1
        <5> QED BY <1>8, <5>1, DescribedFacts
      <4>2. i = k + 1
        BY <1>1, <3>1
      <4> QED BY <2>3, <4>1, <4>2
    <3>2. CASE i - k # 1
      <4>1. i - k \in 2 .. Len(Top.lines)
        BY <1>1, <1>9, <2>3, <3>2
      <4>2. m + 1 \in 1 .. Len(stack) /\ m + 1 # 1
        BY <1>1
      <4>3. Top.lines[i - k] = Described(d)
        BY <1>14, <2>3
      <4>4. /\ Holder(d) => m + 1 = 1 /\ d \in Sections
            /\ format = "small" => Interesting(d)
        <5>1. \A g \in 1 .. Len(stack) : g # 1 =>
                \A j \in 2 .. Len(stack[g].lines) : \A e \in Comparison :
                  stack[g].lines[j] = Described(e) =>
                    /\ Holder(e) => g = 1 /\ e \in Sections
                    /\ format = "small" => Interesting(e)
          BY DEF FlatLines, DescriptionsSoFar
        <5> QED BY <1>1, <4>1, <4>2, <4>3, <5>1
      <4> QED BY <2>3, <4>1, <4>2, <4>4
    <3> QED BY <3>1, <3>2
  <2> QED BY <1>1, <2>1, <2>2, <2>3
<1>15. DescriptionsSoFar'
  <2> SUFFICES ASSUME NEW f \in 1 .. m, NEW i \in (IF f = 1 THEN 1 ELSE 2) .. Len(stack'[f].lines),
                      NEW d \in Comparison, stack'[f].lines[i] = Described(d)
               PROVE  /\ Holder(d) => f = 1 /\ d \in Sections'
                      /\ format = "small" => Interesting(d)
    BY <1>1, <1>2, <1>7 DEF DescriptionsSoFar
  <2>1. i \in 1 .. Len(stack'[f].lines)
    OBVIOUS
  <2>2. CASE i \in 1 .. Len(stack[f].lines) /\ stack[f].lines[i] = Described(d)
    <3>1. f \in 1 .. Len(stack) /\ i \in (IF f = 1 THEN 1 ELSE 2) .. Len(stack[f].lines)
      BY <1>1, <2>2
    <3>2. /\ Holder(d) => f = 1 /\ d \in Sections
          /\ format = "small" => Interesting(d)
      BY <2>2, <3>1 DEF FlatLines, DescriptionsSoFar
    <3> QED BY <1>4, <3>2
  <2>3. CASE f = m /\ i = k + 1 /\ d = c /\ (format = "small" => Interesting(d))
    BY <1>4, <2>3
  <2>4. CASE ~Holder(d) /\ (format = "small" => Interesting(d))
    BY <2>4
  <2> QED BY <1>14, <2>1, <2>2, <2>3, <2>4
<1>16. SectionsOnce'
  <2> SUFFICES ASSUME NEW i \in 1 .. Len(stack'[1].lines), NEW j \in 1 .. Len(stack'[1].lines),
                      NEW d \in Comparison, stack'[1].lines[i] = Described(d),
                      stack'[1].lines[j] = Described(d), Holder(d)
               PROVE  i = j
    BY <1>7 DEF SectionsOnce
  <2>1. 1 \in 1 .. m /\ 1 \in 1 .. Len(stack)
    BY <1>1
  <2>2. ASSUME NEW h \in 1 .. Len(stack'[1].lines), stack'[1].lines[h] = Described(d)
        PROVE  \/ h \in 1 .. Len(stack[1].lines) /\ stack[1].lines[h] = Described(d) /\ d \in Sections
               \/ h = k + 1 /\ d = c
    <3>1. \/ h \in 1 .. Len(stack[1].lines) /\ stack[1].lines[h] = Described(d)
          \/ h = k + 1 /\ d = c
      BY <1>14, <2>1, <2>2
    <3>2. ASSUME h \in 1 .. Len(stack[1].lines), stack[1].lines[h] = Described(d)
          PROVE  d \in Sections
      BY <2>1, <3>2 DEF FlatLines, DescriptionsSoFar
    <3> QED BY <3>1, <3>2
  <2>3. d = c => d \notin Sections
    BY <1>4
  <2>4. CASE d \in Sections
    BY <2>2, <2>3, <2>4 DEF FlatLines, SectionsOnce
  <2>5. CASE d \notin Sections
    BY <2>2, <2>5
  <2> QED BY <2>4, <2>5
<1>17. SectionsDescribed'
  <2> SUFFICES ASSUME NEW d \in Sections', format = "flat" \/ Interesting(d)
               PROVE  \E i \in 1 .. Len(stack'[1].lines) : stack'[1].lines[i] = Described(d)
    BY <1>2, <1>7 DEF SectionsDescribed
  <2>1. 1 \in 1 .. m
    BY <1>1
  <2>2. CASE d \in Sections
    <3>1. PICK i \in 1 .. Len(stack[1].lines) : stack[1].lines[i] = Described(d)
      BY <2>2 DEF FlatLines, SectionsDescribed
    <3> QED BY <1>11, <2>1, <3>1
  <2>3. CASE d \notin Sections
    <3>1. d = c /\ m = 1
      BY <1>4, <2>3
    <3>2. 1 \in 1 .. Len(Top.lines)
      BY <1>9
    <3> QED BY <1>1, <1>9, <3>1, <3>2
  <2> QED BY <2>2, <2>3
<1>18. NoneStopped'
  <2> SUFFICES ASSUME format = "small", NEW x \in LinesIn(stack') PROVE ~Stops(x)
    BY <1>2, NoneStoppedFacts
  <2>1. PICK f \in 1 .. m : \E i \in 1 .. Len(stack'[f].lines) : x = stack'[f].lines[i]
    BY <1>1, LinesElements
  <2>2. PICK i \in 1 .. Len(stack'[f].lines) : x = stack'[f].lines[i]
    BY <2>1
  <2>3. \E g \in 1 .. Len(stack) : \E j \in 1 .. Len(stack[g].lines) : x = stack[g].lines[j]
    <3>1. CASE f # m
      <4>1. stack'[f] = stack[f] /\ f \in 1 .. Len(stack)
        BY <1>1, <3>1
      <4> QED BY <2>2, <4>1
    <3>2. CASE f = m /\ i \in 1 .. k /\ stack'[m].lines[i] = Caller.lines[i]
      <4>1. m \in 1 .. Len(stack) /\ i \in 1 .. Len(stack[m].lines) /\ x = stack[m].lines[i]
        BY <1>1, <2>2, <3>2 DEF k
      <4> QED BY <4>1
    <3>3. CASE f = m /\ i - k \in 1 .. Len(Top.lines) /\ stack'[m].lines[i] = Top.lines[i - k]
      <4>1. m + 1 \in 1 .. Len(stack) /\ i - k \in 1 .. Len(stack[m + 1].lines)
            /\ x = stack[m + 1].lines[i - k]
        BY <1>1, <2>2, <3>3
      <4> QED BY <4>1
    <3> QED BY <1>1, <3>1, <3>2, <3>3
  <2>4. x \in LinesIn(stack)
    BY <2>3, LinesElements
  <2> QED BY <2>4, NoneStoppedFacts DEF FlatLines
<1>19. InterestSoFar'
  <2> SUFFICES ASSUME NEW f \in 2 .. m
               PROVE  stack'[f].interesting <=>
                        \/ outcomes[stack'[f].node].has_changes
                        \/ \E d \in Passed(f)' : d \in OneSided \/ (d \in Inner(outcomes) /\ Interesting(d))
    BY <1>1, <1>2, <1>7 DEF InterestSoFar
  <2>1. f \in 1 .. m /\ f \in 2 .. Len(stack) /\ f # 1
    BY <1>1
  <2>2. stack[f].interesting <=>
          \/ outcomes[stack[f].node].has_changes
          \/ \E d \in Passed(f) : d \in OneSided \/ (d \in Inner(outcomes) /\ Interesting(d))
    BY <2>1 DEF FlatLines, InterestSoFar
  <2>3. CASE f # m
    <3>1. stack'[f] = stack[f] /\ Passed(f)' = Passed(f)
      BY <1>1, <1>6, <2>1, <2>3
    <3> QED BY <2>2, <3>1
  <2>4. CASE f = m
    <3>1. ~Holder(c)
      BY <1>4, <2>1, <2>4
    <3>2. c \in Inner(outcomes) /\ c \notin OneSided
      BY <1>8, <3>1 DEF Inner, Holder
    <3>3. \A x : x \in Passed(f)' <=> x \in Passed(f) \/ x = c
      BY <1>6, <2>1, <2>4
    <3>4. stack'[f].interesting <=> stack[f].interesting \/ Interesting(c)
      BY <1>1, <1>5, <1>8, <2>4, Zenon DEF b, Interest
    <3> QED BY <1>5, <2>1, <2>2, <3>2, <3>3, <3>4
  <2> QED BY <2>3, <2>4
<1>20. CallsCovered'
  <2> SUFFICES ASSUME NEW f \in 1 .. m, NEW d \in Passed(f)'
               PROVE  /\ d \in OneSided => d \in Lined(f)'
                      /\ d \in Comparison /\ Holder(d) => d \in DOMAIN seen
                      /\ d \in Inner(outcomes) => Covered(outcomes, d, Lined(f)', DOMAIN seen)
    BY <1>1, <1>2, <1>7 DEF CallsCovered
  <2>1. CASE d \in Passed(f)
    <3>1. f \in 1 .. Len(stack)
      BY <1>1
    <3>2. /\ d \in OneSided => d \in Lined(f)
          /\ d \in Comparison /\ Holder(d) => d \in DOMAIN seen
          /\ d \in Inner(outcomes) => Covered(outcomes, d, Lined(f), DOMAIN seen)
      BY <2>1, <3>1 DEF FlatLines, CallsCovered
    <3> QED BY <1>12, <3>2, CoveredMore
  <2>2. CASE f = m /\ Within(f) /\ d = c
    <3>1. ~Holder(c)
      <4>1. m + 1 \in 2 .. Len(stack)
        BY <1>1
      <4>2. Holder(c) <=> m + 1 = 2 /\ ~Within(1)
        BY <1>1, <4>1 DEF SectionsSoFar, SectionCalls, c
      <4> QED BY <1>1, <2>2, <4>2
    <3>2. c \notin OneSided
      BY <1>8
    <3> QED BY <1>13, <2>2, <3>1, <3>2
  <2> QED BY <1>6, <2>1, <2>2
<1>21. SectionsCovered'
  <2> SUFFICES ASSUME NEW d \in Sections' PROVE Covered(outcomes, d, Lined(1)', DOMAIN seen)
    BY <1>2, <1>7 DEF SectionsCovered
  <2>1. CASE d \in Sections
    <3>1. Covered(outcomes, d, Lined(1), DOMAIN seen)
      BY <2>1 DEF FlatLines, SectionsCovered
    <3>2. 1 \in 1 .. m
      BY <1>1
    <3> QED BY <1>12, <3>1, <3>2, CoveredMore
  <2>2. CASE d \notin Sections
    <3>1. d = c /\ m = 1
      BY <1>4, <2>2
    <3> QED BY <1>13, <3>1
  <2> QED BY <2>1, <2>2
<1> QED BY <1>15, <1>16, <1>17, <1>18, <1>19, <1>20, <1>21 DEF FlatLines

LEMMA QuietLines ==
  /\ \A c : Quiet(OneLine(c, "node diff")) /\ Quiet(OneLine(c, "removed or added"))
  /\ \A c : format = "flat" => Quiet(OneLine(c, "stopped at"))
  /\ Quiet(<< >>)
<1>1. ASSUME NEW more, Len(more) = 1, NEW i \in 1 .. Len(more) PROVE more[i] = more[1]
  <2>1. i = 1
    BY <1>1
  <2> QED BY <2>1
<1>2. ASSUME NEW more, Len(more) = 1, more[1].how = "node diff" \/ more[1].how = "removed or added"
      PROVE  Quiet(more)
  BY <1>1, <1>2, Zenon DEF Quiet, Stops
<1>3. ASSUME NEW more, Len(more) = 1, more[1].how = "stopped at", format = "flat" PROVE Quiet(more)
  BY <1>1, <1>3, Zenon DEF Quiet, Stops
<1>4. ASSUME NEW c PROVE Quiet(OneLine(c, "node diff"))
  BY <1>2 DEF OneLine, LineFor
<1>5. ASSUME NEW c PROVE Quiet(OneLine(c, "removed or added"))
  BY <1>2 DEF OneLine, LineFor
<1>6. ASSUME NEW c, format = "flat" PROVE Quiet(OneLine(c, "stopped at"))
  BY <1>6, <1>3 DEF OneLine, LineFor
<1>7. Quiet(<< >>)
  BY DEF Quiet
<1> QED BY <1>4, <1>5, <1>6, <1>7

LEMMA SameFlat ==
  ASSUME FlatSoFar, UNCHANGED vars
  PROVE  FlatSoFar'
<1>1. /\ stack' = stack /\ outcomes' = outcomes /\ format' = format /\ seen' = seen /\ todo' = todo
      /\ AllLines' = AllLines /\ Active' = Active
  BY DEF vars, AllLines, Active
<1>2. /\ Called' = Called /\ Queued' = Queued /\ (Flat' <=> Flat) /\ (Within(1)' <=> Within(1))
      /\ \A f : Passed(f)' = Passed(f) /\ Lined(f)' = Lined(f)
  BY <1>1 DEF Called, Queued, Flat, Within, Holder, Passed, Lined
<1>3. Sections' = Sections
  BY <1>1, <1>2 DEF Sections
<1>4. /\ \A d : Interesting(d)' <=> Interesting(d)
      /\ \A d, S, H : Covered(outcomes, d, S, H)' <=> Covered(outcomes, d, S, H)
      /\ Inner(outcomes)' = Inner(outcomes)
      /\ \A d : Holder(d)' <=> Holder(d)
  BY <1>1, SameInterest
<1>5. SectionsSoFar => SectionsSoFar'
  BY <1>1, <1>2, <1>4 DEF SectionsSoFar, SectionCalls, QueuedOnce
<1>6. DescriptionsSoFar => DescriptionsSoFar'
  BY <1>1, <1>3, <1>4 DEF DescriptionsSoFar
<1>7. SectionsOnce /\ SectionsDescribed => SectionsOnce' /\ SectionsDescribed'
  BY <1>1, <1>3, <1>4 DEF SectionsOnce, SectionsDescribed
<1>8. NoneStopped => NoneStopped'
  BY <1>1 DEF NoneStopped
<1>9. InterestSoFar => InterestSoFar'
  BY <1>1, <1>2, <1>4 DEF InterestSoFar
<1>10. CallsCovered => CallsCovered'
  BY <1>1, <1>2, <1>4 DEF CallsCovered
<1>11. SectionsCovered => SectionsCovered'
  BY <1>1, <1>2, <1>3, <1>4 DEF SectionsCovered
<1> QED BY <1>2, <1>5, <1>6, <1>7, <1>8, <1>9, <1>10, <1>11 DEF FlatSoFar

LEMMA FlatParts ==
  /\ FlatSoFar <=> (Flat => SectionsSoFar /\ FlatLines)
  /\ FlatSoFar' <=> (Flat' => SectionsSoFar' /\ FlatLines')
BY DEF FlatSoFar, FlatLines

LEMMA FlatSteps ==
  ASSUME TypeOK, CallsMatch, CallsDescribed, FlatSoFar, [Next]_vars
  PROVE  FlatSoFar'
<1> SUFFICES ASSUME Flat PROVE FlatSoFar'
  <2>1. format' = format
    BY CallSteps, SameCalls
  <2>2. Flat' <=> Flat
    BY <2>1 DEF Flat
  <2> QED BY <2>2, FlatParts
<1>1. SectionsSoFar /\ FlatLines /\ Textual /\ (format = "flat" \/ format = "small")
  BY FlatParts DEF Flat, Textual
<1> SUFFICES ASSUME Next \/ UNCHANGED vars PROVE FlatSoFar'
  OBVIOUS
<1>2. CASE NodeDiff
  <2> DEFINE more == OneLine(Top.node, "node diff")
  <2>1. more \in Seq(Line) /\ Quiet(more)
    BY TopFacts, Mentions, OneLineFacts, QuietLines DEF Mention
  <2>2. PrintedStep(more, FALSE) /\ seen' = seen /\ todo' = todo /\ Current = NoEdge
    BY <1>2, PrintedActions DEF NodeDiff
  <2> HIDE DEF more
  <2>3. SectionsSoFar' /\ Sections' = Sections
    BY <1>1, <2>1, <2>2, SectionsPrinted
  <2>4. Current \notin OneSided /\ Current \notin Comparison
    BY <2>2
  <2>5. FlatLines'
    BY <1>1, <2>1, <2>2, <2>3, <2>4, FlatPrinted
  <2> QED BY <2>3, <2>5, FlatParts
<1>3. CASE RemovedOrAdded
  <2> DEFINE more == OneLine(Current, "removed or added")
             c == Current
             line == LineFor(c, "removed or added")
  <2>1. Mention(c, "removed or added") /\ c \in OneSided
    BY <1>3, Mentions DEF RemovedOrAdded
  <2>2. /\ more \in Seq(Line) /\ Quiet(more) /\ Len(more) = 1
        /\ more[1] = line
    BY <2>1, OneLineFacts, QuietLines DEF Mention
  <2>3. 1 \in 1 .. Len(more) /\ more[1].node = c
    <3>1. line.node = c
      BY DEF LineFor
    <3> HIDE DEF more, line
    <3> QED BY <2>2, <3>1
  <2>4. PrintedStep(more, TRUE) /\ seen' = seen /\ todo' = todo
    BY <1>3, PrintedActions DEF RemovedOrAdded
  <2> HIDE DEF more
  <2>5. SectionsSoFar' /\ Sections' = Sections
    BY <1>1, <2>2, <2>4, SectionsPrinted
  <2>6. c \notin Comparison
    BY <2>1
  <2>7. FlatLines'
    BY <1>1, <2>1, <2>2, <2>3, <2>4, <2>5, <2>6, FlatPrinted
  <2> QED BY <2>5, <2>7, FlatParts
<1>4. CASE FlatStop
  <2> DEFINE more == Kept(OneLine(Current, "stopped at"), FALSE)
             c == Current
  <2>1. c \in Comparison /\ Holder(c) /\ c \notin OneSided
    BY <1>4 DEF FlatStop
  <2>2. OneLine(c, "stopped at") \in Seq(Line)
    BY <2>1, Mentions, OneLineFacts DEF Mention
  <2>3. more \in Seq(Line)
    BY <2>2, KeptFacts
  <2>4. Quiet(more)
    <3>1. CASE format = "flat"
      <4>1. more = OneLine(c, "stopped at")
        BY <2>2, <3>1, KeptFacts
      <4> QED BY <3>1, <4>1, QuietLines
    <3>2. CASE format = "small"
      <4>1. more = << >>
        BY <2>2, <3>2, KeptFacts
      <4> QED BY <4>1, QuietLines
    <3> QED BY <1>1, <3>1, <3>2
  <2>5. PrintedStep(more, FALSE)
    BY <1>4, PrintedActions
  <2> HIDE DEF more
  <2>6. SectionsSoFar' /\ Sections' = Sections /\ DOMAIN seen' = DOMAIN seen \cup {c}
    BY <1>1, <1>4, <2>3, <2>5, SectionsStop
  <2>7. FlatLines'
    BY <1>1, <2>1, <2>3, <2>4, <2>5, <2>6, FlatPrinted
  <2> QED BY <2>6, <2>7, FlatParts
<1>5. CASE OpenInner
  <2> DEFINE c == Current
             l == OneLine(c, "described")
  <2>1. CallStep(c, outcomes[c].has_changes, l) /\ c \in Comparison \cap DOMAIN outcomes
    BY <1>5, CallActions
  <2>2. outcomes[c].has_changes \in BOOLEAN /\ l \in Seq(Line)
    BY <2>1, GraphFacts, OneLineFacts, DescribedFacts DEF Described
  <2>3. Printing /\ ~Holder(c) /\ seen' = seen /\ todo' = todo
    BY <1>5 DEF OpenInner
  <2>4. FlatLines /\ SectionsSoFar
    BY <1>1
  <2> HIDE DEF c
  <2>5. SectionsSoFar' /\ Sections' = Sections
    BY <2>1, <2>2, <2>3, <2>4, SectionsOpened
  <2>6. FlatLines'
    BY <2>1, <2>3, <2>4, <2>5, FlatCalled
  <2> QED BY <2>5, <2>6, FlatParts
<1>6. CASE FlatSection
  <2> DEFINE c == Head(todo)
             l == OneLine(c, "described")
  <2>1. CallStep(c, outcomes[c].has_changes, l) /\ c \in Comparison \cap DOMAIN outcomes
    BY <1>6, CallActions
  <2>2. outcomes[c].has_changes \in BOOLEAN /\ l \in Seq(Line)
    BY <2>1, GraphFacts, OneLineFacts, DescribedFacts DEF Described
  <2>3. ~Printing /\ Holder(c) /\ c = Head(todo) /\ todo # << >> /\ seen' = seen /\ todo' = Tail(todo)
    BY <1>6 DEF FlatSection, Appropriate
  <2>4. FlatLines /\ SectionsSoFar
    BY <1>1
  <2> HIDE DEF c
  <2>5. SectionsSoFar' /\ Sections' = Sections
    BY <2>1, <2>2, <2>3, <2>4, SectionsCalled
  <2>6. FlatLines'
    BY <2>1, <2>3, <2>4, <2>5, FlatCalled
  <2> QED BY <2>5, <2>6, FlatParts
<1>7. CASE Return
  <2> DEFINE s == Caller.lines \o Kept(Top.lines, Top.interesting)
             b == Interest(Caller, Top)
  <2>1. ReturnStep(b, s) /\ s \in Seq(Line) /\ b \in BOOLEAN
    BY <1>7, ReturnActions, ReturnedLines DEF Return
  <2>2. seen' = seen /\ todo' = todo
    BY <1>1, <1>7 DEF Return
  <2>3. SectionsSoFar'
    BY <1>1, <2>1, <2>2, SectionsReturned
  <2>4. FlatLines'
    BY <1>1, <2>1, <2>2, FlatReturned
  <2> QED BY <2>3, <2>4, FlatParts
<1>8. CASE PlainOpenHolder \/ PlainSeenHolder \/ VizAttribute \/ VizEdge \/ VizEnter \/ VizReturn
  BY <1>1, <1>8 DEF PlainOpenHolder, PlainSeenHolder, VizAttribute, VizEdge, VizEnter, VizReturn, Viz
<1>9. CASE Finished \/ UNCHANGED vars
  BY <1>9, SameFlat DEF Finished
<1> QED BY <1>2, <1>3, <1>4, <1>5, <1>6, <1>7, <1>8, <1>9 DEF Next

--------------------------------------------------------------------------------
(***************************************************************************)
(* A flat report that is done has everything.                              *)
(***************************************************************************)
\* What is met is covered by the root or by a section.
LEMMA FlatDone ==
  ASSUME TypeOK, CallsMatch, SectionsSoFar, FlatLines, Done
  PROVE  /\ Sections = DOMAIN seen
         /\ \A x \in Met : /\ x \in OneSided => x \in Lined(1)
                           /\ x \in Comparison /\ Holder(x) => x \in DOMAIN seen
                           /\ x \in Comparison /\ outcomes[x].has_changes => x \in Lined(1)
<1> DEFINE S == Lined(1)
           H == DOMAIN seen
           R == {h \in Comparison \cap DOMAIN outcomes : Covered(outcomes, h, S, H)}
           D == {d \in Comparison \cap DOMAIN outcomes : \E h \in R : InnerReach(outcomes, h, d)}
           T == {root} \cup D
<1>1. /\ Len(stack) = 1 /\ stack[1].node = root /\ Active = {}
      /\ stack[1].next - 1 = Len(outcomes[root].details) /\ todo = << >>
      /\ root \in Comparison \cap DOMAIN outcomes
  BY DoneFacts, GraphFacts DEF Done
<1>2. Sections = H
  <2>1. Called = {}
    BY <1>1 DEF Called
  <2>2. Queued = {}
    BY <1>1 DEF Queued
  <2> QED BY <2>1, <2>2 DEF Sections
<1>3. \A x : x \in Passed(1) <=> \E i \in 1 .. Len(outcomes[root].details) : x = outcomes[root].details[i]
  BY <1>1, PassedElements
<1>4. 1 \in 1 .. Len(stack)
  BY <1>1
<1> HIDE DEF S, H
<1>5. \A x \in Passed(1) : /\ x \in OneSided => x \in S
                           /\ x \in Comparison /\ Holder(x) => x \in H
                           /\ x \in Inner(outcomes) => Covered(outcomes, x, S, H)
  BY <1>4 DEF FlatLines, CallsCovered, S, H
<1>6. ASSUME NEW x \in R PROVE x \in D
  BY InnerReflexive
<1>7. ASSUME NEW x \in H \cap Comparison PROVE x \in R
  <2>1. Covered(outcomes, x, S, H)
    BY <1>2 DEF FlatLines, SectionsCovered, S, H
  <2>2. x \in DOMAIN outcomes
    BY DEF TypeOK, H
  <2> QED BY <2>1, <2>2
<1>8. ASSUME NEW c \in T \cap DOMAIN outcomes, NEW i \in 1 .. Len(outcomes[c].details), NEW x,
             x = outcomes[c].details[i]
      PROVE  /\ x \in OneSided => x \in S
             /\ x \in Comparison /\ Holder(x) => x \in H
             /\ x \in Comparison => x \in D
  <2>1. x \in Comparison \cup OneSided \cup {NoEdge} /\ (x # NoEdge => x \in DOMAIN outcomes)
    BY <1>1, <1>8, GraphFacts
  <2>2. CASE c = root
    <3>1. x \in Passed(1)
      BY <1>3, <1>8, <2>2
    <3>2. x \in Inner(outcomes) => x \in R
      BY <1>5, <3>1 DEF Inner
    <3>3. x \in Comparison => x \in R
      BY <1>5, <1>7, <2>1, <3>1, <3>2 DEF Inner, Holder
    <3> HIDE DEF R
    <3> QED BY <1>5, <1>6, <3>1, <3>3
  <2>3. CASE c \in D
    <3>1. PICK h \in R : InnerReach(outcomes, h, c)
      BY <2>3
    <3>2. c \in Comparison \cap DOMAIN outcomes /\ Covered(outcomes, h, S, H)
      BY <2>3, <3>1
    <3>3. /\ x \in OneSided => x \in S
          /\ x \in Comparison /\ Holder(x) => x \in H
      <4>1. x # NoEdge => x \in EdgesOf(outcomes[c].details)
        BY <1>8 DEF EdgesOf
      <4>2. \A e \in EdgesOf(outcomes[c].details) :
              /\ e \in OneSided => e \in S
              /\ e \in Comparison /\ outcomes[e].holds_changes => e \in H
        BY <3>1, <3>2 DEF Covered
      <4> QED BY <4>1, <4>2 DEF Holder
    <3>4. ASSUME x \in Comparison PROVE x \in D
      <4>1. CASE Holder(x)
        BY <1>6, <1>7, <3>3, <3>4, <4>1
      <4>2. CASE ~Holder(x)
        <5>1. x \in Inner(outcomes) /\ x \in Comparison \cap DOMAIN outcomes
          BY <2>1, <3>4, <4>2 DEF Inner, Holder
        <5>2. InnerReach(outcomes, h, x)
          BY <1>8, <3>1, <3>2, <5>1, InnerEdge
        <5> QED BY <3>1, <5>1, <5>2
      <4> QED BY <4>1, <4>2
    <3> QED BY <3>3, <3>4
  <2> QED BY <2>2, <2>3
<1>9. T \in SUBSET Comparison /\ root \in T
  BY <1>1
<1>10. \A c \in T \cap DOMAIN outcomes : \A i \in 1 .. Len(outcomes[c].details) :
         outcomes[c].details[i] \in Comparison => outcomes[c].details[i] \in T
  BY <1>8
<1>11. ASSUME NEW d \in D, outcomes[d].has_changes PROVE d \in S
  <2>1. PICK h \in R : InnerReach(outcomes, h, d)
    BY <1>11
  <2>2. Covered(outcomes, h, S, H) /\ d \in Comparison \cap DOMAIN outcomes
    BY <1>11, <2>1
  <2> QED BY <1>11, <2>1, <2>2 DEF Covered
<1> HIDE DEF T, D
<1>12. ASSUME NEW x \in Met
       PROVE  /\ x \in OneSided => x \in S
              /\ x \in Comparison /\ Holder(x) => x \in H
              /\ x \in Comparison /\ outcomes[x].has_changes => x \in S
  <2>1. PICK c \in T \cap DOMAIN outcomes : \E i \in 1 .. Len(outcomes[c].details) :
               x = outcomes[c].details[i]
    BY <1>9, <1>10, MetInside
  <2>2. PICK i \in 1 .. Len(outcomes[c].details) : x = outcomes[c].details[i]
    BY <2>1
  <2> QED BY <1>8, <1>11, <2>2
<1> QED BY <1>2, <1>12 DEF S, H

LEMMA SectionsExactNow ==
  ASSUME TypeOK, CallsMatch, FlatSoFar
  PROVE  SectionsExact
<1> SUFFICES ASSUME Flat, Done
             PROVE  /\ \A c \in Met \cap Comparison :
                         outcomes[c].holds_changes =>
                           Times(c, "described") = IF format = "flat" \/ Interesting(c) THEN 1 ELSE 0
                    /\ format = "small" =>
                         /\ Lines("stopped at") = {}
                         /\ \A i \in Lines("described") : Interesting(stack[1].lines[i].node)
  BY DEF SectionsExact
<1>1. SectionsSoFar /\ FlatLines
  BY FlatParts
<1>2. ASSUME NEW i \in 1 .. Len(stack[1].lines), NEW c \in Comparison, stack[1].lines[i] = Described(c),
             format = "small"
      PROVE  Interesting(c)
  <2>1. 1 \in 1 .. Len(stack)
    BY StackFacts
  <2> QED BY <1>1, <1>2, <2>1 DEF FlatLines, DescriptionsSoFar
<1>3. ASSUME NEW c \in Met \cap Comparison, outcomes[c].holds_changes
      PROVE  Times(c, "described") = IF format = "flat" \/ Interesting(c) THEN 1 ELSE 0
  <2>1. c \in Sections /\ Holder(c)
    BY <1>1, <1>3, FlatDone DEF Holder
  <2>2. CASE format = "flat" \/ Interesting(c)
    <3>1. PICK k \in 1 .. Len(stack[1].lines) : stack[1].lines[k] = Described(c)
      BY <1>1, <2>1, <2>2 DEF FlatLines, SectionsDescribed
    <3>2. \A j \in 1 .. Len(stack[1].lines) : stack[1].lines[j] = Described(c) => j = k
      BY <1>1, <2>1, <3>1 DEF FlatLines, SectionsOnce
    <3>3. Times(c, "described") = 1
      BY <3>1, <3>2, DescribedTimes
    <3> QED BY <2>2, <3>3
  <2>3. CASE ~(format = "flat" \/ Interesting(c))
    <3>1. \A i \in 1 .. Len(stack[1].lines) : stack[1].lines[i] # Described(c)
      BY <1>2, <2>3 DEF Flat
    <3>2. Times(c, "described") = 0
      BY <3>1, DescribedNever
    <3> QED BY <2>3, <3>2
  <2> QED BY <2>2, <2>3
<1>4. ASSUME format = "small" PROVE Lines("stopped at") = {}
  BY <1>1, <1>4, DoneFacts DEF FlatLines, NoneStopped, Lines
<1>5. ASSUME format = "small", NEW i \in Lines("described") PROVE Interesting(stack[1].lines[i].node)
  <2>1. i \in 1 .. Len(stack[1].lines) /\ stack[1].lines[i].how = "described"
    BY DEF Lines
  <2>2. stack[1].lines[i] \in Line
    BY <2>1, StackFacts
  <2>3. stack[1].lines[i].node \in Comparison /\ stack[1].lines[i] = Described(stack[1].lines[i].node)
    BY <2>1, <2>2, DescribedFacts
  <2> QED BY <1>2, <1>5, <2>1, <2>3
<1> QED BY <1>3, <1>4, <1>5

LEMMA EveryChangeReportedNow ==
  ASSUME TypeOK, CallsMatch, PlainSoFar, FlatSoFar
  PROVE  EveryChangeReported
<1> SUFFICES ASSUME Textual, Done, NEW c \in Met, c \in OneSided \/ outcomes[c].has_changes
             PROVE  LinesOf(c) # {}
  BY DEF EveryChangeReported
<1>1. \A i \in 1 .. Len(stack[1].lines) : stack[1].lines[i].node = c => LinesOf(c) # {}
  BY DEF LinesOf
<1>2. c \in Comparison \cup OneSided
  BY DEF Met, TypeOK, WellFormed
<1>3. CASE Flat
  <2>1. SectionsSoFar /\ FlatLines
    BY <1>3, FlatParts
  <2>2. c \in Lined(1)
    BY <1>2, <2>1, FlatDone
  <2> QED BY <1>1, <2>2, PassedElements
<1>4. CASE format = "plain"
  <2>1. Dealt(c, AllLines)
    BY <1>4, PlainDone
  <2>2. \E line \in AllLines : line.node = c
    <3>1. CASE c \in OneSided
      <4>1. LineFor(c, "removed or added") \in AllLines
        BY <2>1, <3>1 DEF Dealt
      <4>2. LineFor(c, "removed or added").node = c
        BY DEF LineFor
      <4> QED BY <4>1, <4>2
    <3>2. CASE c \in Comparison
      BY <2>1, <3>2, DescribedFacts DEF Dealt
    <3> QED BY <1>2, <3>1, <3>2
  <2> QED BY <1>1, <2>2, DoneFacts
<1> QED BY <1>3, <1>4 DEF Textual, Flat, TypeOK

--------------------------------------------------------------------------------
(***************************************************************************)
(* Counting what is drawn.                                                 *)
(***************************************************************************)
LEMMA AmongNext ==
  ASSUME NEW s, NEW n \in Nat, NEW x
  PROVE  /\ Among(s, n, x) \in Nat /\ Among(s, n, x) <= n
         /\ Among(s, n + 1, x) = Among(s, n, x) + (IF s[n + 1] = x THEN 1 ELSE 0)
<1> DEFINE S == {i \in 1 .. n : s[i] = x}
           T == {i \in 1 .. n + 1 : s[i] = x}
<1>1. IsFiniteSet(1 .. n) /\ Cardinality(1 .. n) = n
  BY FS_Interval
<1>2. IsFiniteSet(S) /\ Cardinality(S) \in Nat /\ Cardinality(S) <= n
  BY <1>1, FS_Subset, FS_CardinalityType
<1>3. n + 1 \notin S /\ (s[n + 1] = x => T = S \cup {n + 1}) /\ (s[n + 1] # x => T = S)
  OBVIOUS
<1>4. Cardinality(S \cup {n + 1}) = Cardinality(S) + 1
  BY <1>2, <1>3, FS_AddElement
<1>5. Among(s, n, x) = Cardinality(S) /\ Among(s, n + 1, x) = Cardinality(T)
  BY DEF Among
<1> HIDE DEF S, T
<1> QED BY <1>2, <1>3, <1>4, <1>5

LEMMA AmongType == ASSUME NEW s, NEW n \in Nat, NEW x PROVE Among(s, n, x) \in Nat /\ Among(s, n, x) <= n
BY AmongNext

LEMMA AmongSame ==
  ASSUME NEW s, NEW t, NEW n \in Nat, \A i \in 1 .. n : s[i] = t[i], NEW x
  PROVE  Among(s, n, x) = Among(t, n, x)
<1>1. {i \in 1 .. n : s[i] = x} = {i \in 1 .. n : t[i] = x}
  OBVIOUS
<1> QED BY <1>1 DEF Among

LEMMA AmongNone ==
  ASSUME NEW s, NEW n \in Nat, NEW x, \A i \in 1 .. n : s[i] # x
  PROVE  Among(s, n, x) = 0
<1>1. {i \in 1 .. n : s[i] = x} = {}
  OBVIOUS
<1> QED BY <1>1, FS_EmptySet DEF Among

LEMMA CountAppend ==
  ASSUME NEW s \in Seq(Mark), NEW m \in Mark, NEW x
  PROVE  Count(Append(s, m), x) = Count(s, x) + (IF m = x THEN 1 ELSE 0)
<1> DEFINE t == Append(s, m)
           n == Len(s)
<1>1. n \in Nat /\ Len(t) = n + 1 /\ t[n + 1] = m /\ \A i \in 1 .. n : t[i] = s[i]
  BY AppendProperties, LenProperties
<1> HIDE DEF t
<1>2. Among(t, n + 1, x) = Among(t, n, x) + (IF t[n + 1] = x THEN 1 ELSE 0)
  BY <1>1, AmongNext
<1>3. Among(t, n, x) = Among(s, n, x)
  BY <1>1, AmongSame
<1> QED BY <1>1, <1>2, <1>3 DEF Count, t

LEMMA CountType ==
  ASSUME NEW s \in Seq(Mark), NEW x
  PROVE  /\ Count(s, x) \in Nat
         /\ (\A i \in 1 .. Len(s) : s[i] # x) => Count(s, x) = 0
BY LenProperties, AmongNext, AmongNone DEF Count

LEMMA MarkFacts ==
  ASSUME NEW k, NEW l
  PROVE  /\ NodeMark(k, l)[1] = "node" /\ NodeMark(k, l)[2] = k /\ NodeMark(k, l)[3] = l
         /\ EdgeMark(k, l)[1] = "edge" /\ EdgeMark(k, l)[2] = k /\ EdgeMark(k, l)[3] = l
         /\ AttributeMark(k, l)[1] = "attribute"
         /\ AttributeMark(k, l)[2] = k /\ AttributeMark(k, l)[3] = l
         /\ k \in Nat /\ l \in Comparison \cup OneSided \cup Nat =>
              NodeMark(k, l) \in Mark /\ EdgeMark(k, l) \in Mark /\ AttributeMark(k, l) \in Mark
<1>1. /\ NodeMark(k, l)[1] = "node" /\ NodeMark(k, l)[2] = k /\ NodeMark(k, l)[3] = l
      /\ EdgeMark(k, l)[1] = "edge" /\ EdgeMark(k, l)[2] = k /\ EdgeMark(k, l)[3] = l
      /\ AttributeMark(k, l)[1] = "attribute"
      /\ AttributeMark(k, l)[2] = k /\ AttributeMark(k, l)[3] = l
  BY DEF NodeMark, EdgeMark, AttributeMark
<1>2. ASSUME k \in Nat, l \in Comparison \cup OneSided \cup Nat
      PROVE  NodeMark(k, l) \in Mark /\ EdgeMark(k, l) \in Mark /\ AttributeMark(k, l) \in Mark
  BY <1>2 DEF NodeMark, EdgeMark, AttributeMark, Mark
<1> QED BY <1>1, <1>2

LEMMA MarksDiffer ==
  ASSUME NEW k, NEW l, NEW i, NEW j
  PROVE  /\ NodeMark(k, l) # EdgeMark(i, j) /\ NodeMark(k, l) # AttributeMark(i, j)
         /\ EdgeMark(k, l) # AttributeMark(i, j)
         /\ NodeMark(k, l) = NodeMark(i, j) <=> k = i /\ l = j
         /\ EdgeMark(k, l) = EdgeMark(i, j) <=> k = i /\ l = j
         /\ AttributeMark(k, l) = AttributeMark(i, j) <=> k = i /\ l = j
<1>1. "node" # "edge" /\ "node" # "attribute" /\ "edge" # "attribute"
  OBVIOUS
<1>2. /\ NodeMark(k, l) # EdgeMark(i, j) /\ NodeMark(k, l) # AttributeMark(i, j)
      /\ EdgeMark(k, l) # AttributeMark(i, j)
  BY <1>1, MarkFacts
<1>3. /\ NodeMark(k, l) = NodeMark(i, j) => k = i /\ l = j
      /\ EdgeMark(k, l) = EdgeMark(i, j) => k = i /\ l = j
      /\ AttributeMark(k, l) = AttributeMark(i, j) => k = i /\ l = j
  BY MarkFacts
<1> QED BY <1>2, <1>3

\* What is written so far.
LEMMA WrittenFacts ==
  ASSUME NEW i, NEW s, NumbersRight(i, s)
  PROVE  LET N == Cardinality(DOMAIN i)
         IN  /\ N \in Nat /\ s \in Seq(Mark) /\ Len(s) \in Nat
             /\ \A c \in DOMAIN i : i[c] \in Nat /\ i[c] < N
             /\ \A k, l : k >= N => /\ Count(s, EdgeMark(k, l)) = 0
                                    /\ Count(s, AttributeMark(k, l)) = 0
             /\ \A k, l : l >= N => Count(s, EdgeMark(k, l)) = 0
             /\ \A k, c : c \notin DOMAIN i => Count(s, NodeMark(k, c)) = 0
<1> DEFINE N == Cardinality(DOMAIN i)
<1>1. N \in Nat /\ s \in Seq(Mark) /\ Len(s) \in Nat
  BY FS_CardinalityType, LenProperties DEF NumbersRight
<1>2. \A c \in DOMAIN i : i[c] \in Nat /\ i[c] < N
  <2>1. \A c \in DOMAIN i : i[c] \in 0 .. N - 1
    BY DEF NumbersRight
  <2> HIDE DEF N
  <2> QED BY <1>1, <2>1
<1>3. \A k \in 1 .. Len(s) :
        /\ s[k][2] \in 0 .. N - 1
        /\ s[k][1] = "node" => s[k][3] \in DOMAIN i
        /\ s[k][1] = "edge" => s[k][3] \in 0 .. N - 1
  BY DEF NumbersRight
<1> HIDE DEF N
<1>4. ASSUME NEW k, NEW l, k >= N, NEW x \in {EdgeMark(k, l), AttributeMark(k, l)}
      PROVE  Count(s, x) = 0
  <2>1. x[2] = k
    BY MarkFacts
  <2>2. \A h \in 1 .. Len(s) : s[h] # x
    BY <1>1, <1>3, <1>4, <2>1
  <2> QED BY <1>1, <2>2, CountType
<1>5. ASSUME NEW k, NEW l, l >= N PROVE Count(s, EdgeMark(k, l)) = 0
  <2>1. \A h \in 1 .. Len(s) : s[h] # EdgeMark(k, l)
    BY <1>1, <1>3, <1>5, MarkFacts
  <2> QED BY <1>1, <2>1, CountType
<1>6. ASSUME NEW k, NEW c, c \notin DOMAIN i PROVE Count(s, NodeMark(k, c)) = 0
  <2>1. \A h \in 1 .. Len(s) : s[h] # NodeMark(k, c)
    BY <1>3, <1>6, MarkFacts
  <2> QED BY <1>1, <2>1, CountType
<1> QED BY <1>1, <1>2, <1>4, <1>5, <1>6 DEF N

\* A number more, with its node.
Numbered(i, e) ==
  [d \in DOMAIN i \cup {e} |-> IF d = e THEN Cardinality(DOMAIN i) ELSE i[d]]

LEMMA NodeDrawn ==
  ASSUME NEW i, NEW s, NumbersRight(i, s), NEW e \in Comparison \cup OneSided, e \notin DOMAIN i
  PROVE  LET j == Numbered(i, e)
         IN  /\ NumbersRight(j, Append(s, NodeMark(j[e], e)))
             /\ DOMAIN j = DOMAIN i \cup {e} /\ j[e] = Cardinality(DOMAIN i)
             /\ \A d \in DOMAIN i : j[d] = i[d]
<1> DEFINE N == Cardinality(DOMAIN i)
           j == Numbered(i, e)
           m == NodeMark(j[e], e)
           t == Append(s, m)
<1>1. DOMAIN j = DOMAIN i \cup {e} /\ j[e] = N /\ \A d \in DOMAIN i : j[d] = i[d]
  BY DEF Numbered
<1>2. IsFiniteSet(DOMAIN j) /\ Cardinality(DOMAIN j) = N + 1
  BY <1>1, FS_AddElement DEF NumbersRight
<1>3. /\ N \in Nat /\ s \in Seq(Mark) /\ Len(s) \in Nat
      /\ \A c \in DOMAIN i : i[c] \in Nat /\ i[c] < N
      /\ Count(s, NodeMark(N, e)) = 0
  BY WrittenFacts
<1> HIDE DEF N, j
<1>4. m \in Mark /\ m[1] = "node" /\ m[2] = N /\ m[3] = e
  BY <1>1, <1>3, MarkFacts
<1>5. /\ t \in Seq(Mark) /\ Len(t) = Len(s) + 1 /\ t[Len(s) + 1] = m
      /\ \A k \in 1 .. Len(s) : t[k] = s[k]
  BY <1>3, <1>4, AppendProperties
<1>6. \A c \in DOMAIN j : j[c] \in 0 .. N
  BY <1>1, <1>3
<1>7. \A c, d \in DOMAIN j : j[c] = j[d] => c = d
  BY <1>1, <1>3 DEF NumbersRight
<1>8. ASSUME NEW k \in 1 .. Len(t)
      PROVE  /\ t[k][2] \in 0 .. N
             /\ t[k][1] = "node" => t[k][3] \in DOMAIN j
             /\ t[k][1] = "edge" => t[k][3] \in 0 .. N
  <2>1. CASE k = Len(s) + 1
    BY <1>1, <1>3, <1>4, <1>5, <2>1
  <2>2. CASE k # Len(s) + 1
    <3>1. k \in 1 .. Len(s) /\ t[k] = s[k]
      BY <1>3, <1>5, <2>2
    <3>2. /\ s[k][2] \in 0 .. N - 1
          /\ s[k][1] = "node" => s[k][3] \in DOMAIN i
          /\ s[k][1] = "edge" => s[k][3] \in 0 .. N - 1
      BY <3>1 DEF NumbersRight, N
    <3> QED BY <1>1, <1>3, <3>1, <3>2
  <2> QED BY <2>1, <2>2
<1>9. ASSUME NEW c \in DOMAIN j PROVE Count(t, NodeMark(j[c], c)) = 1
  <2>1. Count(t, NodeMark(j[c], c)) = Count(s, NodeMark(j[c], c)) + (IF m = NodeMark(j[c], c) THEN 1 ELSE 0)
    BY <1>3, <1>4, CountAppend
  <2>2. CASE c = e
    BY <1>1, <1>3, <2>1, <2>2
  <2>3. CASE c # e
    <3>1. c \in DOMAIN i /\ j[c] = i[c] /\ m # NodeMark(j[c], c)
      BY <1>1, <2>3, MarksDiffer
    <3>2. Count(s, NodeMark(i[c], c)) = 1
      BY <3>1 DEF NumbersRight
    <3> QED BY <2>1, <3>1, <3>2
  <2> QED BY <2>2, <2>3
<1> HIDE DEF t
<1>10. NumbersRight(j, t)
  <2>1. 0 .. N = 0 .. Cardinality(DOMAIN j) - 1
    BY <1>2, <1>3
  <2> HIDE DEF m
  <2> QED BY <1>2, <1>5, <1>6, <1>7, <1>8, <1>9, <2>1 DEF NumbersRight
<1> QED BY <1>1, <1>10 DEF t, m, j, N

LEMMA NodeKeeps ==
  ASSUME NEW i, NEW s, NumbersRight(i, s), NEW e \in Comparison \cup OneSided, e \notin DOMAIN i,
         NEW details, Len(details) \in Nat, NEW n \in 0 .. Len(details), NEW c \in DOMAIN i,
         DetailsDrawn(details, i, s, c, n)
  PROVE  LET j == Numbered(i, e)
         IN  DetailsDrawn(details, j, Append(s, NodeMark(j[e], e)), c, n)
<1> DEFINE N == Cardinality(DOMAIN i)
           j == Numbered(i, e)
           m == NodeMark(j[e], e)
           t == Append(s, m)
<1>1. DOMAIN j = DOMAIN i \cup {e} /\ j[e] = N /\ \A d \in DOMAIN i : j[d] = i[d]
  BY NodeDrawn
<1>2. /\ N \in Nat /\ s \in Seq(Mark)
      /\ \A k, l : l >= N => Count(s, EdgeMark(k, l)) = 0
  BY WrittenFacts
<1> HIDE DEF N, j
<1>3. m \in Mark
  BY <1>1, <1>2, MarkFacts
<1>4. \A k, l : /\ Count(t, EdgeMark(k, l)) = Count(s, EdgeMark(k, l))
                /\ Count(t, AttributeMark(k, l)) = Count(s, AttributeMark(k, l))
  <2> SUFFICES ASSUME NEW k, NEW l
               PROVE  /\ Count(t, EdgeMark(k, l)) = Count(s, EdgeMark(k, l))
                      /\ Count(t, AttributeMark(k, l)) = Count(s, AttributeMark(k, l))
    OBVIOUS
  <2>1. m # EdgeMark(k, l) /\ m # AttributeMark(k, l)
    BY MarksDiffer
  <2> HIDE DEF m
  <2> QED BY <1>2, <1>3, <2>1, CountAppend, CountType
<1> HIDE DEF t
<1>5. \A h \in 1 .. n : details[h] # NoEdge => details[h] \in DOMAIN i
  BY DEF DetailsDrawn
<1>6. ASSUME NEW d \in DOMAIN j
      PROVE  Count(t, EdgeMark(j[c], j[d])) = Among(details, n, d)
  <2>1. CASE d \in DOMAIN i
    BY <1>1, <1>4, <2>1 DEF DetailsDrawn
  <2>2. CASE d \notin DOMAIN i
    <3>1. d = e /\ Count(t, EdgeMark(j[c], j[d])) = 0
      BY <1>1, <1>2, <1>4, <2>2
    <3>2. \A h \in 1 .. n : details[h] # e
      BY <1>5, ComparisonAssumption
    <3> QED BY <3>1, <3>2, AmongNone
  <2> QED BY <2>1, <2>2
<1>7. ASSUME NEW k \in 0 .. Len(details)
      PROVE  Count(t, AttributeMark(j[c], k)) = IF k < Among(details, n, NoEdge) THEN 1 ELSE 0
  BY <1>1, <1>4 DEF DetailsDrawn
<1>8. DetailsDrawn(details, j, t, c, n)
  BY <1>1, <1>5, <1>6, <1>7 DEF DetailsDrawn
<1> QED BY <1>8 DEF t, m, j

\* Nothing is drawn for what has just got its number.
LEMMA NodeStarts ==
  ASSUME NEW i, NEW s, NumbersRight(i, s), NEW e \in Comparison \cup OneSided, e \notin DOMAIN i,
         NEW details, Len(details) \in Nat
  PROVE  LET j == Numbered(i, e)
         IN  DetailsDrawn(details, j, Append(s, NodeMark(j[e], e)), e, 0)
<1> DEFINE N == Cardinality(DOMAIN i)
           j == Numbered(i, e)
           m == NodeMark(j[e], e)
           t == Append(s, m)
<1>1. DOMAIN j = DOMAIN i \cup {e} /\ j[e] = N
  BY NodeDrawn
<1>2. /\ N \in Nat /\ s \in Seq(Mark)
      /\ \A l : Count(s, EdgeMark(N, l)) = 0 /\ Count(s, AttributeMark(N, l)) = 0
  BY WrittenFacts
<1> HIDE DEF N, j
<1>3. m \in Mark
  BY <1>1, <1>2, MarkFacts
<1>4. \A l : Count(t, EdgeMark(j[e], l)) = 0 /\ Count(t, AttributeMark(j[e], l)) = 0
  <2> SUFFICES ASSUME NEW l
               PROVE  Count(t, EdgeMark(N, l)) = 0 /\ Count(t, AttributeMark(N, l)) = 0
    BY <1>1
  <2>1. m # EdgeMark(N, l) /\ m # AttributeMark(N, l)
    BY MarksDiffer
  <2> HIDE DEF m
  <2> QED BY <1>2, <1>3, <2>1, CountAppend
<1>5. \A x : Among(details, 0, x) = 0
  BY AmongNone
<1> HIDE DEF t
<1>6. DetailsDrawn(details, j, t, e, 0)
  BY <1>4, <1>5 DEF DetailsDrawn
<1> QED BY <1>6 DEF t, m, j

\* An edge or an attribute more.
LEMMA MarkDrawn ==
  ASSUME NEW i, NEW s, NumbersRight(i, s), NEW a \in DOMAIN i, NEW m,
         \/ \E b \in DOMAIN i : m = EdgeMark(i[a], i[b])
         \/ \E k \in Nat : m = AttributeMark(i[a], k)
  PROVE  NumbersRight(i, Append(s, m)) /\ m \in Mark
<1> DEFINE N == Cardinality(DOMAIN i)
           t == Append(s, m)
<1>1. /\ N \in Nat /\ s \in Seq(Mark) /\ Len(s) \in Nat
      /\ \A c \in DOMAIN i : i[c] \in Nat /\ i[c] < N
  BY WrittenFacts
<1> HIDE DEF N
<1>2. m \in Mark /\ m[1] # "node" /\ m[2] \in 0 .. N - 1 /\ (m[1] = "edge" => m[3] \in 0 .. N - 1)
  <2>1. ASSUME NEW b \in DOMAIN i, m = EdgeMark(i[a], i[b])
        PROVE  m \in Mark /\ m[1] # "node" /\ m[2] \in 0 .. N - 1 /\ m[3] \in 0 .. N - 1
    BY <1>1, <2>1, MarkFacts
  <2>2. ASSUME NEW k \in Nat, m = AttributeMark(i[a], k)
        PROVE  m \in Mark /\ m[1] = "attribute" /\ m[2] \in 0 .. N - 1
    BY <1>1, <2>2, MarkFacts
  <2> QED BY <2>1, <2>2
<1>3. /\ t \in Seq(Mark) /\ Len(t) = Len(s) + 1 /\ t[Len(s) + 1] = m
      /\ \A k \in 1 .. Len(s) : t[k] = s[k]
  BY <1>1, <1>2, AppendProperties
<1>4. ASSUME NEW k \in 1 .. Len(t)
      PROVE  /\ t[k][2] \in 0 .. N - 1
             /\ t[k][1] = "node" => t[k][3] \in DOMAIN i
             /\ t[k][1] = "edge" => t[k][3] \in 0 .. N - 1
  <2>1. CASE k = Len(s) + 1
    BY <1>2, <1>3, <2>1
  <2>2. CASE k # Len(s) + 1
    <3>1. k \in 1 .. Len(s) /\ t[k] = s[k]
      BY <1>1, <1>3, <2>2
    <3> QED BY <3>1 DEF NumbersRight, N
  <2> QED BY <2>1, <2>2
<1>5. ASSUME NEW c \in DOMAIN i PROVE Count(t, NodeMark(i[c], c)) = 1
  <2>1. m # NodeMark(i[c], c)
    BY <1>2, MarkFacts
  <2>2. Count(s, NodeMark(i[c], c)) = 1
    BY DEF NumbersRight
  <2> QED BY <1>1, <1>2, <2>1, <2>2, CountAppend
<1> HIDE DEF t
<1>6. NumbersRight(i, t)
  BY <1>3, <1>4, <1>5 DEF NumbersRight, N
<1> QED BY <1>2, <1>6 DEF t

LEMMA EdgeKeeps ==
  ASSUME NEW i, NEW s, NumbersRight(i, s), NEW a \in DOMAIN i, NEW b \in DOMAIN i,
         NEW details, Len(details) \in Nat, NEW c \in DOMAIN i, NEW n \in 0 .. Len(details),
         DetailsDrawn(details, i, s, c, n)
  PROVE  LET t == Append(s, EdgeMark(i[a], i[b]))
         IN  /\ c # a => DetailsDrawn(details, i, t, c, n)
             /\ c = a /\ n < Len(details) /\ details[n + 1] = b /\ b # NoEdge =>
                  DetailsDrawn(details, i, t, c, n + 1)
<1> DEFINE m == EdgeMark(i[a], i[b])
           t == Append(s, m)
<1>1. m \in Mark /\ s \in Seq(Mark)
  BY MarkDrawn DEF NumbersRight
<1>2. \A d \in DOMAIN i : m = EdgeMark(i[c], i[d]) <=> c = a /\ d = b
  BY MarksDiffer DEF NumbersRight
<1>3. \A k : m # AttributeMark(i[c], k)
  BY SMTT(30), MarksDiffer
<1> HIDE DEF m
<1>4. /\ \A d \in DOMAIN i : Count(t, EdgeMark(i[c], i[d])) =
           Count(s, EdgeMark(i[c], i[d])) + (IF c = a /\ d = b THEN 1 ELSE 0)
      /\ \A k : Count(t, AttributeMark(i[c], k)) = Count(s, AttributeMark(i[c], k))
  BY <1>1, <1>2, <1>3, CountAppend, CountType
<1> HIDE DEF t
<1>5. n \in Nat /\ \A x : Among(details, n, x) \in Nat
  <2>1. n \in Nat
    OBVIOUS
  <2> QED BY <2>1, AmongType
<1>6. ASSUME c # a PROVE DetailsDrawn(details, i, t, c, n)
  BY <1>4, <1>5, <1>6 DEF DetailsDrawn
<1>7. ASSUME c = a, n < Len(details), details[n + 1] = b, b # NoEdge
      PROVE  DetailsDrawn(details, i, t, c, n + 1)
  <2>1. \A x : Among(details, n + 1, x) = Among(details, n, x) + (IF b = x THEN 1 ELSE 0)
    BY <1>7, AmongNext
  <2>2. \A h \in 1 .. n + 1 : details[h] # NoEdge => details[h] \in DOMAIN i
    <3>1. \A h \in 1 .. n + 1 : h \in 1 .. n \/ h = n + 1
      OBVIOUS
    <3> QED BY <1>7, <3>1 DEF DetailsDrawn
  <2>3. \A d \in DOMAIN i : Count(t, EdgeMark(i[c], i[d])) = Among(details, n + 1, d)
    BY <1>4, <1>7, <2>1 DEF DetailsDrawn
  <2>4. Among(details, n + 1, NoEdge) = Among(details, n, NoEdge)
    BY <1>5, <1>7, <2>1
  <2> QED BY <1>4, <2>2, <2>3, <2>4 DEF DetailsDrawn
<1> QED BY <1>6, <1>7 DEF t, m

LEMMA AttributeKeeps ==
  ASSUME NEW i, NEW s, NumbersRight(i, s), NoEdge \notin DOMAIN i, NEW a \in DOMAIN i, NEW k \in Nat,
         NEW details, Len(details) \in Nat, NEW c \in DOMAIN i, NEW n \in 0 .. Len(details),
         DetailsDrawn(details, i, s, c, n)
  PROVE  LET t == Append(s, AttributeMark(i[a], k))
         IN  /\ c # a => DetailsDrawn(details, i, t, c, n)
             /\ c = a /\ n < Len(details) /\ details[n + 1] = NoEdge /\ k = Among(details, n, NoEdge) =>
                  DetailsDrawn(details, i, t, c, n + 1)
<1> DEFINE m == AttributeMark(i[a], k)
           t == Append(s, m)
<1>1. m \in Mark /\ s \in Seq(Mark)
  BY MarkDrawn DEF NumbersRight
<1>2. \A l : m = AttributeMark(i[c], l) <=> c = a /\ l = k
  <2>1. i[a] = i[c] <=> c = a
    BY DEF NumbersRight
  <2>2. \A l : m = AttributeMark(i[c], l) <=> i[a] = i[c] /\ k = l
    BY MarksDiffer
  <2> QED BY <2>1, <2>2
<1>3. \A l : m # EdgeMark(i[c], l)
  <2>1. \A w, x, y, z : AttributeMark(w, x) # EdgeMark(y, z)
    BY MarksDiffer
  <2> QED BY <2>1
<1> HIDE DEF m
<1>4. /\ \A l : Count(t, EdgeMark(i[c], l)) = Count(s, EdgeMark(i[c], l))
      /\ \A l : Count(t, AttributeMark(i[c], l)) =
           Count(s, AttributeMark(i[c], l)) + (IF c = a /\ l = k THEN 1 ELSE 0)
      /\ \A l : Count(s, AttributeMark(i[c], l)) \in Nat
  BY <1>1, <1>2, <1>3, CountAppend, CountType
<1> HIDE DEF t
<1>5. n \in Nat /\ \A x : Among(details, n, x) \in Nat
  <2>1. n \in Nat
    OBVIOUS
  <2> QED BY <2>1, AmongType
<1>6. ASSUME c # a PROVE DetailsDrawn(details, i, t, c, n)
  BY <1>4, <1>6 DEF DetailsDrawn
<1>7. ASSUME c = a, n < Len(details), details[n + 1] = NoEdge, k = Among(details, n, NoEdge)
      PROVE  DetailsDrawn(details, i, t, c, n + 1)
  <2>1. \A x : Among(details, n + 1, x) = Among(details, n, x) + (IF NoEdge = x THEN 1 ELSE 0)
    BY <1>7, AmongNext
  <2>2. \A h \in 1 .. n + 1 : details[h] # NoEdge => details[h] \in DOMAIN i
    <3>1. \A h \in 1 .. n + 1 : h \in 1 .. n \/ h = n + 1
      OBVIOUS
    <3> QED BY <1>7, <3>1 DEF DetailsDrawn
  <2>3. \A d \in DOMAIN i : Among(details, n + 1, d) = Among(details, n, d)
    BY <1>5, <2>1
  <2>4. \A d \in DOMAIN i : Count(t, EdgeMark(i[c], i[d])) = Among(details, n + 1, d)
    BY <1>4, <2>3 DEF DetailsDrawn
  <2>5. Among(details, n + 1, NoEdge) = k + 1
    BY <1>7, <2>1
  <2>6. ASSUME NEW l \in 0 .. Len(details)
        PROVE  Count(t, AttributeMark(i[c], l)) = IF l < k + 1 THEN 1 ELSE 0
    <3>1. Count(s, AttributeMark(i[c], l)) = IF l < k THEN 1 ELSE 0
      BY <1>7 DEF DetailsDrawn
    <3> QED BY <1>4, <1>7, <3>1
  <2> QED BY <2>2, <2>4, <2>5, <2>6 DEF DetailsDrawn
<1> QED BY <1>6, <1>7 DEF t, m

--------------------------------------------------------------------------------
(***************************************************************************)
(* The Graphviz report.                                                    *)
(***************************************************************************)
\* What the root leads to, is the root or met.
LEMMA MetOn ==
  ASSUME TypeOK, NEW c \in (Met \cup {root}) \cap Comparison, NEW i \in 1 .. Len(outcomes[c].details),
         outcomes[c].details[i] # NoEdge
  PROVE  outcomes[c].details[i] \in Met
<1> DEFINE g == Opened(outcomes, Comparison)
           T == {x \in Comparison : Paths!Reach(g, root, x)}
<1>1. ASSUME NEW b \in T \cap DOMAIN outcomes, NEW k \in 1 .. Len(outcomes[b].details),
             outcomes[b].details[k] \in Comparison
      PROVE  outcomes[b].details[k] \in T
  <2>1. Len(outcomes[b].details) \in Nat
    BY GraphFacts
  <2>2. outcomes[b].details[k] \in Paths!Succ(g, b)
    BY <1>1, <2>1, OpenedFacts
  <2> HIDE DEF g
  <2>3. Paths!Reach(g, root, b) => Paths!Reach(g, root, outcomes[b].details[k])
    BY <2>2, InnerClosed
  <2> QED BY <1>1, <2>3
<1>2. T \in SUBSET Comparison /\ root \in T
  BY GraphFacts DEF Paths!Reach
<1>3. c \in T
  <2>1. CASE c = root
    BY <1>2, <2>1
  <2>2. CASE c \in Met
    <3> HIDE DEF T
    <3>1. \E b \in T \cap DOMAIN outcomes : \E k \in 1 .. Len(outcomes[b].details) :
            c = outcomes[b].details[k]
      BY <1>1, <1>2, <2>2, MetInside
    <3> QED BY <1>1, <3>1
  <2> QED BY <2>1, <2>2
<1>4. c \in DOMAIN outcomes
  BY GraphFacts DEF Met
<1>5. outcomes[c].details[i] \in DOMAIN outcomes
  BY <1>4, GraphFacts
<1>6. outcomes[c].details[i] \in EdgesOf(outcomes[c].details)
  BY DEF EdgesOf
<1> QED BY <1>3, <1>5, <1>6 DEF Met

\* What is known of the innermost call and of what has a number.
LEMMA DrawnFacts ==
  ASSUME TypeOK, DrawnSoFar, Viz
  PROVE  /\ DOMAIN ids \subseteq DOMAIN outcomes /\ DOMAIN ids \subseteq Comparison \cup OneSided
         /\ NoEdge \notin DOMAIN ids /\ NumbersRight(ids, drawn)
         /\ Top.node \in DOMAIN ids /\ Top.node \in Comparison
         /\ Len(outcomes[Top.node].details) \in Nat
         /\ Top.next - 1 \in 0 .. Len(outcomes[Top.node].details)
         /\ DetailsDrawn(outcomes[Top.node].details, ids, drawn, Top.node, Top.next - 1)
         /\ Printing => /\ Top.next \in 1 .. Len(outcomes[Top.node].details)
                        /\ Current # NoEdge => Current \in Met
<1>1. DOMAIN ids \subseteq DOMAIN outcomes /\ DOMAIN ids \subseteq Comparison \cup OneSided
  BY DEF DrawnSoFar, TypeOK, WellFormed
<1>2. Len(stack) \in 1 .. Len(stack) /\ Top = stack[Len(stack)]
  BY StackFacts, TopFacts
<1>3. /\ Top.node \in DOMAIN ids
      /\ DetailsDrawn(outcomes[Top.node].details, ids, drawn, Top.node, Top.next - 1)
  BY <1>2 DEF DrawnSoFar
<1>4. /\ Top.node \in Comparison /\ Top.node \in DOMAIN outcomes
      /\ Len(outcomes[Top.node].details) \in Nat /\ Top.next \in Nat /\ Top.next >= 1
      /\ Top.next <= Len(outcomes[Top.node].details) + 1
  BY <1>2, TopFacts, GraphFacts, StackFacts
<1>5. ASSUME Printing
      PROVE  /\ Top.next \in 1 .. Len(outcomes[Top.node].details)
             /\ Current # NoEdge => Current \in Met
  <2>1. Top.next \in 1 .. Len(outcomes[Top.node].details)
    BY <1>4, <1>5 DEF Printing
  <2>2. Top.node \in Met \cup {root}
    BY <1>3 DEF DrawnSoFar
  <2> QED BY <1>4, <2>1, <2>2, MetOn DEF Current
<1> QED BY <1>1, <1>3, <1>4, <1>5, ComparisonAssumption DEF DrawnSoFar

\* What a step draws for a, it draws for no other.
KeepsOthers(a) ==
  \A c \in DOMAIN ids \cap Comparison : c # a =>
    \A n \in 0 .. Len(outcomes[c].details) :
      DetailsDrawn(outcomes[c].details, ids, drawn, c, n) =>
        DetailsDrawn(outcomes[c].details, ids', drawn', c, n)

Numbers ==
  /\ DOMAIN ids = DOMAIN seen
  /\ root \in DOMAIN ids /\ DOMAIN ids \subseteq Met \cup {root}
  /\ NumbersRight(ids, drawn)

LEMMA SameMet ==
  ASSUME outcomes' = outcomes, root' = root
  PROVE  Met' = Met
BY DEF Met, Opened, EdgesOf, Paths!Reach, Paths!Closed, Paths!Succ

LEMMA DrawnParts ==
  ASSUME Viz'
  PROVE  DrawnSoFar' <=>
           /\ Numbers'
           /\ \A f \in 1 .. Len(stack') :
                /\ stack'[f].node \in DOMAIN ids'
                /\ \A g \in 1 .. Len(stack') : stack'[g].node = stack'[f].node => g = f
                /\ DetailsDrawn(outcomes'[stack'[f].node].details, ids', drawn', stack'[f].node,
                                stack'[f].next - 1)
           /\ \A c \in DOMAIN ids' \cap Comparison :
                \/ \E f \in 1 .. Len(stack') : stack'[f].node = c
                \/ DetailsDrawn(outcomes'[c].details, ids', drawn', c, Len(outcomes'[c].details))
BY DEF DrawnSoFar, Numbers, DetailsDrawn

LEMMA DrawnPrinted ==
  ASSUME TypeOK, DrawnSoFar, Viz, PrintedStep(<< >>, FALSE), Numbers', KeepsOthers(Top.node),
         DOMAIN ids \subseteq DOMAIN ids', DOMAIN ids' \subseteq DOMAIN ids \cup OneSided,
         DetailsDrawn(outcomes[Top.node].details, ids', drawn', Top.node, Top.next)
  PROVE  DrawnSoFar'
<1> DEFINE n == Len(stack)
<1>1. /\ n \in Nat /\ n >= 1 /\ Len(stack') = n
      /\ \A f \in 1 .. n - 1 : stack'[f] = stack[f]
      /\ stack'[n].node = Top.node /\ stack'[n].next = Top.next + 1
      /\ \A f \in 1 .. n : stack'[f].node = stack[f].node
  <2>1. << >> \in Seq(Line) /\ FALSE \in BOOLEAN
    OBVIOUS
  <2> QED BY <2>1, StackFacts, PrintedFacts, PrintedActive
<1>2. outcomes' = outcomes /\ Viz'
  BY DEF PrintedStep, Viz
<1>3. Top = stack[n] /\ n \in 1 .. n
  BY <1>1, TopFacts
<1>4. ASSUME NEW f \in 1 .. n
      PROVE  /\ stack'[f].node \in DOMAIN ids'
             /\ \A g \in 1 .. n : stack'[g].node = stack'[f].node => g = f
             /\ DetailsDrawn(outcomes[stack'[f].node].details, ids', drawn', stack'[f].node,
                             stack'[f].next - 1)
  <2>1. /\ stack[f].node \in DOMAIN ids
        /\ \A g \in 1 .. n : stack[g].node = stack[f].node => g = f
        /\ DetailsDrawn(outcomes[stack[f].node].details, ids, drawn, stack[f].node, stack[f].next - 1)
    BY DEF DrawnSoFar
  <2>2. CASE f = n
    <3>1. stack'[f].next - 1 = Top.next
      BY <1>1, <2>2, TopFacts
    <3> QED BY <1>1, <2>1, <2>2, <3>1
  <2>3. CASE f # n
    <3>1. f \in 1 .. n - 1
      BY <1>1, <2>3
    <3>2. stack[f].node # Top.node
      BY <1>3, <2>1, <2>3
    <3>3. /\ stack[f].node \in Comparison /\ stack[f].node \in DOMAIN outcomes
          /\ stack[f].next \in Nat /\ stack[f].next >= 1
          /\ stack[f].next <= Len(outcomes[stack[f].node].details) + 1
      BY StackFacts
    <3>4. stack[f].next - 1 \in 0 .. Len(outcomes[stack[f].node].details)
      BY <3>3, GraphFacts
    <3>5. DetailsDrawn(outcomes[stack[f].node].details, ids', drawn', stack[f].node, stack[f].next - 1)
      BY <2>1, <3>2, <3>3, <3>4 DEF KeepsOthers
    <3> QED BY <1>1, <2>1, <3>1, <3>5
  <2> QED BY <2>2, <2>3
<1>5. ASSUME NEW c \in DOMAIN ids' \cap Comparison
      PROVE  \/ \E f \in 1 .. n : stack'[f].node = c
             \/ DetailsDrawn(outcomes[c].details, ids', drawn', c, Len(outcomes[c].details))
  <2>1. c \in DOMAIN ids /\ c \in DOMAIN outcomes
    BY ComparisonAssumption, DrawnFacts
  <2>2. CASE \E f \in 1 .. n : stack[f].node = c
    BY <1>1, <2>2
  <2>3. CASE ~\E f \in 1 .. n : stack[f].node = c
    <3>1. DetailsDrawn(outcomes[c].details, ids, drawn, c, Len(outcomes[c].details))
      BY <2>1, <2>3 DEF DrawnSoFar
    <3>2. c # Top.node /\ Len(outcomes[c].details) \in 0 .. Len(outcomes[c].details)
      BY <1>3, <2>1, <2>3, GraphFacts
    <3> QED BY <2>1, <3>1, <3>2 DEF KeepsOthers
  <2> QED BY <2>2, <2>3
<1> HIDE DEF n
<1> QED BY <1>1, <1>2, <1>4, <1>5, DrawnParts

LEMMA DrawnCalled ==
  ASSUME TypeOK, DrawnSoFar, Viz, NEW c \in Comparison \cap DOMAIN outcomes, c \notin DOMAIN ids,
         CallStep(c, FALSE, << >>), Numbers', \A a \in Comparison \ DOMAIN ids : KeepsOthers(a),
         DOMAIN ids' = DOMAIN ids \cup {c},
         DetailsDrawn(outcomes[c].details, ids', drawn', c, 0)
  PROVE  DrawnSoFar'
<1> DEFINE n == Len(stack)
<1>1. /\ n \in Nat /\ n >= 1 /\ Len(stack') = n + 1
      /\ \A f \in 1 .. n : stack'[f] = stack[f]
      /\ stack'[n + 1].node = c /\ stack'[n + 1].next = 1
  <2>1. << >> \in Seq(Line) /\ FALSE \in BOOLEAN
    OBVIOUS
  <2> QED BY <2>1, StackFacts, CallStepFacts
<1>2. outcomes' = outcomes /\ Viz'
  BY DEF CallStep, Viz
<1>3. \A d \in DOMAIN ids \cap Comparison : \A k \in 0 .. Len(outcomes[d].details) :
        DetailsDrawn(outcomes[d].details, ids, drawn, d, k) =>
          DetailsDrawn(outcomes[d].details, ids', drawn', d, k)
  BY DEF KeepsOthers
<1>4. ASSUME NEW f \in 1 .. n
      PROVE  /\ stack[f].node \in DOMAIN ids
             /\ \A g \in 1 .. n : stack[g].node = stack[f].node => g = f
             /\ DetailsDrawn(outcomes[stack[f].node].details, ids', drawn', stack[f].node,
                             stack[f].next - 1)
  <2>1. /\ stack[f].node \in DOMAIN ids
        /\ \A g \in 1 .. n : stack[g].node = stack[f].node => g = f
        /\ DetailsDrawn(outcomes[stack[f].node].details, ids, drawn, stack[f].node, stack[f].next - 1)
    BY DEF DrawnSoFar
  <2>2. /\ stack[f].node \in Comparison /\ stack[f].node \in DOMAIN outcomes
        /\ stack[f].next \in Nat /\ stack[f].next >= 1
        /\ stack[f].next <= Len(outcomes[stack[f].node].details) + 1
    BY StackFacts
  <2>3. stack[f].next - 1 \in 0 .. Len(outcomes[stack[f].node].details)
    BY <2>2, GraphFacts
  <2> QED BY <1>3, <2>1, <2>2, <2>3
<1>5. ASSUME NEW f \in 1 .. n + 1
      PROVE  /\ stack'[f].node \in DOMAIN ids'
             /\ \A g \in 1 .. n + 1 : stack'[g].node = stack'[f].node => g = f
             /\ DetailsDrawn(outcomes[stack'[f].node].details, ids', drawn', stack'[f].node,
                             stack'[f].next - 1)
  <2>1. \A g \in 1 .. n + 1 : g = n + 1 \/ g \in 1 .. n
    BY <1>1
  <2>2. CASE f = n + 1
    <3>1. \A g \in 1 .. n : stack'[g].node # c
      BY <1>1, <1>4
    <3> QED BY <1>1, <2>1, <2>2, <3>1
  <2>3. CASE f \in 1 .. n
    <3>1. stack'[n + 1].node # stack'[f].node
      BY <1>1, <1>4, <2>3
    <3>2. \A g \in 1 .. n + 1 : stack'[g].node = stack'[f].node => g = f
      BY <1>1, <1>4, <2>1, <2>3, <3>1
    <3> QED BY <1>1, <1>4, <2>3, <3>2
  <2> QED BY <2>1, <2>2, <2>3
<1>6. ASSUME NEW d \in DOMAIN ids' \cap Comparison
      PROVE  \/ \E f \in 1 .. n + 1 : stack'[f].node = d
             \/ DetailsDrawn(outcomes[d].details, ids', drawn', d, Len(outcomes[d].details))
  <2>1. n + 1 \in 1 .. n + 1 /\ \A f \in 1 .. n : f \in 1 .. n + 1
    BY <1>1
  <2>2. CASE d = c
    BY <1>1, <2>1, <2>2
  <2>3. CASE d # c
    <3>1. d \in DOMAIN ids /\ d \in DOMAIN outcomes
      BY <2>3, DrawnFacts
    <3>2. CASE \E f \in 1 .. n : stack[f].node = d
      BY <1>1, <2>1, <3>2
    <3>3. CASE ~\E f \in 1 .. n : stack[f].node = d
      <4>1. DetailsDrawn(outcomes[d].details, ids, drawn, d, Len(outcomes[d].details))
        BY <3>1, <3>3 DEF DrawnSoFar
      <4>2. Len(outcomes[d].details) \in 0 .. Len(outcomes[d].details)
        BY <3>1, GraphFacts
      <4> QED BY <1>3, <3>1, <4>1, <4>2
    <3> QED BY <3>2, <3>3
  <2> QED BY <2>2, <2>3
<1> HIDE DEF n
<1> QED BY <1>1, <1>2, <1>5, <1>6, DrawnParts

LEMMA DrawnReturned ==
  ASSUME TypeOK, DrawnSoFar, Viz, CallsMatch, ReturnStep(FALSE, << >>), Numbers',
         KeepsOthers(Caller.node), DOMAIN ids' = DOMAIN ids,
         DetailsDrawn(outcomes[Caller.node].details, ids', drawn', Caller.node, Caller.next)
  PROVE  DrawnSoFar'
<1> DEFINE m == Len(stack) - 1
<1>1. /\ m \in Nat /\ m >= 1 /\ Len(stack) = m + 1 /\ Len(stack') = m
      /\ Caller = stack[m] /\ Top = stack[m + 1]
      /\ \A f \in 1 .. m - 1 : stack'[f] = stack[f]
      /\ \A f \in 1 .. m : stack'[f].node = stack[f].node
      /\ Within(m) => stack'[m].next = Caller.next + 1
  <2>1. << >> \in Seq(Line) /\ FALSE \in BOOLEAN
    OBVIOUS
  <2>2. \A f \in 1 .. m : stack'[f].node = stack[f].node
    BY <2>1, ReturnActive
  <2>3. /\ m \in Nat /\ m >= 1 /\ Len(stack') = m /\ Caller = stack[m]
        /\ \A f \in 1 .. m - 1 : stack'[f] = stack[f]
        /\ Within(m) => stack'[m].next = Caller.next + 1
    BY <2>1, ReturnStepFacts
  <2>4. Len(stack) = m + 1 /\ Top = stack[m + 1]
    BY StackFacts, TopFacts
  <2> QED BY <2>2, <2>3, <2>4
<1>2. outcomes' = outcomes /\ Viz' /\ ~Printing
  BY DEF ReturnStep, Viz
<1> HIDE DEF m
<1>3. Within(m) /\ m \in 1 .. m + 1 /\ m + 1 \in 1 .. m + 1
  <2>1. m \in 1 .. Len(stack) - 1 /\ ~Flat
    BY <1>1 DEF Viz, Flat
  <2> QED BY <1>1, <2>1 DEF CallsMatch
<1>4. ASSUME NEW f \in 1 .. m + 1
      PROVE  /\ stack[f].node \in DOMAIN ids
             /\ \A g \in 1 .. m + 1 : stack[g].node = stack[f].node => g = f
             /\ DetailsDrawn(outcomes[stack[f].node].details, ids, drawn, stack[f].node,
                             stack[f].next - 1)
             /\ stack[f].node \in Comparison
             /\ stack[f].next - 1 \in 0 .. Len(outcomes[stack[f].node].details)
  <2>1. /\ stack[f].node \in DOMAIN ids
        /\ \A g \in 1 .. m + 1 : stack[g].node = stack[f].node => g = f
        /\ DetailsDrawn(outcomes[stack[f].node].details, ids, drawn, stack[f].node, stack[f].next - 1)
    BY <1>1 DEF DrawnSoFar
  <2>2. /\ stack[f].node \in Comparison /\ stack[f].node \in DOMAIN outcomes
        /\ stack[f].next \in Nat /\ stack[f].next >= 1
        /\ stack[f].next <= Len(outcomes[stack[f].node].details) + 1
    BY <1>1, StackFacts
  <2>3. stack[f].next - 1 \in 0 .. Len(outcomes[stack[f].node].details)
    BY <2>2, GraphFacts
  <2> QED BY <2>1, <2>2, <2>3
<1>5. \A f \in 1 .. m : f \in 1 .. m + 1 /\ (f = m \/ f \in 1 .. m - 1)
  BY <1>1
<1>6. ASSUME NEW f \in 1 .. m
      PROVE  /\ stack'[f].node \in DOMAIN ids'
             /\ \A g \in 1 .. m : stack'[g].node = stack'[f].node => g = f
             /\ DetailsDrawn(outcomes[stack'[f].node].details, ids', drawn', stack'[f].node,
                             stack'[f].next - 1)
  <2>1. \A g \in 1 .. m : stack'[g].node = stack'[f].node => g = f
    BY <1>1, <1>4, <1>5
  <2>2. CASE f = m
    <3>1. stack'[f].next - 1 = Caller.next
      <4>1. Caller.next \in Nat
        BY <1>1, <1>3, StackFacts
      <4> QED BY <1>1, <1>3, <2>2, <4>1
    <3> QED BY <1>1, <1>4, <1>5, <2>1, <2>2, <3>1
  <2>3. CASE f # m
    <3>1. f \in 1 .. m - 1
      BY <1>5, <2>3
    <3>2. stack[f].node # Caller.node
      BY <1>1, <1>3, <1>4, <1>5, <2>3
    <3>3. DetailsDrawn(outcomes[stack[f].node].details, ids', drawn', stack[f].node, stack[f].next - 1)
      BY <1>4, <1>5, <3>2 DEF KeepsOthers
    <3> QED BY <1>1, <1>4, <1>5, <2>1, <3>1, <3>3
  <2> QED BY <2>2, <2>3
<1>7. ASSUME NEW c \in DOMAIN ids' \cap Comparison
      PROVE  \/ \E f \in 1 .. m : stack'[f].node = c
             \/ DetailsDrawn(outcomes[c].details, ids', drawn', c, Len(outcomes[c].details))
  <2>1. c \in DOMAIN ids /\ c \in DOMAIN outcomes /\ Len(outcomes[c].details) \in Nat
    BY DrawnFacts, GraphFacts
  <2>2. CASE \E f \in 1 .. m : stack[f].node = c
    BY <1>1, <2>2
  <2>3. CASE ~\E f \in 1 .. m : stack[f].node = c
    <3>1. DetailsDrawn(outcomes[c].details, ids, drawn, c, Len(outcomes[c].details))
      <4>1. CASE c = Top.node
        <5>1. Top.next - 1 = Len(outcomes[c].details)
          BY <1>2, <2>1, <4>1, TopFacts
        <5> QED BY <1>1, <1>3, <1>4, <4>1, <5>1
      <4>2. CASE c # Top.node
        <5>1. ~\E f \in 1 .. m + 1 : stack[f].node = c
          <6>1. \A f \in 1 .. m + 1 : f \in 1 .. m \/ f = m + 1
            BY <1>1
          <6> QED BY <1>1, <2>3, <4>2, <6>1
        <5> QED BY <1>1, <2>1, <5>1 DEF DrawnSoFar
      <4> QED BY <4>1, <4>2
    <3>2. c # Caller.node /\ Len(outcomes[c].details) \in 0 .. Len(outcomes[c].details)
      <4>1. m \in 1 .. m
        BY <1>1
      <4> QED BY <1>1, <2>1, <2>3, <4>1
    <3> QED BY <2>1, <3>1, <3>2 DEF KeepsOthers
  <2> QED BY <2>2, <2>3
<1> QED BY <1>1, <1>2, <1>6, <1>7, DrawnParts

LEMMA SameNumbers ==
  ASSUME Numbers, outcomes' = outcomes, root' = root, ids' = ids, DOMAIN seen' = DOMAIN seen,
         NumbersRight(ids, drawn')
  PROVE  Numbers'
<1>1. Met' = Met
  BY SameMet
<1>2. NumbersRight(ids', drawn')
  BY DEF NumbersRight
<1> QED BY <1>1, <1>2 DEF Numbers

LEMMA AttributeStep ==
  ASSUME TypeOK, DrawnSoFar, VizAttribute
  PROVE  DrawnSoFar'
<1> DEFINE a == Top.node
           k == AttributeIndex(Top)
           details == outcomes[a].details
<1>1. /\ Viz /\ Printing /\ Current = NoEdge /\ ids' = ids /\ seen' = seen
      /\ drawn' = Append(drawn, AttributeMark(ids[a], k))
      /\ outcomes' = outcomes /\ root' = root
  BY DEF VizAttribute
<1>2. PrintedStep(<< >>, FALSE)
  BY PrintedActions
<1>3. /\ NumbersRight(ids, drawn) /\ NoEdge \notin DOMAIN ids /\ a \in DOMAIN ids /\ a \in Comparison
      /\ Len(details) \in Nat /\ Top.next - 1 \in 0 .. Len(details) /\ Top.next \in 1 .. Len(details)
      /\ DetailsDrawn(details, ids, drawn, a, Top.next - 1)
      /\ DOMAIN ids \subseteq DOMAIN outcomes
  BY <1>1, DrawnFacts
<1>4. k = Among(details, Top.next - 1, NoEdge) /\ k \in Nat
  <2>1. k = Among(details, Top.next - 1, NoEdge)
    BY DEF AttributeIndex, Among
  <2>2. Top.next - 1 \in Nat
    BY <1>3
  <2> QED BY <2>1, <2>2, AmongType
<1> HIDE DEF a, k
<1>5. NumbersRight(ids, drawn')
  BY <1>1, <1>3, <1>4, MarkDrawn
<1>6. Numbers
  BY <1>1 DEF DrawnSoFar, Numbers
<1>7. Numbers'
  BY <1>1, <1>5, <1>6, SameNumbers
<1>8. KeepsOthers(a)
  <2> SUFFICES ASSUME NEW c \in DOMAIN ids \cap Comparison, c # a,
                      NEW n \in 0 .. Len(outcomes[c].details),
                      DetailsDrawn(outcomes[c].details, ids, drawn, c, n)
               PROVE  DetailsDrawn(outcomes[c].details, ids', drawn', c, n)
    BY DEF KeepsOthers
  <2>1. Len(outcomes[c].details) \in Nat
    BY <1>3, GraphFacts
  <2> QED BY <1>1, <1>3, <1>4, <2>1, AttributeKeeps
<1>9. DetailsDrawn(details, ids, drawn', a, Top.next)
  <2> DEFINE n == Top.next - 1
  <2>1. n \in 0 .. Len(details) /\ n < Len(details) /\ n + 1 = Top.next /\ details[n + 1] = NoEdge
    BY <1>1, <1>3, TopFacts DEF a
  <2>2. DetailsDrawn(details, ids, drawn, a, n) /\ k = Among(details, n, NoEdge)
    BY <1>3, <1>4
  <2> HIDE DEF n, details
  <2>3. DetailsDrawn(details, ids, drawn', a, n + 1)
    BY <1>1, <1>3, <1>4, <2>1, <2>2, AttributeKeeps
  <2> QED BY <2>1, <2>3
<1>10. DetailsDrawn(details, ids', drawn', a, Top.next)
  BY <1>1, <1>9
<1> QED BY <1>1, <1>2, <1>7, <1>8, <1>10, DrawnPrinted DEF a

\* The number a comparison gets when it is first met, and its node.
LEMMA NumberedNow ==
  ASSUME TypeOK, DrawnSoFar, Viz, NEW e \in Met, e \notin DOMAIN seen,
         outcomes' = outcomes, root' = root, seen' = WithSeen(e, FALSE), ids' = VizId(e)
  PROVE  LET s == Append(drawn, NodeMark(ids'[e], e))
         IN  /\ ids' = Numbered(ids, e) /\ DOMAIN ids' = DOMAIN ids \cup {e} /\ e \notin DOMAIN ids
             /\ \A d \in DOMAIN ids : ids'[d] = ids[d]
             /\ NumbersRight(ids', s) /\ s \in Seq(Mark)
             /\ NumbersRight(ids', drawn') => Numbers'
             /\ \A c \in DOMAIN ids \cap Comparison : \A n \in 0 .. Len(outcomes[c].details) :
                  DetailsDrawn(outcomes[c].details, ids, drawn, c, n) =>
                    DetailsDrawn(outcomes[c].details, ids', s, c, n)
             /\ e \in Comparison => DetailsDrawn(outcomes[e].details, ids', s, e, 0)
<1> DEFINE s == Append(drawn, NodeMark(ids'[e], e))
<1>1. /\ DOMAIN ids = DOMAIN seen /\ root \in DOMAIN ids /\ DOMAIN ids \subseteq Met \cup {root}
      /\ NumbersRight(ids, drawn) /\ DOMAIN ids \subseteq DOMAIN outcomes
  BY DrawnFacts DEF DrawnSoFar
<1>2. e \in DOMAIN outcomes /\ e \in Comparison \cup OneSided /\ e \notin DOMAIN ids
  BY <1>1 DEF Met, TypeOK, WellFormed
<1>3. ids' = Numbered(ids, e)
  BY <1>2 DEF VizId, Numbered
<1>4. /\ DOMAIN ids' = DOMAIN ids \cup {e} /\ \A d \in DOMAIN ids : ids'[d] = ids[d]
      /\ NumbersRight(ids', s)
  <2> DEFINE j == Numbered(ids, e)
  <2>1. /\ NumbersRight(j, Append(drawn, NodeMark(j[e], e)))
        /\ DOMAIN j = DOMAIN ids \cup {e} /\ \A d \in DOMAIN ids : j[d] = ids[d]
    BY <1>1, <1>2, NodeDrawn
  <2>2. ids' = j
    BY <1>3
  <2> HIDE DEF j
  <2> QED BY <2>1, <2>2
<1>5. s \in Seq(Mark)
  BY <1>4 DEF NumbersRight
<1>6. ASSUME NumbersRight(ids', drawn') PROVE Numbers'
  <2>1. Met' = Met
    BY SameMet
  <2>2. DOMAIN seen' = DOMAIN seen \cup {e}
    BY DEF WithSeen
  <2>3. NumbersRight(ids, drawn)'
    BY <1>6 DEF NumbersRight
  <2> QED BY <1>1, <1>4, <2>1, <2>2, <2>3 DEF Numbers
<1>7. ASSUME NEW c \in DOMAIN ids \cap Comparison, NEW n \in 0 .. Len(outcomes[c].details),
             DetailsDrawn(outcomes[c].details, ids, drawn, c, n)
      PROVE  DetailsDrawn(outcomes[c].details, ids', s, c, n)
  <2>1. Len(outcomes[c].details) \in Nat
    BY <1>1, GraphFacts
  <2> QED BY <1>1, <1>2, <1>3, <1>7, <2>1, NodeKeeps
<1>8. ASSUME e \in Comparison PROVE DetailsDrawn(outcomes[e].details, ids', s, e, 0)
  <2>1. Len(outcomes[e].details) \in Nat
    BY <1>2, <1>8, GraphFacts
  <2> QED BY <1>1, <1>2, <1>3, <2>1, NodeStarts
<1> HIDE DEF s
<1>9. \A c \in DOMAIN ids \cap Comparison : \A n \in 0 .. Len(outcomes[c].details) :
        DetailsDrawn(outcomes[c].details, ids, drawn, c, n) =>
          DetailsDrawn(outcomes[c].details, ids', s, c, n)
  BY <1>7
<1> QED BY <1>2, <1>3, <1>4, <1>5, <1>6, <1>8, <1>9, Zenon DEF s

LEMMA EnterStep ==
  ASSUME TypeOK, DrawnSoFar, VizEnter
  PROVE  DrawnSoFar'
<1> DEFINE c == Current
<1>1. /\ Viz /\ Printing /\ c \in Comparison /\ c \notin DOMAIN seen
      /\ seen' = WithSeen(c, FALSE) /\ ids' = VizId(c) /\ drawn' = drawn \o Drawn(c)
      /\ outcomes' = outcomes /\ root' = root
  BY DEF VizEnter
<1>2. CallStep(c, FALSE, << >>) /\ c \in Comparison \cap DOMAIN outcomes
  BY CallActions
<1>3. c \in Met
  BY <1>1, DrawnFacts, ComparisonAssumption
<1> HIDE DEF c
<1>4. drawn \in Seq(Mark) /\ drawn' = Append(drawn, NodeMark(ids'[c], c))
  <2>1. drawn \in Seq(Mark)
    BY <1>1 DEF DrawnSoFar, NumbersRight
  <2> QED BY <1>1, <2>1 DEF Drawn
<1>5. /\ DOMAIN ids' = DOMAIN ids \cup {c} /\ c \notin DOMAIN ids
      /\ NumbersRight(ids', drawn')
      /\ NumbersRight(ids', drawn') => Numbers'
      /\ \A d \in DOMAIN ids \cap Comparison : \A n \in 0 .. Len(outcomes[d].details) :
           DetailsDrawn(outcomes[d].details, ids, drawn, d, n) =>
             DetailsDrawn(outcomes[d].details, ids', drawn', d, n)
      /\ DetailsDrawn(outcomes[c].details, ids', drawn', c, 0)
  <2> DEFINE s == Append(drawn, NodeMark(ids'[c], c))
  <2>1. /\ DOMAIN ids' = DOMAIN ids \cup {c} /\ c \notin DOMAIN ids
        /\ NumbersRight(ids', s)
        /\ NumbersRight(ids', drawn') => Numbers'
        /\ \A d \in DOMAIN ids \cap Comparison : \A n \in 0 .. Len(outcomes[d].details) :
             DetailsDrawn(outcomes[d].details, ids, drawn, d, n) =>
               DetailsDrawn(outcomes[d].details, ids', s, d, n)
        /\ DetailsDrawn(outcomes[c].details, ids', s, c, 0)
    BY <1>1, <1>3, NumberedNow, Zenon
  <2>2. drawn' = s
    BY <1>4
  <2> HIDE DEF s
  <2> QED BY <2>1, <2>2, Zenon
<1>6. \A a \in Comparison \ DOMAIN ids : KeepsOthers(a)
  BY <1>5 DEF KeepsOthers
<1> QED BY <1>1, <1>2, <1>5, <1>6, DrawnCalled

\* An edge is drawn, after a node if it leads to what has just got its number.
LEMMA EdgeDrawn ==
  ASSUME TypeOK, DrawnSoFar, Viz, NEW a \in DOMAIN ids \cap Comparison, NEW b \in DOMAIN ids', b # NoEdge,
         DOMAIN ids \subseteq DOMAIN ids', NEW s, NumbersRight(ids', s),
         drawn' = Append(s, EdgeMark(ids'[a], ids'[b])),
         \A c \in DOMAIN ids \cap Comparison : \A n \in 0 .. Len(outcomes[c].details) :
           DetailsDrawn(outcomes[c].details, ids, drawn, c, n) =>
             DetailsDrawn(outcomes[c].details, ids', s, c, n),
         NEW k \in 1 .. Len(outcomes[a].details), outcomes[a].details[k] = b,
         DetailsDrawn(outcomes[a].details, ids, drawn, a, k - 1)
  PROVE  /\ NumbersRight(ids', drawn') /\ KeepsOthers(a)
         /\ DetailsDrawn(outcomes[a].details, ids', drawn', a, k)
<1>1. a \in DOMAIN ids' /\ \A c \in DOMAIN ids \cap Comparison : Len(outcomes[c].details) \in Nat
  BY DrawnFacts, GraphFacts
<1>2. NumbersRight(ids', drawn')
  BY <1>1, MarkDrawn
<1>3. KeepsOthers(a)
  <2> SUFFICES ASSUME NEW c \in DOMAIN ids \cap Comparison, c # a,
                      NEW n \in 0 .. Len(outcomes[c].details),
                      DetailsDrawn(outcomes[c].details, ids, drawn, c, n)
               PROVE  DetailsDrawn(outcomes[c].details, ids', drawn', c, n)
    BY DEF KeepsOthers
  <2>1. DetailsDrawn(outcomes[c].details, ids', s, c, n)
    OBVIOUS
  <2>2. c \in DOMAIN ids' /\ Len(outcomes[c].details) \in Nat
    BY <1>1
  <2> QED BY <1>1, <2>1, <2>2, EdgeKeeps
<1>4. DetailsDrawn(outcomes[a].details, ids', drawn', a, k)
  <2> DEFINE n == k - 1
             details == outcomes[a].details
  <2>1. /\ n \in 0 .. Len(details) /\ n < Len(details) /\ n + 1 = k /\ details[n + 1] = b
        /\ Len(details) \in Nat
    BY <1>1
  <2>2. DetailsDrawn(details, ids', s, a, n)
    BY <2>1
  <2> HIDE DEF n, details
  <2>3. DetailsDrawn(details, ids', drawn', a, n + 1)
    BY <1>1, <2>1, <2>2, EdgeKeeps
  <2> QED BY <2>1, <2>3 DEF details
<1> QED BY <1>2, <1>3, <1>4

LEMMA EdgeStep ==
  ASSUME TypeOK, DrawnSoFar, VizEdge
  PROVE  DrawnSoFar'
<1> DEFINE a == Top.node
           b == Current
           s == IF b \in DOMAIN seen THEN drawn ELSE Append(drawn, NodeMark(ids'[b], b))
<1>1. /\ Viz /\ Printing /\ b \in DOMAIN seen \cup OneSided
      /\ seen' = WithSeen(b, FALSE) /\ ids' = VizId(b)
      /\ drawn' = drawn \o (IF b \in DOMAIN seen THEN << >> ELSE Drawn(b)) \o DrawnEdge(b)
      /\ outcomes' = outcomes /\ root' = root
  BY DEF VizEdge
<1>2. PrintedStep(<< >>, FALSE)
  BY PrintedActions
<1>3. /\ NumbersRight(ids, drawn) /\ NoEdge \notin DOMAIN ids /\ a \in DOMAIN ids \cap Comparison
      /\ Top.next \in 1 .. Len(outcomes[a].details) /\ outcomes[a].details[Top.next] = b
      /\ DetailsDrawn(outcomes[a].details, ids, drawn, a, Top.next - 1)
      /\ DOMAIN ids \subseteq DOMAIN outcomes /\ DOMAIN ids = DOMAIN seen
  BY <1>1, DrawnFacts, TopFacts DEF DrawnSoFar
<1>4. b # NoEdge /\ b \in Met
  <2>1. b # NoEdge
    BY <1>1, <1>3, ComparisonAssumption
  <2> QED BY <1>1, <2>1, DrawnFacts
<1>5. Numbers
  BY <1>1 DEF DrawnSoFar, Numbers
<1> HIDE DEF a, b
<1>6. /\ NumbersRight(ids', s) /\ s \in Seq(Mark) /\ b \in DOMAIN ids'
      /\ NumbersRight(ids', drawn') => Numbers'
      /\ DOMAIN ids \subseteq DOMAIN ids' /\ DOMAIN ids' \subseteq DOMAIN ids \cup OneSided
      /\ \A c \in DOMAIN ids \cap Comparison : \A n \in 0 .. Len(outcomes[c].details) :
           DetailsDrawn(outcomes[c].details, ids, drawn, c, n) =>
             DetailsDrawn(outcomes[c].details, ids', s, c, n)
  <2>1. CASE b \in DOMAIN seen
    <3>1. s = drawn /\ ids' = ids /\ DOMAIN seen' = DOMAIN seen
      BY <1>1, <1>3, <2>1 DEF VizId, WithSeen
    <3>2. s \in Seq(Mark)
      BY <1>3, <3>1 DEF NumbersRight
    <3>3. NumbersRight(ids', drawn') => Numbers'
      BY <1>1, <1>5, <3>1, SameNumbers
    <3> HIDE DEF s
    <3> QED BY <1>3, <2>1, <3>1, <3>2, <3>3
  <2>2. CASE b \notin DOMAIN seen
    <3>1. s = Append(drawn, NodeMark(ids'[b], b)) /\ b \in OneSided
      BY <1>1, <2>2
    <3> DEFINE t == Append(drawn, NodeMark(ids'[b], b))
    <3>2. /\ NumbersRight(ids', t) /\ t \in Seq(Mark) /\ DOMAIN ids' = DOMAIN ids \cup {b}
          /\ NumbersRight(ids', drawn') => Numbers'
          /\ \A c \in DOMAIN ids \cap Comparison : \A n \in 0 .. Len(outcomes[c].details) :
               DetailsDrawn(outcomes[c].details, ids, drawn, c, n) =>
                 DetailsDrawn(outcomes[c].details, ids', t, c, n)
      BY <1>1, <1>4, <2>2, NumberedNow, Zenon
    <3>3. s = t
      BY <3>1
    <3> HIDE DEF s, t
    <3> QED BY <3>1, <3>2, <3>3
  <2> QED BY <2>1, <2>2
<1>7. drawn' = Append(s, EdgeMark(ids'[a], ids'[b]))
  <2> DEFINE m == EdgeMark(ids'[a], ids'[b])
  <2>1. drawn \in Seq(Mark) /\ drawn' = drawn \o (IF b \in DOMAIN seen THEN << >> ELSE Drawn(b)) \o <<m>>
    BY <1>1, <1>3 DEF DrawnEdge, NumbersRight, a
  <2>2. drawn \o (IF b \in DOMAIN seen THEN << >> ELSE Drawn(b)) = s
    BY <2>1 DEF Drawn
  <2> HIDE DEF s, m
  <2>3. m \in Mark
    BY <1>3, <1>6, MarkDrawn DEF m
  <2>4. drawn' = s \o <<m>>
    BY <2>1, <2>2, Zenon
  <2> QED BY <1>6, <2>3, <2>4 DEF m
<1> HIDE DEF s
<1>8. /\ NumbersRight(ids', drawn') /\ KeepsOthers(a)
      /\ DetailsDrawn(outcomes[a].details, ids', drawn', a, Top.next)
  BY <1>1, <1>3, <1>4, <1>6, <1>7, EdgeDrawn
<1> QED BY <1>1, <1>2, <1>6, <1>8, DrawnPrinted DEF a

LEMMA ReturnedStep ==
  ASSUME TypeOK, CallsMatch, DrawnSoFar, VizReturn
  PROVE  DrawnSoFar'
<1> DEFINE a == Caller.node
           b == Top.node
           k == Caller.next
           m == Len(stack) - 1
<1>1. /\ Viz /\ ids' = ids /\ seen' = seen /\ Len(stack) > 1
      /\ drawn' = Append(drawn, EdgeMark(ids[a], ids[b]))
      /\ outcomes' = outcomes /\ root' = root
  BY DEF VizReturn, Caller
<1>2. ReturnStep(FALSE, << >>)
  BY ReturnActions
<1>3. /\ m \in 1 .. Len(stack) - 1 /\ m \in 1 .. Len(stack) /\ m + 1 = Len(stack)
      /\ Caller = stack[m] /\ Top = stack[m + 1]
  BY <1>1, StackFacts, TopFacts DEF Caller
<1> HIDE DEF m
<1>4. Within(m) /\ b = outcomes[a].details[k]
  <2>1. ~Flat
    BY <1>1 DEF Viz, Flat
  <2> QED BY <1>3, <2>1 DEF CallsMatch
<1>5. /\ a \in DOMAIN ids \cap Comparison /\ k \in 1 .. Len(outcomes[a].details)
      /\ DetailsDrawn(outcomes[a].details, ids, drawn, a, k - 1)
  <2>1. /\ a \in Comparison /\ a \in DOMAIN outcomes /\ k \in Nat /\ k >= 1
        /\ k <= Len(outcomes[a].details)
    BY <1>3, <1>4, StackFacts DEF Within
  <2>2. Len(outcomes[a].details) \in Nat
    BY <2>1, GraphFacts
  <2> QED BY <1>1, <1>3, <2>1, <2>2 DEF DrawnSoFar
<1>6. b \in DOMAIN ids /\ b # NoEdge /\ NumbersRight(ids, drawn)
  BY <1>1, DrawnFacts
<1> HIDE DEF a, b, k
<1>7. /\ NumbersRight(ids', drawn') /\ KeepsOthers(a)
      /\ DetailsDrawn(outcomes[a].details, ids', drawn', a, k)
  <2>1. \A c \in DOMAIN ids \cap Comparison : \A n \in 0 .. Len(outcomes[c].details) :
          DetailsDrawn(outcomes[c].details, ids, drawn, c, n) =>
            DetailsDrawn(outcomes[c].details, ids', drawn, c, n)
    BY <1>1
  <2>2. drawn' = Append(drawn, EdgeMark(ids'[a], ids'[b])) /\ NumbersRight(ids', drawn)
        /\ b \in DOMAIN ids' /\ DOMAIN ids \subseteq DOMAIN ids'
    BY <1>1, <1>6
  <2> QED BY <1>1, <1>4, <1>5, <1>6, <2>1, <2>2, EdgeDrawn
<1>8. Numbers
  BY <1>1 DEF DrawnSoFar, Numbers
<1>9. Numbers'
  <2>1. NumbersRight(ids, drawn')
    BY <1>1, <1>7
  <2> QED BY <1>1, <1>8, <2>1, SameNumbers
<1> QED BY <1>1, <1>2, <1>7, <1>9, DrawnReturned DEF a, k

LEMMA DrawnSteps ==
  ASSUME TypeOK, CallsMatch, DrawnSoFar, [Next]_vars
  PROVE  DrawnSoFar'
<1>1. CASE UNCHANGED vars
  <2>1. /\ outcomes' = outcomes /\ root' = root /\ format' = format /\ seen' = seen /\ stack' = stack
        /\ ids' = ids /\ drawn' = drawn
    BY <1>1 DEF vars
  <2>2. Met' = Met
    BY <2>1, SameMet
  <2> QED BY <2>1, <2>2 DEF DrawnSoFar, NumbersRight, DetailsDrawn, Viz
<1>2. CASE ~Viz
  <2>1. format' = format
    BY <1>1 DEF Next, vars, NodeDiff, RemovedOrAdded, OpenInner, PlainOpenHolder, PlainSeenHolder,
                FlatStop, FlatSection, Return, VizAttribute, VizEdge, VizEnter, VizReturn, Finished
  <2> QED BY <1>2, <2>1 DEF DrawnSoFar, Viz
<1>3. CASE Viz /\ Next
  <2>1. ~(NodeDiff \/ RemovedOrAdded \/ OpenInner \/ PlainOpenHolder \/ PlainSeenHolder \/ FlatStop
          \/ FlatSection \/ Return)
    BY <1>3 DEF Viz, NodeDiff, RemovedOrAdded, OpenInner, PlainOpenHolder, PlainSeenHolder,
                FlatStop, FlatSection, Return, Textual, Flat
  <2>2. VizAttribute \/ VizEdge \/ VizEnter \/ VizReturn \/ UNCHANGED vars
    BY <1>3, <2>1 DEF Next, Finished
  <2> QED BY <1>1, <2>2, AttributeStep, EdgeStep, EnterStep, ReturnedStep
<1> QED BY <1>1, <1>2, <1>3

--------------------------------------------------------------------------------
\* What is written next is no attribute, or one of a comparison drawn.
LEMMA AttributesKeep ==
  ASSUME NEW i, NEW s \in Seq(Mark), AttributesRight(i, s),
         NEW j, DOMAIN i \subseteq DOMAIN j, \A d \in DOMAIN i : j[d] = i[d], NEW m \in Mark,
         m[1] = "attribute" =>
           \E c \in DOMAIN j \cap Comparison : \E k \in 0 .. Len(outcomes[c].details) :
             m = AttributeMark(j[c], k)
  PROVE  AttributesRight(j, Append(s, m))
<1> DEFINE t == Append(s, m)
<1>1. /\ Len(s) \in Nat /\ Len(t) = Len(s) + 1 /\ t[Len(s) + 1] = m
      /\ \A h \in 1 .. Len(s) : t[h] = s[h]
  BY LenProperties, AppendProperties
<1> HIDE DEF t
<1>2. ASSUME NEW h \in 1 .. Len(t), t[h][1] = "attribute"
      PROVE  \E c \in DOMAIN j \cap Comparison : \E k \in 0 .. Len(outcomes[c].details) :
               t[h] = AttributeMark(j[c], k)
  <2>1. CASE h = Len(s) + 1
    BY <1>1, <1>2, <2>1
  <2>2. CASE h # Len(s) + 1
    <3>1. h \in 1 .. Len(s) /\ t[h] = s[h]
      BY <1>1, <2>2
    <3>2. PICK c \in DOMAIN i \cap Comparison : \E k \in 0 .. Len(outcomes[c].details) :
                 s[h] = AttributeMark(i[c], k)
      BY <1>2, <3>1 DEF AttributesRight
    <3> QED BY <3>1, <3>2
  <2> QED BY <2>1, <2>2
<1> QED BY <1>2 DEF AttributesRight, t

LEMMA AttributesSteps ==
  ASSUME TypeOK, DrawnSoFar, AttributesSoFar, [Next]_vars
  PROVE  AttributesSoFar'
<1>1. CASE UNCHANGED vars
  BY <1>1 DEF vars, AttributesSoFar, AttributesRight, Viz
<1>2. CASE ~Viz
  <2>1. format' = format
    BY <1>1 DEF Next, vars, NodeDiff, RemovedOrAdded, OpenInner, PlainOpenHolder, PlainSeenHolder,
                FlatStop, FlatSection, Return, VizAttribute, VizEdge, VizEnter, VizReturn, Finished
  <2> QED BY <1>2, <2>1 DEF AttributesSoFar, Viz
<1>3. ASSUME outcomes' = outcomes, AttributesRight(ids', drawn') PROVE AttributesSoFar'
  BY <1>3 DEF AttributesSoFar, AttributesRight
<1>4. CASE Viz /\ VizAttribute
  <2> DEFINE a == Top.node
             k == AttributeIndex(Top)
             m == AttributeMark(ids[a], k)
  <2>1. ids' = ids /\ outcomes' = outcomes /\ drawn' = Append(drawn, m)
    BY <1>4 DEF VizAttribute
  <2>2. /\ NumbersRight(ids, drawn) /\ a \in DOMAIN ids \cap Comparison
        /\ Top.next - 1 \in 0 .. Len(outcomes[a].details) /\ Len(outcomes[a].details) \in Nat
    BY <1>4, DrawnFacts
  <2>3. k \in 0 .. Len(outcomes[a].details)
    <3>1. k = Among(outcomes[a].details, Top.next - 1, NoEdge)
      BY DEF AttributeIndex, Among
    <3>2. Top.next - 1 \in Nat
      BY <2>2
    <3>3. k \in Nat /\ k <= Top.next - 1
      BY <3>1, <3>2, AmongType
    <3> HIDE DEF a, k
    <3> QED BY <2>2, <3>3
  <2> HIDE DEF a, k
  <2>4. m \in Mark
    BY <2>2, <2>3, MarkDrawn
  <2>5. drawn \in Seq(Mark) /\ AttributesRight(ids, drawn)
    BY <1>4, <2>2 DEF NumbersRight, AttributesSoFar
  <2>6. \E c \in DOMAIN ids \cap Comparison : \E l \in 0 .. Len(outcomes[c].details) :
          m = AttributeMark(ids[c], l)
    BY <2>2, <2>3
  <2> HIDE DEF m
  <2>7. AttributesRight(ids, Append(drawn, m))
    BY <2>4, <2>5, <2>6, AttributesKeep
  <2> QED BY <1>3, <2>1, <2>7
<1>5. ASSUME Viz, NEW e \in Met, seen' = WithSeen(e, FALSE), ids' = VizId(e),
             outcomes' = outcomes, root' = root
      PROVE  LET s == IF e \in DOMAIN seen THEN drawn ELSE Append(drawn, NodeMark(ids'[e], e))
             IN  /\ AttributesRight(ids', s) /\ NumbersRight(ids', s) /\ e \in DOMAIN ids'
                 /\ DOMAIN ids \subseteq DOMAIN ids'
  <2>1. /\ DOMAIN ids = DOMAIN seen /\ drawn \in Seq(Mark) /\ NumbersRight(ids, drawn)
        /\ AttributesRight(ids, drawn)
    BY <1>5 DEF DrawnSoFar, NumbersRight, AttributesSoFar
  <2>2. CASE e \in DOMAIN seen
    <3>1. ids' = ids
      BY <1>5, <2>1, <2>2 DEF VizId
    <3> QED BY <2>1, <2>2, <3>1
  <2>3. CASE e \notin DOMAIN seen
    <3> DEFINE m == NodeMark(ids'[e], e)
    <3>1. /\ DOMAIN ids' = DOMAIN ids \cup {e} /\ \A d \in DOMAIN ids : ids'[d] = ids[d]
          /\ NumbersRight(ids', Append(drawn, m))
      BY <1>5, <2>3, NumberedNow, Zenon
    <3>2. m \in Mark /\ m[1] # "attribute"
      <4>1. ids'[e] \in Nat
        BY <3>1, WrittenFacts
      <4>2. e \in Comparison \cup OneSided
        BY DEF Met, TypeOK, WellFormed
      <4> QED BY <4>1, <4>2, MarkFacts
    <3> HIDE DEF m
    <3>3. AttributesRight(ids', Append(drawn, m))
      BY <2>1, <3>1, <3>2, AttributesKeep
    <3> QED BY <2>3, <3>1, <3>3 DEF m
  <2> QED BY <2>2, <2>3
<1>6. ASSUME Viz, NEW j, NEW s, AttributesRight(j, s), NumbersRight(j, s),
             NEW a \in DOMAIN j, NEW b \in DOMAIN j
      PROVE  AttributesRight(j, Append(s, EdgeMark(j[a], j[b])))
  <2> DEFINE m == EdgeMark(j[a], j[b])
  <2>1. m \in Mark /\ m[1] # "attribute" /\ s \in Seq(Mark)
    BY <1>6, MarkDrawn, MarkFacts DEF NumbersRight
  <2> HIDE DEF m
  <2> QED BY <1>6, <2>1, AttributesKeep DEF m
<1>7. CASE Viz /\ VizEdge
  <2> DEFINE a == Top.node
             b == Current
             s == IF b \in DOMAIN seen THEN drawn ELSE Append(drawn, NodeMark(ids'[b], b))
             m == EdgeMark(ids'[a], ids'[b])
  <2>1. /\ Printing /\ b \in DOMAIN seen \cup OneSided
        /\ seen' = WithSeen(b, FALSE) /\ ids' = VizId(b)
        /\ drawn' = drawn \o (IF b \in DOMAIN seen THEN << >> ELSE Drawn(b)) \o <<m>>
        /\ outcomes' = outcomes /\ root' = root
    BY <1>7 DEF VizEdge, DrawnEdge
  <2>2. b \in Met /\ a \in DOMAIN ids /\ drawn \in Seq(Mark)
    <3>1. b # NoEdge
      BY <1>7, <2>1, DrawnFacts, ComparisonAssumption DEF DrawnSoFar
    <3> QED BY <1>7, <2>1, <3>1, DrawnFacts DEF NumbersRight
  <2>3. drawn \o (IF b \in DOMAIN seen THEN << >> ELSE Drawn(b)) = s
    BY <2>2 DEF Drawn
  <2> HIDE DEF a, b
  <2>4. AttributesRight(ids', s) /\ NumbersRight(ids', s) /\ b \in DOMAIN ids' /\ a \in DOMAIN ids'
    BY <1>5, <1>7, <2>1, <2>2, Zenon
  <2> HIDE DEF s
  <2>5. AttributesRight(ids', Append(s, m)) /\ m \in Mark /\ s \in Seq(Mark)
    BY <1>6, <1>7, <2>4, MarkDrawn DEF NumbersRight
  <2> HIDE DEF m
  <2>6. drawn' = s \o <<m>>
    BY <2>1, <2>3, Zenon
  <2>7. drawn' = Append(s, m)
    BY <2>5, <2>6
  <2> QED BY <1>3, <2>1, <2>5, <2>7
<1>8. CASE Viz /\ VizEnter
  <2> DEFINE c == Current
             m == NodeMark(ids'[c], c)
  <2>1. /\ Printing /\ c \in Comparison /\ c \notin DOMAIN seen
        /\ seen' = WithSeen(c, FALSE) /\ ids' = VizId(c) /\ drawn' = drawn \o <<m>>
        /\ outcomes' = outcomes /\ root' = root
    BY <1>8 DEF VizEnter, Drawn
  <2>2. c \in Met /\ drawn \in Seq(Mark)
    BY <1>8, <2>1, DrawnFacts, ComparisonAssumption DEF NumbersRight
  <2> HIDE DEF c
  <2>3. AttributesRight(ids', Append(drawn, m))
    BY <1>5, <1>8, <2>1, <2>2
  <2>4. drawn' = Append(drawn, m)
    BY <2>1, <2>2
  <2> QED BY <1>3, <2>1, <2>3, <2>4
<1>9. CASE Viz /\ VizReturn
  <2> DEFINE n == Len(stack) - 1
             a == stack[n].node
             b == Top.node
  <2>1. /\ ids' = ids /\ outcomes' = outcomes /\ Len(stack) > 1
        /\ drawn' = Append(drawn, EdgeMark(ids[a], ids[b]))
    BY <1>9 DEF VizReturn
  <2>2. n \in 1 .. Len(stack)
    BY <2>1, StackFacts
  <2> HIDE DEF n
  <2>3. a \in DOMAIN ids /\ b \in DOMAIN ids /\ NumbersRight(ids, drawn) /\ AttributesRight(ids, drawn)
    BY <1>9, <2>2, DrawnFacts DEF DrawnSoFar, AttributesSoFar
  <2> HIDE DEF a, b
  <2>4. AttributesRight(ids, drawn')
    BY <1>6, <1>9, <2>1, <2>3
  <2> QED BY <1>3, <2>1, <2>4
<1>10. CASE Viz /\ Next
  <2>1. ~(NodeDiff \/ RemovedOrAdded \/ OpenInner \/ PlainOpenHolder \/ PlainSeenHolder \/ FlatStop
          \/ FlatSection \/ Return)
    BY <1>10 DEF Viz, NodeDiff, RemovedOrAdded, OpenInner, PlainOpenHolder, PlainSeenHolder,
                FlatStop, FlatSection, Return, Textual, Flat
  <2>2. VizAttribute \/ VizEdge \/ VizEnter \/ VizReturn \/ UNCHANGED vars
    BY <1>10, <2>1 DEF Next, Finished
  <2> QED BY <1>1, <1>4, <1>7, <1>8, <1>9, <1>10, <2>2
<1> QED BY <1>1, <1>2, <1>10

--------------------------------------------------------------------------------
(***************************************************************************)
(* A Graphviz report that is done is the difference graph.                 *)
(***************************************************************************)
\* What counts at least once is there.
LEMMA CountPositive ==
  ASSUME NEW s \in Seq(Mark), NEW i \in 1 .. Len(s)
  PROVE  Count(s, s[i]) > 0
<1> DEFINE S == {k \in 1 .. Len(s) : s[k] = s[i]}
<1>1. IsFiniteSet(S)
  <2>1. IsFiniteSet(1 .. Len(s))
    BY LenProperties, FS_Interval
  <2> QED BY <2>1, FS_Subset
<1>2. S # {}
  OBVIOUS
<1>3. Count(s, s[i]) = Cardinality(S)
  BY DEF Count, Among
<1> HIDE DEF S
<1> QED BY <1>1, <1>2, <1>3, FS_EmptySet, FS_CardinalityType

LEMMA GraphvizExactNow ==
  ASSUME TypeOK, CallsMatch, DrawnSoFar, AttributesSoFar
  PROVE  GraphvizExact
<1> DEFINE nodes == Met \cup {root}
           two_sided == nodes \cap Comparison
           attributes(c) == {AttributeMark(ids[c], i - 1) : i \in 1 .. Count(outcomes[c].details, NoEdge)}
<1> SUFFICES ASSUME Viz, Done
             PROVE  /\ DOMAIN ids = nodes
                    /\ \A c, d \in nodes : ids[c] = ids[d] => c = d
                    /\ \A c \in nodes : Count(drawn, NodeMark(ids[c], c)) = 1
                    /\ \A c \in two_sided : \A d \in nodes :
                         Count(drawn, EdgeMark(ids[c], ids[d])) = Count(outcomes[c].details, d)
                    /\ \A c \in two_sided : \A a \in attributes(c) : Count(drawn, a) = 1
                    /\ {i \in DOMAIN drawn : drawn[i][1] = "attribute"} =
                         {i \in DOMAIN drawn : drawn[i] \in UNION {attributes(c) : c \in two_sided}}
  BY DEF GraphvizExact
<1>1. /\ Len(stack) = 1 /\ stack[1].node = root
      /\ stack[1].next - 1 = Len(outcomes[root].details)
  BY DoneFacts
<1>2. /\ DOMAIN ids \subseteq DOMAIN outcomes /\ NumbersRight(ids, drawn) /\ NoEdge \notin DOMAIN ids
      /\ root \in DOMAIN ids /\ DOMAIN ids \subseteq nodes /\ root \in Comparison
      /\ drawn \in Seq(Mark) /\ Len(drawn) \in Nat /\ DOMAIN drawn = 1 .. Len(drawn)
  <2>1. drawn \in Seq(Mark)
    BY DEF DrawnSoFar, NumbersRight
  <2> QED BY <2>1, DrawnFacts, GraphFacts, LenProperties DEF DrawnSoFar
<1>3. ASSUME NEW c \in DOMAIN ids \cap Comparison
      PROVE  /\ DetailsDrawn(outcomes[c].details, ids, drawn, c, Len(outcomes[c].details))
             /\ Len(outcomes[c].details) \in Nat /\ c \in DOMAIN outcomes
  <2>1. Len(outcomes[c].details) \in Nat /\ c \in DOMAIN outcomes
    BY <1>2, GraphFacts
  <2>2. CASE c = root
    BY <1>1, <2>1, <2>2 DEF DrawnSoFar
  <2>3. CASE c # root
    BY <1>1, <2>1, <2>3 DEF DrawnSoFar
  <2> QED BY <2>1, <2>2, <2>3
<1>4. DOMAIN ids = nodes
  <2> DEFINE T == DOMAIN ids \cap Comparison
  <2>1. ASSUME NEW c \in T, NEW i \in 1 .. Len(outcomes[c].details), outcomes[c].details[i] # NoEdge
        PROVE  outcomes[c].details[i] \in DOMAIN ids
    BY <1>3, <2>1 DEF DetailsDrawn
  <2>2. T \in SUBSET Comparison /\ root \in T
    BY <1>2
  <2>3. NoEdge \notin Comparison
    BY ComparisonAssumption
  <2>4. \A c \in T \cap DOMAIN outcomes : \A i \in 1 .. Len(outcomes[c].details) :
          outcomes[c].details[i] \in Comparison => outcomes[c].details[i] \in T
    BY <2>1, <2>3
  <2>5. ASSUME NEW x \in Met PROVE x \in DOMAIN ids
    <3> HIDE DEF T
    <3>1. PICK c \in T \cap DOMAIN outcomes : \E i \in 1 .. Len(outcomes[c].details) :
                 x = outcomes[c].details[i]
      BY <2>2, <2>4, MetInside
    <3>2. x # NoEdge
      BY DEF Met, EdgesOf
    <3> QED BY <2>1, <3>1, <3>2
  <2> QED BY <1>2, <2>5
<1>5. \A c, d \in nodes : ids[c] = ids[d] => c = d
  BY <1>2, <1>4 DEF NumbersRight
<1>6. \A c \in nodes : Count(drawn, NodeMark(ids[c], c)) = 1
  BY <1>2, <1>4 DEF NumbersRight
<1>7. ASSUME NEW c \in two_sided, NEW d \in nodes
      PROVE  Count(drawn, EdgeMark(ids[c], ids[d])) = Count(outcomes[c].details, d)
  BY <1>3, <1>4 DEF DetailsDrawn, Count
<1>8. ASSUME NEW c \in two_sided
      PROVE  /\ Count(outcomes[c].details, NoEdge) \in Nat
             /\ Count(outcomes[c].details, NoEdge) <= Len(outcomes[c].details)
             /\ Len(outcomes[c].details) \in Nat
             /\ \A k \in 0 .. Len(outcomes[c].details) :
                  Count(drawn, AttributeMark(ids[c], k)) =
                    IF k < Count(outcomes[c].details, NoEdge) THEN 1 ELSE 0
  BY <1>3, <1>4, AmongType DEF DetailsDrawn, Count
<1>9. ASSUME NEW c \in two_sided, NEW a \in attributes(c) PROVE Count(drawn, a) = 1
  <2>1. PICK i \in 1 .. Count(outcomes[c].details, NoEdge) : a = AttributeMark(ids[c], i - 1)
    OBVIOUS
  <2>2. i - 1 \in 0 .. Len(outcomes[c].details) /\ i - 1 < Count(outcomes[c].details, NoEdge)
    BY <1>8
  <2> QED BY <1>8, <2>1, <2>2
<1>10. ASSUME NEW i \in DOMAIN drawn, drawn[i][1] = "attribute"
       PROVE  \E c \in two_sided : drawn[i] \in attributes(c)
  <2>1. PICK c \in DOMAIN ids \cap Comparison : \E k \in 0 .. Len(outcomes[c].details) :
               drawn[i] = AttributeMark(ids[c], k)
    BY <1>2, <1>10 DEF AttributesSoFar, AttributesRight
  <2>2. PICK k \in 0 .. Len(outcomes[c].details) : drawn[i] = AttributeMark(ids[c], k)
    BY <2>1
  <2>3. c \in two_sided
    BY <1>4
  <2>4. Count(drawn, AttributeMark(ids[c], k)) > 0
    BY <1>2, <2>2, CountPositive
  <2> DEFINE n == Count(outcomes[c].details, NoEdge)
  <2>5. k \in Nat /\ n \in Nat /\ k < n
    BY <1>8, <2>3, <2>4
  <2> HIDE DEF n
  <2>6. k + 1 \in 1 .. n /\ k = (k + 1) - 1
    BY <2>5
  <2> QED BY <2>2, <2>3, <2>6 DEF n
<1>11. ASSUME NEW i \in DOMAIN drawn, NEW c \in two_sided, drawn[i] \in attributes(c)
       PROVE  drawn[i][1] = "attribute"
  BY <1>11, MarkFacts
<1> HIDE DEF attributes, two_sided, nodes
<1>12. {i \in DOMAIN drawn : drawn[i][1] = "attribute"} =
         {i \in DOMAIN drawn : drawn[i] \in UNION {attributes(c) : c \in two_sided}}
  BY <1>10, <1>11
<1> QED BY <1>4, <1>5, <1>6, <1>7, <1>9, <1>12

--------------------------------------------------------------------------------
(***************************************************************************)
(* The specification.                                                      *)
(***************************************************************************)
LEMMA FirstCall ==
  ASSUME NEW c \in Comparison
  PROVE  /\ Call(c, 1, FALSE, << >>) \in Frame
         /\ Call(c, 1, FALSE, << >>).node = c /\ Call(c, 1, FALSE, << >>).next = 1
         /\ Call(c, 1, FALSE, << >>).lines = << >>
BY DEF Call, Frame

LEMMA InitFacts ==
  ASSUME Init
  PROVE  /\ TypeOK /\ CallsMatch /\ CallsDescribed
         /\ stack = <<Call(root, 1, FALSE, << >>)>> /\ todo = << >>
         /\ format # "viz" => DOMAIN seen = {}
<1>1. PICK report \in Reports : outcomes = report.outcomes /\ root = report.root
  BY DEF Init
<1>2. WellFormed(outcomes, root)
  BY <1>1, ReportsAssumption
<1>3. root \in Comparison /\ root \in DOMAIN outcomes /\ Len(outcomes[root].details) \in Nat
  <2>1. root \in DOMAIN outcomes \cap Comparison
    BY <1>2 DEF WellFormed
  <2>2. outcomes[root] \in Diff
    BY <1>2, <2>1 DEF WellFormed
  <2> QED BY <2>1, <2>2 DEF Diff
<1>4. /\ format \in {"plain", "flat", "small", "viz"} /\ todo = << >>
      /\ seen = [c \in IF format = "viz" THEN {root} ELSE {} |-> FALSE]
      /\ stack = <<Call(root, 1, FALSE, << >>)>>
  BY ReportsAssumption, Zenon DEF Init
<1>5. DOMAIN seen = (IF format = "viz" THEN {root} ELSE {}) /\ \A c \in DOMAIN seen : seen[c] = FALSE
  BY <1>4
<1>6. seen \in [DOMAIN seen -> BOOLEAN] /\ DOMAIN seen \subseteq DOMAIN outcomes
  BY <1>3, <1>4, <1>5
<1>7. /\ Call(root, 1, FALSE, << >>) \in Frame
      /\ Call(root, 1, FALSE, << >>).node = root /\ Call(root, 1, FALSE, << >>).next = 1
  BY <1>3, FirstCall
<1> DEFINE first == Call(root, 1, FALSE, << >>)
<1> HIDE DEF first
<1>8. Len(stack) = 1 /\ stack[1] = first /\ stack \in Seq(Frame) /\ stack # << >>
  <2>1. first \in Frame /\ stack = <<first>>
    BY <1>4, <1>7 DEF first
  <2> QED BY <2>1
<1>9. first.node = root /\ first.next = 1
  BY <1>7 DEF first
<1>10. CallsOK
  BY <1>3, <1>8, <1>9 DEF CallsOK
<1>11. TypeOK
  BY <1>2, <1>4, <1>6, <1>10 DEF TypeOK
<1>12. CallsMatch /\ CallsDescribed
  BY <1>8, <1>9 DEF CallsMatch, CallsDescribed
<1> QED BY <1>4, <1>5, <1>11, <1>12

LEMMA InitSoFar ==
  ASSUME Init
  PROVE  PlainSoFar /\ FlatSoFar
<1>1. /\ TypeOK /\ todo = << >> /\ (format # "viz" => DOMAIN seen = {})
      /\ Len(stack) = 1 /\ stack[1].next = 1 /\ Len(stack[1].lines) = 0
  <2> DEFINE first == Call(root, 1, FALSE, << >>)
  <2>1. root \in Comparison /\ stack = <<first>>
    BY InitFacts, GraphFacts
  <2>2. first.next = 1 /\ first.lines = << >>
    BY <2>1, FirstCall
  <2> HIDE DEF first
  <2> QED BY <2>1, <2>2, InitFacts
<1>2. /\ \A line : line \notin AllLines
      /\ Active = {}
  <2>1. \A x : x \notin LinesIn(stack)
    BY <1>1, LinesElements
  <2> QED BY <1>1, <2>1, LinesNow DEF Active
<1>3. PlainSoFar
  <2> SUFFICES ASSUME format = "plain" PROVE PlainSoFar
    BY DEF PlainSoFar
  <2>1. DOMAIN seen = {}
    BY <1>1
  <2>2. SeenSoFar
    BY <2>1 DEF SeenSoFar
  <2>3. DescribedOnce
    BY <1>1 DEF DescribedOnce
  <2>4. AllEnded
    BY <1>2, Zenon DEF AllEnded
  <2>5. CallsDealt
    BY <1>1 DEF CallsDealt
  <2>6. DescribedDealt
    BY <1>2 DEF DescribedDealt
  <2> QED BY <1>1, <2>2, <2>3, <2>4, <2>5, <2>6 DEF PlainSoFar
<1>4. FlatSoFar
  <2> SUFFICES ASSUME Flat PROVE FlatSoFar
    BY FlatParts
  <2>1. DOMAIN seen = {}
    BY <1>1 DEF Flat
  <2>2. Called = {} /\ Queued = {}
    BY <1>1, <1>2 DEF Called, Queued
  <2>3. Sections = {}
    BY <2>1 DEF Sections
  <2>4. SectionsSoFar
    BY <1>1, <2>1, <2>2 DEF SectionsSoFar, SectionCalls, QueuedOnce
  <2>5. \A f \in 1 .. Len(stack) : \A x : x \notin Passed(f)
    BY <1>1, PassedElements
  <2>6. DescriptionsSoFar
    BY <1>1 DEF DescriptionsSoFar
  <2>7. SectionsOnce /\ SectionsDescribed /\ SectionsCovered
    BY <1>1, <2>3 DEF SectionsOnce, SectionsDescribed, SectionsCovered
  <2>8. NoneStopped
    BY <1>2, Zenon DEF NoneStopped
  <2>9. InterestSoFar
    BY <1>1 DEF InterestSoFar
  <2>10. CallsCovered
    BY <2>5 DEF CallsCovered
  <2>11. FlatLines
    BY <2>6, <2>7, <2>8, <2>9, <2>10 DEF FlatLines
  <2> QED BY <2>4, <2>11, FlatParts
<1> QED BY <1>3, <1>4

LEMMA InitDrawn ==
  ASSUME Init
  PROVE  DrawnSoFar /\ AttributesSoFar
<1> SUFFICES ASSUME Viz PROVE DrawnSoFar /\ AttributesSoFar
  BY DEF DrawnSoFar, AttributesSoFar
<1> DEFINE i0 == [c \in {} |-> 0]
           i1 == Numbered(i0, root)
           m  == NodeMark(i1[root], root)
<1>1. /\ TypeOK /\ root \in Comparison /\ root \in DOMAIN outcomes
      /\ Len(outcomes[root].details) \in Nat
      /\ Len(stack) = 1 /\ stack[1].node = root /\ stack[1].next = 1
  <2> DEFINE first == Call(root, 1, FALSE, << >>)
  <2>1. root \in Comparison /\ stack = <<first>>
    BY InitFacts, GraphFacts
  <2>2. first.node = root /\ first.next = 1
    BY <2>1, FirstCall
  <2> HIDE DEF first
  <2> QED BY <2>1, <2>2, InitFacts, GraphFacts
<1>2. /\ DOMAIN seen = {root} /\ ids = [c \in DOMAIN seen |-> 0]
      /\ drawn = <<NodeMark(0, root)>>
  <2>1. seen = [c \in {root} |-> FALSE]
    BY DEF Init, Viz
  <2> QED BY <2>1 DEF Init, Viz
<1>3. NumbersRight(i0, << >>)
  <2>1. DOMAIN i0 = {} /\ IsFiniteSet({}) /\ << >> \in Seq(Mark) /\ Len(<< >>) = 0
    BY FS_EmptySet
  <2> HIDE DEF i0
  <2> QED BY <2>1 DEF NumbersRight
<1>4. DOMAIN i0 = {} /\ Cardinality(DOMAIN i0) = 0
  BY FS_EmptySet
<1> HIDE DEF i0
<1>5. /\ DOMAIN i1 = {root} /\ i1[root] = 0
      /\ NumbersRight(i1, Append(<< >>, m))
      /\ DetailsDrawn(outcomes[root].details, i1, Append(<< >>, m), root, 0)
  <2>1. /\ DOMAIN i1 = DOMAIN i0 \cup {root} /\ i1[root] = Cardinality(DOMAIN i0)
        /\ NumbersRight(i1, Append(<< >>, m))
    BY <1>1, <1>3, <1>4, NodeDrawn
  <2>2. DetailsDrawn(outcomes[root].details, i1, Append(<< >>, m), root, 0)
    BY <1>1, <1>3, <1>4, NodeStarts
  <2> HIDE DEF i1, m
  <2> QED BY <1>4, <2>1, <2>2
<1>6. ids = i1
  BY <1>2, <1>4 DEF Numbered
<1> HIDE DEF i1
<1>7. drawn = Append(<< >>, m) /\ DOMAIN ids = {root} /\ ids[root] = 0 /\ drawn = <<m>>
  <2>1. drawn = <<m>>
    BY <1>2, <1>5
  <2> HIDE DEF m
  <2> QED BY <1>5, <1>6, <2>1
<1>8. NumbersRight(ids, drawn) /\ DetailsDrawn(outcomes[root].details, ids, drawn, root, 0)
  BY <1>5, <1>6, <1>7
<1>9. DrawnSoFar
  BY <1>1, <1>2, <1>7, <1>8 DEF DrawnSoFar
<1>10. m[1] # "attribute"
  BY MarkFacts
<1> HIDE DEF m
<1>11. Len(drawn) = 1 /\ drawn[1] = m
  BY <1>7
<1>12. AttributesSoFar
  BY <1>10, <1>11 DEF AttributesSoFar, AttributesRight
<1> QED BY <1>9, <1>12

LEMMA StepIInv ==
  ASSUME IInv, [Next]_vars
  PROVE  IInv'
BY TypeSteps, DescribedSteps, PlainSteps, FlatSteps, DrawnSteps, AttributesSteps DEF IInv

\* What a report has printed or drawn, passed and still to print fit together in every state.
THEOREM Invariance == Spec => []IInv
<1>1. Init => IInv
  BY InitFacts, InitSoFar, InitDrawn DEF IInv
<1>2. IInv /\ [Next]_vars => IInv'
  BY StepIInv
<1> QED BY <1>1, <1>2, PTL DEF Spec

\* A plain report describes everything below the root, what holds differences once,
\* and leaves no line unended.
THEOREM PlainReports == Spec => []PlainComplete
<1>1. IInv => PlainComplete
  BY PlainCompleteNow DEF IInv
<1> QED BY <1>1, Invariance, PTL

\* A reference to a comparison being reported is made inside of its description, one to
\* a comparison already reported after it.
THEOREM PlainReferences == Spec => ReferencesRight
<1> DEFINE Right == PlainSeenHolder =>
                      LET c      == Current
                          inside == {stack[f].node : f \in 2 .. Len(stack)}
                          how    == stack'[Len(stack)].lines[Len(Top.lines) + 1].how
                      IN  /\ c \in inside => how = "being reported"
                          /\ c \notin inside =>
                               /\ how = "already reported"
                               /\ \E l \in AllLines : l.node = c /\ l.how = "described"
<1>1. IInv /\ [Next]_vars => [Right]_vars
  BY ReferencesNow DEF IInv
<1> QED BY <1>1, Invariance, PTL DEF Spec, ReferencesRight

\* A flat report has one section for everything that holds differences, a small report
\* for what is interesting.
THEOREM FlatReports == Spec => []SectionsExact
<1>1. IInv => SectionsExact
  BY SectionsExactNow DEF IInv
<1> QED BY <1>1, Invariance, PTL

\* Every change met has its line, in all textual reports.
THEOREM ReportsHideNothing == Spec => []EveryChangeReported
<1>1. IInv => EveryChangeReported
  BY EveryChangeReportedNow DEF IInv
<1> QED BY <1>1, Invariance, PTL

\* A Graphviz report draws what is met, each comparison once and under a number of its
\* own, with an edge or an attribute for every detail.
THEOREM GraphvizReports == Spec => []GraphvizExact
<1>1. IInv => GraphvizExact
  BY GraphvizExactNow DEF IInv
<1> QED BY <1>1, Invariance, PTL
================================================================================
