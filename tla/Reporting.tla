-------------------------------- MODULE Reporting --------------------------------
(***************************************************************************)
(* The textual reports of reporting.cc: the difference graph opened out    *)
(* into a tree of lines.  The plain report expands every comparison where  *)
(* it meets it, but one that holds differences only once; the flat report  *)
(* stops at comparisons that hold differences and gives each a section of  *)
(* its own; the small report is the flat one without what is not           *)
(* interesting (and the short report is made from the small one).  The     *)
(* Graphviz output draws the graph as it is, each comparison once.         *)
(*                                                                         *)
(* A line says which comparison is described and how.  The C++ recursion   *)
(* is a stack of frames, each with the lines its call has printed; the     *)
(* first frame is ReportPlain's or ReportFlat's own and its lines are the  *)
(* output.                                                                 *)
(***************************************************************************)
EXTENDS Differences, FiniteSets

CONSTANTS Formats,  \* the output formats asked for
          Reports   \* the difference graphs reported: [outcomes, root]

EdgesOf(details) == {details[i] : i \in 1 .. Len(details)} \ {NoEdge}

\* The comparisons met from each comparison, or only those in S: a detail that leads
\* to no such comparison is an edge from the comparison to itself.
Opened(outcomes, S) ==
  [c \in Comparison |->
     IF c \notin DOMAIN outcomes THEN << >>
     ELSE [i \in 1 .. Len(outcomes[c].details) |->
             IF outcomes[c].details[i] \in S THEN outcomes[c].details[i] ELSE c]]

Inner(outcomes) == {c \in DOMAIN outcomes \cap Comparison : ~outcomes[c].holds_changes}

\* What Compare guarantees of its outcomes: every edge has an outcome; the root
\* is a comparison of symbol tables, which finds nothing on the spot and is met
\* nowhere else; every cycle has a comparison that holds differences; and those
\* are never empty.
WellFormed(outcomes, root) ==
  /\ DOMAIN outcomes \subseteq Comparison \cup OneSided
  /\ \A c \in DOMAIN outcomes \cap Comparison :
       /\ outcomes[c] \in Diff
       /\ EdgesOf(outcomes[c].details) \subseteq DOMAIN outcomes \ {root}
       /\ outcomes[c].holds_changes => outcomes[c].details # << >>
       /\ \A d \in EdgesOf(outcomes[c].details) \cap Inner(outcomes) :
            ~Paths!Reach(Opened(outcomes, Inner(outcomes)), d, c)
  /\ root \in DOMAIN outcomes \cap Comparison
  /\ \A i \in 1 .. Len(outcomes[root].details) : outcomes[root].details[i] # NoEdge

ASSUME ReportsAssumption ==
  /\ Formats \subseteq {"plain", "flat", "small", "viz"}
  /\ \A report \in Reports : WellFormed(report.outcomes, report.root)

VARIABLES outcomes, root, format,  \* what is reported, and how
          seen,   \* holding comparisons met; in a plain report: are they finished?
          todo,   \* flat: the sections to print
          stack,  \* active calls, innermost last
          ids,    \* Graphviz: the numbers of the comparisons met
          drawn   \* Graphviz: the nodes, edges and attributes written

vars == <<outcomes, root, format, seen, todo, stack, ids, drawn>>

\* An active call: what for, the detail it is at, and what it has come to so far.
Call(node, next, interesting, lines) ==
  [node |-> node, next |-> next, interesting |-> interesting, lines |-> lines]

\* What the Graphviz output is made of.
NodeMark(k, c)      == <<"node", k, c>>
EdgeMark(k, l)      == <<"edge", k, l>>
AttributeMark(k, l) == <<"attribute", k, l>>

\* The Graphviz output has a node for the root, the others leave it out.
Init == \E report \in Reports :
          /\ outcomes = report.outcomes
          /\ root = report.root
          /\ format \in Formats
          /\ seen = [c \in IF format = "viz" THEN {root} ELSE {} |-> FALSE]
          /\ todo = << >>
          /\ stack = <<Call(root, 1, FALSE, << >>)>>
          /\ ids = [c \in DOMAIN seen |-> 0]
          /\ drawn = IF format = "viz" THEN <<NodeMark(0, root)>> ELSE << >>

--------------------------------------------------------------------------------
Top == stack[Len(stack)]

Printing == Top.next <= Len(outcomes[Top.node].details)

Current == outcomes[Top.node].details[Top.next]

\* Mutant: only a comparison with a change of its own holds differences.
HolderIfChanged(c) == outcomes[c].holds_changes /\ outcomes[c].has_changes

Holder(c) == outcomes[c].holds_changes

\* The frames after the innermost call got a detail's lines.
Printed(lines, interesting) ==
  [stack EXCEPT ![Len(stack)] = Call(Top.node, Top.next + 1,
                                     Top.interesting \/ interesting, Top.lines \o lines)]

Textual == format # "viz"

\* A small report keeps the lines of interesting calls only.
Kept(lines, interesting) == IF format # "small" \/ interesting THEN lines ELSE << >>

LineFor(c, how) == [node |-> c, how |-> how]

OneLine(c, how) == <<LineFor(c, how)>>

\* A call that describes a comparison and goes on to its details.
Enters(c) == Call(c, 1, outcomes[c].has_changes, OneLine(c, "described"))

NodeDiff ==
  /\ Textual /\ Printing /\ Current = NoEdge
  /\ stack' = Printed(OneLine(Top.node, "node diff"), FALSE)
  /\ UNCHANGED <<outcomes, root, format, seen, todo, ids, drawn>>

\* PrintComparison of a comparison with nothing; always interesting.
RemovedOrAdded ==
  /\ Textual /\ Printing /\ Current \in OneSided
  /\ stack' = Printed(OneLine(Current, "removed or added"), TRUE)
  /\ UNCHANGED <<outcomes, root, format, seen, todo, ids, drawn>>

\* A comparison that cannot hold differences is opened wherever it is met.
OpenInner ==
  /\ Textual /\ Printing /\ Current \in Comparison /\ ~Holder(Current)
  /\ stack' = Append(stack, Enters(Current))
  /\ UNCHANGED <<outcomes, root, format, seen, todo, ids, drawn>>

--------------------------------------------------------------------------------
(***************************************************************************)
(* Print.                                                                  *)
(***************************************************************************)
\* Mutant: the flag is not set after the recursion.
WithSeenStarted(c, finished) ==
  [d \in DOMAIN seen \cup {c} |-> IF d = c THEN FALSE ELSE seen[d]]

WithSeen(c, finished) ==
  [d \in DOMAIN seen \cup {c} |-> IF d = c THEN finished ELSE seen[d]]

\* Mutant: a comparison is taken for finished as soon as it is met.
SeenFinished == TRUE

SeenStarted == FALSE

PlainOpenHolder ==
  /\ format = "plain"
  /\ Printing /\ Current \in Comparison /\ Holder(Current)
  /\ Current \notin DOMAIN seen
  /\ seen' = WithSeen(Current, SeenStarted)
  /\ stack' = Append(stack, Enters(Current))
  /\ UNCHANGED <<outcomes, root, format, todo, ids, drawn>>

PlainSeenHolder ==
  /\ format = "plain"
  /\ Printing /\ Current \in Comparison /\ Holder(Current)
  /\ Current \in DOMAIN seen
  /\ stack' = Printed(OneLine(Current,
                        IF ~seen[Current] THEN "being reported"
                        ELSE IF outcomes[Current].details # << >> THEN "already reported"
                        ELSE "line not ended"), FALSE)
  /\ UNCHANGED <<outcomes, root, format, seen, todo, ids, drawn>>

--------------------------------------------------------------------------------
(***************************************************************************)
(* FlatPrint and ReportFlat.                                               *)
(***************************************************************************)
Flat == format \in {"flat", "small"}

\* Mutant: a comparison is queued every time it is met.
QueueAlways(c) == Append(todo, c)

QueueNew(c) == IF c \in DOMAIN seen THEN todo ELSE Append(todo, c)

FlatStop ==
  /\ Flat
  /\ Printing /\ Current \in Comparison /\ Holder(Current)
  /\ seen' = WithSeen(Current, FALSE)
  /\ todo' = QueueNew(Current)
  /\ stack' = Printed(Kept(OneLine(Current, "stopped at"), FALSE), FALSE)
  /\ UNCHANGED <<outcomes, root, format, ids, drawn>>

\* Mutant: FlatPrint dies on a comparison without a change of its own.
AppropriateIfChanged(c) == outcomes[c].has_changes

Appropriate(c) == Holder(c)

\* ReportFlat takes the next section when it is through with the root.
FlatSection ==
  /\ Flat
  /\ ~Printing /\ Len(stack) = 1
  /\ todo # << >>
  /\ Appropriate(Head(todo))  \* Die: FlatPrint called on inappropriate node
  /\ stack' = Append(stack, Enters(Head(todo)))
  /\ todo' = Tail(todo)
  /\ UNCHANGED <<outcomes, root, format, seen, ids, drawn>>

--------------------------------------------------------------------------------
\* Mutant: the caller is as interesting as its last detail.
LastInterest(caller, callee) == callee.interesting

Interest(caller, callee) == caller.interesting \/ callee.interesting

(***************************************************************************)
(* VizPrint.                                                               *)
(***************************************************************************)
Viz == format = "viz"

\* A comparison is numbered when it is first met.
VizId(c) == IF c \in DOMAIN ids THEN ids
            ELSE [d \in DOMAIN ids \cup {c} |->
                    IF d = c THEN Cardinality(DOMAIN ids) ELSE ids[d]]

Drawn(c)      == <<NodeMark(ids'[c], c)>>
DrawnEdge(to) == <<EdgeMark(ids'[Top.node], ids'[to])>>

\* Mutant: the number stays the same.
AttributeIndexKept(call) == 0

\* The changes without an edge are numbered in each comparison.
AttributeIndex(call) ==
  Cardinality({i \in 1 .. call.next - 1 : outcomes[call.node].details[i] = NoEdge})

VizAttribute ==
  /\ Viz /\ Printing /\ Current = NoEdge
  /\ drawn' = Append(drawn, AttributeMark(ids[Top.node], AttributeIndex(Top)))
  /\ stack' = Printed(<< >>, FALSE)
  /\ UNCHANGED <<outcomes, root, format, seen, todo, ids>>

\* The call returns at once: what it is for has been seen, or has no details.
VizEdge ==
  /\ Viz /\ Printing /\ Current \in DOMAIN seen \cup OneSided
  /\ seen' = WithSeen(Current, FALSE)
  /\ ids' = VizId(Current)
  /\ drawn' = drawn \o (IF Current \in DOMAIN seen THEN << >> ELSE Drawn(Current))
                    \o DrawnEdge(Current)
  /\ stack' = Printed(<< >>, FALSE)
  /\ UNCHANGED <<outcomes, root, format, todo>>

VizEnter ==
  /\ Viz /\ Printing /\ Current \in Comparison \ DOMAIN seen
  /\ seen' = WithSeen(Current, FALSE)
  /\ ids' = VizId(Current)
  /\ drawn' = drawn \o Drawn(Current)
  /\ stack' = Append(stack, Call(Current, 1, FALSE, << >>))
  /\ UNCHANGED <<outcomes, root, format, todo>>

\* The edge comes after everything below it.
VizReturn ==
  /\ Viz /\ ~Printing /\ Len(stack) > 1
  /\ LET n      == Len(stack) - 1
         caller == stack[n]
     IN  /\ stack' = Append(SubSeq(stack, 1, n - 1), Call(caller.node, caller.next + 1, FALSE, << >>))
         /\ drawn' = Append(drawn, EdgeMark(ids[caller.node], ids[Top.node]))
  /\ UNCHANGED <<outcomes, root, format, seen, todo, ids>>

--------------------------------------------------------------------------------
\* A call returns: its lines are added to the caller's.  Sections are called for
\* when the details of the root are through, so they leave next alone.
Return ==
  /\ Textual /\ ~Printing /\ Len(stack) > 1
  /\ LET n      == Len(stack) - 1
         caller == stack[n]
         next   == IF caller.next <= Len(outcomes[caller.node].details)
                   THEN caller.next + 1 ELSE caller.next
     IN  stack' = Append(SubSeq(stack, 1, n - 1),
                    Call(caller.node, next, Interest(caller, Top),
                         caller.lines \o Kept(Top.lines, Top.interesting)))
  /\ seen' = IF format = "plain" /\ Holder(Top.node) THEN WithSeen(Top.node, TRUE) ELSE seen
  /\ UNCHANGED <<outcomes, root, format, todo, ids, drawn>>

Done == ~Printing /\ Len(stack) = 1 /\ todo = << >>

Finished == Done /\ UNCHANGED vars

Next == \/ NodeDiff
        \/ RemovedOrAdded
        \/ OpenInner
        \/ PlainOpenHolder
        \/ PlainSeenHolder
        \/ FlatStop
        \/ FlatSection
        \/ Return
        \/ VizAttribute
        \/ VizEdge
        \/ VizEnter
        \/ VizReturn
        \/ Finished

Spec == Init /\ [][Next]_vars

\* One thread, which runs on.
FairSpec == Spec /\ WF_vars(Next)

--------------------------------------------------------------------------------
(***************************************************************************)
(* Correctness.                                                            *)
(***************************************************************************)
Met == {c \in DOMAIN outcomes :
          \E d \in Comparison :
            /\ Paths!Reach(Opened(outcomes, Comparison), root, d)
            /\ c \in EdgesOf(outcomes[d].details)}

Lines(how) == {i \in 1 .. Len(stack[1].lines) : stack[1].lines[i].how = how}

Times(c, how) == Cardinality({i \in Lines(how) : stack[1].lines[i].node = c})

LinesOf(c) == {i \in 1 .. Len(stack[1].lines) : stack[1].lines[i].node = c}

Changed(c) == outcomes[c].has_changes \/ EdgesOf(outcomes[c].details) \cap OneSided # {}

\* A comparison is met from another without passing through one that holds differences.
InnerReach(o, c, d) == Paths!Reach(Opened(o, Inner(o)), c, d)

\* A comparison is interesting if it has a change or leads to one without passing
\* through a comparison that holds differences.
Interesting(c) ==
  \E d \in DOMAIN outcomes \cap Comparison : Changed(d) /\ InnerReach(outcomes, c, d)

\* All lines printed so far.
AllLines == UNION {{stack[f].lines[i] : i \in 1 .. Len(stack[f].lines)} : f \in 1 .. Len(stack)}

\* A plain report expands every comparison that holds differences once, however
\* often and along whatever cycles it is met: the other places refer to it.
\* Everything below the root is described, and every line is ended.
PlainComplete ==
  format = "plain" /\ Done =>
    /\ Lines("line not ended") = {}
    /\ \A c \in Met \cap Comparison :
         IF outcomes[c].holds_changes THEN Times(c, "described") = 1 ELSE Times(c, "described") > 0

\* The references are right when they are made: a comparison "being reported"
\* is one the line is inside of, and one "already reported" was printed in full.
ReferencesRight ==
  [][PlainSeenHolder =>
       LET c      == Current
           inside == {stack[f].node : f \in 2 .. Len(stack)}
           how    == stack'[Len(stack)].lines[Len(Top.lines) + 1].how
       IN  /\ c \in inside => how = "being reported"
           /\ c \notin inside =>
                /\ how = "already reported"
                /\ \E l \in AllLines : l.node = c /\ l.how = "described"
    ]_vars

\* A flat report has a section for every comparison that holds differences, and
\* one only; a small report for exactly those that are interesting, and every
\* comparison it describes is interesting.
SectionsExact ==
  Flat /\ Done =>
    /\ \A c \in Met \cap Comparison :
         outcomes[c].holds_changes =>
           Times(c, "described") = IF format = "flat" \/ Interesting(c) THEN 1 ELSE 0
    /\ format = "small" =>
         /\ Lines("stopped at") = {}
         /\ \A i \in Lines("described") : Interesting(stack[1].lines[i].node)

\* No report hides a change: every comparison below the root with a change of
\* its own and every removal or addition has its line, also in a small report.
\* (Whoever sees exit status 4 finds something in the report.)
EveryChangeReported ==
  Textual /\ Done => \A c \in Met : c \in OneSided \/ outcomes[c].has_changes => LinesOf(c) # {}

\* How often x is among the first n members of s, and among them all.
Among(s, n, x) == Cardinality({i \in 1 .. n : s[i] = x})
Count(s, x) == Among(s, Len(s), x)

\* The Graphviz output is the difference graph: every comparison below the root
\* is drawn once, under a number of its own, with an edge for every detail that
\* leads on, also around a cycle, and a node of its own for every other detail.
GraphvizExact ==
  Viz /\ Done =>
    LET nodes         == Met \cup {root}
        two_sided     == nodes \cap Comparison
        attributes(c) == {AttributeMark(ids[c], i - 1) : i \in 1 .. Count(outcomes[c].details, NoEdge)}
    IN  /\ DOMAIN ids = nodes
        /\ \A c, d \in nodes : ids[c] = ids[d] => c = d
        /\ \A c \in nodes : Count(drawn, NodeMark(ids[c], c)) = 1
        /\ \A c \in two_sided : \A d \in nodes :
             Count(drawn, EdgeMark(ids[c], ids[d])) = Count(outcomes[c].details, d)
        /\ \A c \in two_sided : \A a \in attributes(c) : Count(drawn, a) = 1
        /\ {i \in DOMAIN drawn : drawn[i][1] = "attribute"} =
             {i \in DOMAIN drawn : drawn[i] \in UNION {attributes(c) : c \in two_sided}}

--------------------------------------------------------------------------------
(***************************************************************************)
(* Why: what the calls have done so far.                                   *)
(***************************************************************************)
Line == [node : Comparison, how : {"described", "node diff", "being reported",
                                   "already reported", "line not ended", "stopped at"}]
          \cup [node : OneSided, how : {"removed or added"}]

Frame == [node : Comparison, next : Nat \ {0}, interesting : BOOLEAN, lines : Seq(Line)]

CallsOK ==
  /\ stack \in Seq(Frame) /\ stack # << >>
  /\ \A f \in 1 .. Len(stack) : /\ stack[f].node \in DOMAIN outcomes
                                /\ stack[f].next <= Len(outcomes[stack[f].node].details) + 1

TypeOK ==
  /\ WellFormed(outcomes, root) /\ format \in {"plain", "flat", "small", "viz"}
  /\ seen \in [DOMAIN seen -> BOOLEAN] /\ DOMAIN seen \subseteq DOMAIN outcomes
  /\ todo \in Seq(Comparison \cap DOMAIN outcomes)
  /\ CallsOK

\* The next detail of f is there.
Within(f) == stack[f].next <= Len(outcomes[stack[f].node].details)

\* Every call is for a detail of its caller, or for a section.
CallsMatch ==
  /\ stack[1].node = root
  /\ \A f \in 1 .. Len(stack) - 1 :
       IF Within(f) THEN stack[f + 1].node = outcomes[stack[f].node].details[stack[f].next]
       ELSE Flat /\ f = 1 /\ Holder(stack[2].node)

Described(c) == LineFor(c, "described")

\* A textual call starts by describing what it is for.
CallsDescribed ==
  Textual => \A f \in 2 .. Len(stack) :
               Len(stack[f].lines) > 0 /\ stack[f].lines[1] = Described(stack[f].node)

Active == {stack[f].node : f \in 2 .. Len(stack)}

--------------------------------------------------------------------------------
\* What holds differences is seen when its call is made, and finished when it is over.
SeenSoFar ==
  \A c \in DOMAIN seen : /\ Holder(c)
                         /\ Described(c) \in AllLines
                         /\ seen[c] <=> c \notin Active

\* Line i of call f is the only description of c.
OnlyAt(c, f, i) ==
  \A g \in 1 .. Len(stack) : \A j \in 1 .. Len(stack[g].lines) :
    stack[g].lines[j] = Described(c) => g = f /\ j = i

DescribedOnce ==
  \A f \in 1 .. Len(stack) : \A i \in 1 .. Len(stack[f].lines) : \A c \in Comparison :
    stack[f].lines[i] = Described(c) /\ Holder(c) => c \in DOMAIN seen /\ OnlyAt(c, f, i)

AllEnded == \A line \in AllLines : line.how # "line not ended"

\* The lines that a plain report owes to a detail.
Dealt(d, lines) ==
  /\ d \in OneSided => LineFor(d, "removed or added") \in lines
  /\ d \in Comparison => Described(d) \in lines

CallsDealt ==
  \A f \in 1 .. Len(stack) : \A i \in 1 .. stack[f].next - 1 :
    Dealt(outcomes[stack[f].node].details[i], AllLines)

DescribedDealt ==
  \A c \in Comparison \ Active :
    Described(c) \in AllLines =>
      /\ c \in DOMAIN outcomes
      /\ \A i \in 1 .. Len(outcomes[c].details) : Dealt(outcomes[c].details[i], AllLines)

PlainSoFar ==
  format = "plain" => /\ todo = << >>
                      /\ SeenSoFar
                      /\ DescribedOnce
                      /\ AllEnded
                      /\ CallsDealt
                      /\ DescribedDealt

--------------------------------------------------------------------------------
\* The sections of a flat report: those finished, those called and those to come.
Called == {c \in Active : Holder(c)}
Queued == {todo[k] : k \in 1 .. Len(todo)}
Sections == DOMAIN seen \ (Called \cup Queued)

\* A flat report calls for what holds differences as a section only, and each once.
SectionCalls == \A f \in 2 .. Len(stack) : Holder(stack[f].node) <=> f = 2 /\ ~Within(1)

QueuedOnce == \A k, l \in 1 .. Len(todo) : todo[k] = todo[l] => k = l

SectionsSoFar ==
  /\ SectionCalls
  /\ QueuedOnce
  /\ \A c \in DOMAIN seen : Holder(c)
  /\ Called \cup Queued \subseteq DOMAIN seen
  /\ Called \cap Queued = {}

\* Which descriptions there are, but for the first line of an active call.
DescriptionsSoFar ==
  \A f \in 1 .. Len(stack) : \A i \in (IF f = 1 THEN 1 ELSE 2) .. Len(stack[f].lines) :
    \A c \in Comparison :
      stack[f].lines[i] = Described(c) =>
        /\ Holder(c) => f = 1 /\ c \in Sections
        /\ format = "small" => Interesting(c)

SectionsOnce ==
  \A i, j \in 1 .. Len(stack[1].lines) : \A c \in Comparison :
    stack[1].lines[i] = Described(c) /\ stack[1].lines[j] = Described(c) /\ Holder(c) => i = j

SectionsDescribed ==
  \A c \in Sections : format = "flat" \/ Interesting(c) =>
    \E i \in 1 .. Len(stack[1].lines) : stack[1].lines[i] = Described(c)

NoneStopped == format = "small" => \A line \in AllLines : line.how # "stopped at"

Passed(f) == {outcomes[stack[f].node].details[i] : i \in 1 .. stack[f].next - 1}
Lined(f) == {stack[f].lines[i].node : i \in 1 .. Len(stack[f].lines)}

\* A call is as interesting as what it has been through.
InterestSoFar ==
  \A f \in 2 .. Len(stack) :
    stack[f].interesting <=>
      \/ outcomes[stack[f].node].has_changes
      \/ \E d \in Passed(f) : d \in OneSided \/ (d \in Inner(outcomes) /\ Interesting(d))

\* Every change met from c, by way of comparisons that hold none, has a line for one of S,
\* and every section met is in H.
Covered(o, c, S, H) ==
  \A d \in DOMAIN o \cap Comparison : InnerReach(o, c, d) =>
    /\ o[d].has_changes => d \in S
    /\ \A e \in EdgesOf(o[d].details) : /\ e \in OneSided => e \in S
                                        /\ e \in Comparison /\ o[e].holds_changes => e \in H

CallsCovered ==
  \A f \in 1 .. Len(stack) : \A d \in Passed(f) :
    /\ d \in OneSided => d \in Lined(f)
    /\ d \in Comparison /\ Holder(d) => d \in DOMAIN seen
    /\ d \in Inner(outcomes) => Covered(outcomes, d, Lined(f), DOMAIN seen)

SectionsCovered == \A c \in Sections : Covered(outcomes, c, Lined(1), DOMAIN seen)

FlatSoFar == Flat => /\ SectionsSoFar
                     /\ DescriptionsSoFar
                     /\ SectionsOnce
                     /\ SectionsDescribed
                     /\ NoneStopped
                     /\ InterestSoFar
                     /\ CallsCovered
                     /\ SectionsCovered

--------------------------------------------------------------------------------
\* What may be written.
Mark == {"node", "edge", "attribute"} \X Nat \X (Comparison \cup OneSided \cup Nat)

\* Numbers are given out one after the other, and what is written uses no others; what
\* has one has its node.
NumbersRight(numbers, written) ==
  /\ IsFiniteSet(DOMAIN numbers)
  /\ \A c \in DOMAIN numbers : numbers[c] \in 0 .. Cardinality(DOMAIN numbers) - 1
  /\ \A c, d \in DOMAIN numbers : numbers[c] = numbers[d] => c = d
  /\ written \in Seq(Mark)
  /\ \A i \in 1 .. Len(written) :
       /\ written[i][2] \in 0 .. Cardinality(DOMAIN numbers) - 1
       /\ written[i][1] = "node" => written[i][3] \in DOMAIN numbers
       /\ written[i][1] = "edge" => written[i][3] \in 0 .. Cardinality(DOMAIN numbers) - 1
  /\ \A c \in DOMAIN numbers : Count(written, NodeMark(numbers[c], c)) = 1

\* The first n details of c have been drawn.
DetailsDrawn(details, numbers, written, c, n) ==
  /\ \A i \in 1 .. n : details[i] # NoEdge => details[i] \in DOMAIN numbers
  /\ \A d \in DOMAIN numbers :
       Count(written, EdgeMark(numbers[c], numbers[d])) = Among(details, n, d)
  /\ \A k \in 0 .. Len(details) :
       Count(written, AttributeMark(numbers[c], k)) =
         IF k < Among(details, n, NoEdge) THEN 1 ELSE 0

\* A Graphviz report makes one call for each comparison: what the active calls are done
\* with is drawn, and so is all of the others.
DrawnSoFar ==
  Viz => /\ DOMAIN ids = DOMAIN seen
         /\ root \in DOMAIN ids /\ DOMAIN ids \subseteq Met \cup {root}
         /\ NumbersRight(ids, drawn)
         /\ \A f \in 1 .. Len(stack) :
              LET c == stack[f].node
              IN  /\ c \in DOMAIN ids
                  /\ \A g \in 1 .. Len(stack) : stack[g].node = c => g = f
                  /\ DetailsDrawn(outcomes[c].details, ids, drawn, c, stack[f].next - 1)
         /\ \A c \in DOMAIN ids \cap Comparison :
              \/ \E f \in 1 .. Len(stack) : stack[f].node = c
              \/ DetailsDrawn(outcomes[c].details, ids, drawn, c, Len(outcomes[c].details))

\* Every attribute is one of a comparison drawn.
AttributesRight(numbers, written) ==
  \A i \in 1 .. Len(written) : written[i][1] = "attribute" =>
    \E c \in DOMAIN numbers \cap Comparison : \E k \in 0 .. Len(outcomes[c].details) :
      written[i] = AttributeMark(numbers[c], k)

AttributesSoFar == Viz => AttributesRight(ids, drawn)

\* Everything the proofs carry from one state to the next.
IInv ==
  /\ TypeOK
  /\ CallsMatch
  /\ CallsDescribed
  /\ PlainSoFar
  /\ FlatSoFar
  /\ DrawnSoFar
  /\ AttributesSoFar

\* Every report ends, although the difference graph has cycles.
Termination == <>Done
================================================================================
