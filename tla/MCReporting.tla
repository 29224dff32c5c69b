------------------------------- MODULE MCReporting -------------------------------
(***************************************************************************)
(* Reports of every well-formed difference graph of a root, three          *)
(* comparisons and one removal, with few details, in which every           *)
(* comparison is below the root.                                           *)
(***************************************************************************)
EXTENDS Reporting, Functions

CONSTANTS top,         \* the comparison of the symbol tables
          MaxDetails,  \* the details of one comparison
          MaxTotal     \* the details of all comparisons but the root

Others == Comparison \ {top}

Lists(S) == UNION {[1 .. n -> S] : n \in 0 .. MaxDetails}

\* Comparisons that record nothing were incomparable.
Differing ==
  {[holds_changes |-> h, has_changes |-> NoEdge \in {l[i] : i \in DOMAIN l} \/ l = << >>,
    details |-> l] : h \in BOOLEAN, l \in Lists(Others \cup OneSided \cup {NoEdge})}

\* All choices of a difference for each of the others, with MaxTotal details.
Choices ==
  LET sizes == {z \in [Others -> 0 .. MaxDetails] : SumFunction(z) <= MaxTotal}
  IN  UNION {{f \in [Others -> UNION {{d \in Differing : Len(d.details) = n} :
                                      n \in {z[c] : c \in Others}}] :
               \A c \in Others : Len(f[c].details) = z[c]} : z \in sizes}

RootDiff(l) == [holds_changes |-> TRUE, has_changes |-> FALSE, details |-> l]

WithRoot(f, l) ==
  [c \in Comparison \cup OneSided |->
     IF c = top THEN RootDiff(l) ELSE IF c \in OneSided THEN EmptyDiff ELSE f[c]]

\* The comparisons met in at most n steps from S.
RECURSIVE MetFrom(_, _, _)
MetFrom(o, S, n) ==
  IF n = 0 THEN S
  ELSE MetFrom(o, S \cup (UNION {EdgesOf(o[c].details) : c \in S \cap Comparison}), n - 1)

\* Comparisons that hold differences have some, and cut every cycle.
Possible(f) ==
  LET inner == [c \in Others |-> IF f[c].holds_changes THEN {}
                                  ELSE EdgesOf(f[c].details) \cap Others]
      two   == [c \in Others |-> UNION {inner[d] : d \in inner[c]}]
      three == [c \in Others |-> UNION {inner[d] : d \in two[c]}]
  IN  \A c \in Others : /\ f[c].holds_changes => f[c].details # << >>
                        /\ c \notin inner[c] \cup two[c] \cup three[c]

MCReports ==
  LET diffs == {f \in Choices : Possible(f)}
      all   == {WithRoot(f, l) : f \in diffs, l \in Lists(Others) \ {<< >>}}
  IN  {[outcomes |-> o, root |-> top] :
         o \in {p \in all : Comparison \subseteq MetFrom(p, {top}, 3)}}
================================================================================
