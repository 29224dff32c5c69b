------------------------------- MODULE MCPostProcess -------------------------------
(***************************************************************************)
(* Small reports: sections about symbols and then sections about types, of *)
(* every kind the passes tell apart and in every order.                    *)
(***************************************************************************)
EXTENDS PostProcess

SymbolSections ==
  {<<Changed("function", "f"), CRCLine, EmptyLine>>,
   <<Changed("variable", "v"), CRCLine, EmptyLine>>,
   <<Changed("function", "g"), CRCLine, Other(2, "type"), EmptyLine>>,
   <<Changed("variable", "x"), Other(2, "type"), EmptyLine>>,
   <<Was("function", "a", "removed"), EmptyLine>>,
   <<Was("TLS", "b", "removed"), EmptyLine>>,
   <<Was("common", "d", "added"), EmptyLine>>,
   <<Was("function", "c", "added"), EmptyLine>>}

\* What may be said of a member: it moved, it moved and its type changed, its type
\* changed, or something else was said, of a nested struct too.
Moves(n, i, d) == <<MemberLine(i, n), OffsetLine(i + 2, d)>>

MemberDetails ==
  {Moves("m1", 2, 8), Moves("m2", 2, 8), Moves("m3", 2, -8), Moves("n1", 4, 8),
   Moves("m4", 2, 8) \o <<Other(4, "type")>>,
   <<MemberLine(2, "m5"), Other(4, "type")>>,
   <<Other(2, "size")>>}

TypeSections ==
  {<<Section("t")>> \o FlattenSeq(d) \o <<EmptyLine>> : d \in BoundedSeq(MemberDetails, 3)}

\* Symbols alone and types alone, and a little of both.
MCReports ==
  {FlattenSeq(s) : s \in BoundedSeq(SymbolSections, 4)} \cup
  {FlattenSeq(s) \o t \o u : s \in BoundedSeq(SymbolSections, 1), t \in TypeSections,
     u \in {<< >>, <<Section("u")>> \o Moves("m1", 2, 8) \o <<EmptyLine>>}} \cup
  {FlattenSeq(s) \o <<Section("t"), Other(2, "size"), EmptyLine>> :
     s \in [1 .. 3 -> SymbolSections]}
================================================================================
