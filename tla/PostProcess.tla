------------------------------- MODULE PostProcess -------------------------------
(***************************************************************************)
(* post_processing.cc: the short report is the small one after three       *)
(* passes over its lines.  The first gathers the symbols with CRC changes  *)
(* only and shows a few, the second groups the symbols that were added and *)
(* removed, the third replaces runs of members that moved by the same      *)
(* offset.  Each pass looks ahead a line or two and holds lines back until *)
(* something else comes.                                                   *)
(*                                                                         *)
(* A line is what the regular expressions tell apart: its tag, its         *)
(* indentation and what is captured from it.                               *)
(***************************************************************************)
EXTENDS Integers, SequencesExt, Positions

CONSTANTS Reports,  \* the small reports processed
          limit     \* max_crc_only_changes

Line == [tag |-> "empty", indent |-> 0, kind |-> "", which |-> "", name |-> "",
         last |-> "", count |-> 0, offset |-> 0]

EmptyLine == Line

\* "K symbol N changed", "  CRC changed from A to B" and "K symbol N was W";
\* the first line of another section; and any other line.
Changed(k, n)  == [Line EXCEPT !.tag = "changed", !.kind = k, !.name = n]
CRCLine        == [Line EXCEPT !.tag = "crc", !.indent = 2]
Was(k, n, w)   == [Line EXCEPT !.tag = "was", !.kind = k, !.name = n, !.which = w]
Section(n)     == [Line EXCEPT !.tag = "section", !.name = n]
Other(i, n)    == [Line EXCEPT !.tag = "other", !.indent = i, !.name = n]

\* "member N changed" and "offset changed from A to B", with B - A.
MemberLine(i, n) == [Line EXCEPT !.tag = "member", !.indent = i, !.name = n]
OffsetLine(i, d) == [Line EXCEPT !.tag = "offset", !.indent = i, !.offset = d]

\* The lines the passes make.
Omitted(n, total)    == [Line EXCEPT !.tag = "omitted", !.offset = n, !.count = total]
Heading(n, k, w)     == [Line EXCEPT !.tag = "heading", !.count = n, !.kind = k, !.which = w]
Listed(n)            == [Line EXCEPT !.tag = "listed", !.indent = 2, !.name = n]
Members(i, f, l, n)  == [Line EXCEPT !.tag = "members", !.indent = i, !.name = f,
                                     !.last = l, !.count = n]
Moved(i, d)          == [Line EXCEPT !.tag = "moved", !.indent = i, !.offset = d]

Kinds   == <<"TLS", "common", "function", "variable">>  \* in the order of a std::map
Whiches == <<"removed", "added">>

\* The report has these tags from line i on.
Tags(r, i, tags) ==
  i + Len(tags) - 1 <= Len(r) /\ \A k \in DOMAIN tags : r[i + k - 1].tag = tags[k]

CRCOnly(r, i) == Tags(r, i, <<"changed", "crc", "empty">>)

CRCOnlyAt(r)  == {i \in DOMAIN r : CRCOnly(r, i)}
SectionsAt(r) == {i \in DOMAIN r : r[i].tag = "section"}

\* What ReportFlat makes: a symbol follows the empty line at the end of what is said of
\* the one before, and the symbols come before the types.
IsReport(r) ==
  /\ IsSequence(r)
  /\ \A i \in DOMAIN r :
       /\ r[i].tag \notin {"omitted", "heading", "listed"}
       /\ r[i].tag = "was" => r[i].kind \in ToSet(Kinds) /\ r[i].which \in ToSet(Whiches)
  /\ \A i \in CRCOnlyAt(r) : i > 1 => r[i - 1].tag = "empty"
  /\ \A i \in CRCOnlyAt(r), j \in SectionsAt(r) : i < j

ASSUME ReportsAssumption == limit \in Nat /\ \A r \in Reports : IsReport(r)

VARIABLES reports,  \* the report, and the results of the passes that are done
          ix, new_report,
          crc,      \* the symbols the first pass holds back
          symbols,  \* those the second one does, by what happened and kind
          indent, offset, vars  \* the members the third one does

state == <<reports, ix, new_report, crc, symbols, indent, offset, vars>>

NoSymbols == [w \in ToSet(Whiches) |-> [k \in ToSet(Kinds) |-> << >>]]

Init ==
  /\ reports \in {<<r>> : r \in Reports}
  /\ ix = 1
  /\ new_report = << >>
  /\ crc = << >> /\ symbols = NoSymbols
  /\ indent = 0 /\ offset = 0 /\ vars = << >>

report == Last(reports)
AtLine(pass) == Len(reports) = pass /\ ix <= Len(report)
AtEnd(pass)  == Len(reports) = pass /\ ix > Len(report)

NextPass(lines) == reports' = Append(reports, lines) /\ ix' = 1 /\ new_report' = << >>

----------------------------------------------------------------------------
(* SummariseCRCChanges.                                                    *)

\* What has been held back: a few symbols and the number of the others.
PendingCRCs(p) ==
  FlattenSeq([i \in 1 .. IF Len(p) < limit THEN Len(p) ELSE limit |->
                <<p[i], CRCLine, EmptyLine>>])
  \o IF Len(p) > limit THEN <<Omitted(Len(p) - limit, Len(p)), EmptyLine>> ELSE << >>

CRCSection ==
  /\ AtLine(1) /\ report[ix].tag = "section"
  /\ new_report' = new_report \o PendingCRCs(crc) \o <<report[ix]>>
  /\ crc' = << >>
  /\ ix' = ix + 1
  /\ UNCHANGED <<reports, symbols, indent, offset, vars>>

CRCHeld ==
  /\ AtLine(1) /\ CRCOnly(report, ix)
  /\ crc' = Append(crc, report[ix])
  /\ ix' = ix + 3
  /\ UNCHANGED <<reports, new_report, symbols, indent, offset, vars>>

CRCOther ==
  /\ AtLine(1) /\ report[ix].tag # "section" /\ ~CRCOnly(report, ix)
  /\ new_report' = Append(new_report, report[ix])
  /\ ix' = ix + 1
  /\ UNCHANGED <<reports, crc, symbols, indent, offset, vars>>

CRCEnd ==
  /\ AtEnd(1)
  /\ NextPass(new_report \o PendingCRCs(crc))
  /\ crc' = << >>
  /\ UNCHANGED <<symbols, indent, offset, vars>>

----------------------------------------------------------------------------
(* GroupRemovedAddedSymbols.                                               *)

RemovedOrAdded(r, i) == Tags(r, i, <<"was", "empty">>)

Group(k, w, names) ==
  IF names = << >> THEN << >>
  ELSE <<Heading(Len(names), k, w)>> \o [i \in DOMAIN names |-> Listed(names[i])] \o <<EmptyLine>>

PendingSymbols ==
  FlattenSeq([w \in DOMAIN Whiches |->
    FlattenSeq([k \in DOMAIN Kinds |->
      Group(Kinds[k], Whiches[w], symbols[Whiches[w]][Kinds[k]])])])

\* Mutant: what has been listed stays pending.
GroupOtherKept ==
  /\ AtLine(2) /\ ~RemovedOrAdded(report, ix)
  /\ new_report' = new_report \o PendingSymbols \o <<report[ix]>>
  /\ ix' = ix + 1
  /\ UNCHANGED <<reports, crc, symbols, indent, offset, vars>>

GroupHeld ==
  /\ AtLine(2) /\ RemovedOrAdded(report, ix)
  /\ LET l == report[ix]
     IN  symbols' = [symbols EXCEPT ![l.which][l.kind] = Append(@, l.name)]
  /\ ix' = ix + 2
  /\ UNCHANGED <<reports, new_report, crc, indent, offset, vars>>

GroupOther ==
  /\ AtLine(2) /\ ~RemovedOrAdded(report, ix)
  /\ new_report' = new_report \o PendingSymbols \o <<report[ix]>>
  /\ symbols' = NoSymbols
  /\ ix' = ix + 1
  /\ UNCHANGED <<reports, crc, indent, offset, vars>>

GroupEnd ==
  /\ AtEnd(2)
  /\ NextPass(new_report \o PendingSymbols)
  /\ symbols' = NoSymbols
  /\ UNCHANGED <<crc, indent, offset, vars>>

----------------------------------------------------------------------------
(* SummariseOffsetChanges.                                                 *)

\* Only the offset of the member on line i has changed: what follows is not about
\* the member.
OffsetOnly(r, i) ==
  /\ i + 2 <= Len(r)
  /\ Tags(r, i, <<"member", "offset">>)
  /\ r[i].indent + 2 = r[i + 1].indent
  /\ r[i].indent >= r[i + 2].indent

\* Mutant: the indentation is not compared.
AlikeOffset(i, d) == offset = d

\* The indentation and the offset of the pending members are those of the member.
Alike(i, d) == indent = i /\ offset = d

Summary(i, d, names) ==
  <<IF Len(names) = 1 THEN MemberLine(i, names[1])
    ELSE Members(i, names[1], Last(names), Len(names)), Moved(i, d)>>

PendingMembers == IF vars = << >> THEN << >> ELSE Summary(indent, offset, vars)

OffsetHeld ==
  /\ AtLine(3) /\ OffsetOnly(report, ix)
  /\ LET i == report[ix].indent
         d == report[ix + 1].offset
     IN  IF Alike(i, d)
         THEN vars' = Append(vars, report[ix].name) /\ UNCHANGED <<new_report, indent, offset>>
         ELSE /\ new_report' = new_report \o PendingMembers
              /\ vars' = <<report[ix].name>>
              /\ indent' = i /\ offset' = d
  /\ ix' = ix + 2
  /\ UNCHANGED <<reports, crc, symbols>>

OffsetOther ==
  /\ AtLine(3) /\ ~OffsetOnly(report, ix)
  /\ new_report' = new_report \o PendingMembers \o <<report[ix]>>
  /\ vars' = << >>
  /\ ix' = ix + 1
  /\ UNCHANGED <<reports, crc, symbols, indent, offset>>

OffsetEnd ==
  /\ AtEnd(3)
  /\ NextPass(new_report \o PendingMembers)
  /\ vars' = << >>
  /\ UNCHANGED <<crc, symbols, indent, offset>>

Done == Len(reports) = 4 /\ UNCHANGED state

Next == \/ CRCSection \/ CRCHeld \/ CRCOther \/ CRCEnd
        \/ GroupHeld \/ GroupOther \/ GroupEnd
        \/ OffsetHeld \/ OffsetOther \/ OffsetEnd \/ Done

Spec == Init /\ [][Next]_state

----------------------------------------------------------------------------
(* What the passes promise, said of their whole input and output.          *)

\* The lines from position i of S on, with the n - 1 after each.
Spans(S, n) == UNION {i .. i + n - 1 : i \in S}

OmittedAt(r) == {i \in DOMAIN r : r[i].tag = "omitted"}

\* The first pass: all other lines stay, in their order; of the symbols with CRC
\* changes only, as many as fit are shown and the others are counted; and they
\* are before the first section about a type, as all symbols are.
CRCsSummarised(r, s) ==
  LET symbols_in == ValuesAt(r, CRCOnlyAt(r))
      shown      == ValuesAt(s, CRCOnlyAt(s))
      rest       == DOMAIN s \ (Spans(CRCOnlyAt(s), 3) \cup Spans(OmittedAt(s), 2))
  IN  /\ ValuesAt(s, rest) = ValuesAt(r, DOMAIN r \ Spans(CRCOnlyAt(r), 3))
      /\ IsPrefix(shown, symbols_in)
      /\ \/ Len(symbols_in) <= limit /\ shown = symbols_in /\ OmittedAt(s) = {}
         \/ /\ Len(symbols_in) > limit /\ Len(shown) = limit
            /\ \E i \in DOMAIN s : /\ OmittedAt(s) = {i}
                                   /\ s[i] = Omitted(Len(symbols_in) - limit, Len(symbols_in))
      /\ \A i \in SectionsAt(s) : \A j \in CRCOnlyAt(s) \cup OmittedAt(s) : j < i

WasAt(r)      == {i \in DOMAIN r : RemovedOrAdded(r, i)}
HeadingsAt(s) == {i \in DOMAIN s : s[i].tag = "heading"}
ListedAt(s)   == {i \in DOMAIN s : s[i].tag = "listed"}
BlanksAt(s)   == {h + s[h].count + 1 : h \in HeadingsAt(s)}

\* The heading of a listed line.
HeadingOf(s, i) ==
  CHOOSE h \in 1 .. i : s[h].tag = "heading" /\ \A j \in h + 1 .. i : s[j].tag = "listed"

NamesAt(t, S) == ValuesAt([i \in DOMAIN t |-> t[i].name], S)

\* The second pass: every symbol that was removed or added is listed once, under
\* its kind and what happened to it, in its order; the headings count right; and
\* the other lines stay, in their order.
SymbolsGrouped(r, s) ==
  /\ ValuesAt(s, DOMAIN s \ (HeadingsAt(s) \cup ListedAt(s) \cup BlanksAt(s)))
       = ValuesAt(r, DOMAIN r \ Spans(WasAt(r), 2))
  /\ \A h \in HeadingsAt(s) : {i \in ListedAt(s) : HeadingOf(s, i) = h} = h + 1 .. h + s[h].count
  /\ \A k \in ToSet(Kinds), w \in ToSet(Whiches) :
       NamesAt(r, {i \in WasAt(r) : r[i].kind = k /\ r[i].which = w})
         = NamesAt(s, {i \in ListedAt(s) : LET h == s[HeadingOf(s, i)]
                                          IN  h.kind = k /\ h.which = w})

\* No symbol of the small report is lost, reported twice or counted wrongly on the
\* way to the short one, at the end of the report either.
SymbolsAccounted ==
  /\ Len(reports) > 1 => CRCsSummarised(reports[1], reports[2])
  /\ Len(reports) > 2 => SymbolsGrouped(reports[2], reports[3])

\* The members of r that moved like the one before, on the two lines before.
Continues(r, i) ==
  /\ i > 2 /\ OffsetOnly(r, i) /\ OffsetOnly(r, i - 2)
  /\ r[i].indent = r[i - 2].indent /\ r[i + 1].offset = r[i - 1].offset

RunEnd(r, i) ==
  CHOOSE e \in {i + 2 * k : k \in 0 .. Len(r)} :
    /\ \A j \in {i + 2 * k : k \in 1 .. Len(r)} : j <= e => Continues(r, j)
    /\ e + 2 > Len(r) \/ ~Continues(r, e + 2)

Run(r, i) == [k \in 1 .. (RunEnd(r, i) - i) \div 2 + 1 |-> r[i + 2 * (k - 1)].name]

\* What becomes of line i.
Replacement(r, i) ==
  IF OffsetOnly(r, i)
  THEN IF Continues(r, i) THEN << >>
       ELSE Summary(r[i].indent, r[i + 1].offset, Run(r, i))
  ELSE IF i > 1 /\ OffsetOnly(r, i - 1) THEN << >> ELSE <<r[i]>>

\* The short report has one summary for each longest run of neighbouring members
\* of one struct of which only the offset has changed, and by the same amount,
\* with their number and the first and the last of them, in their place; and it
\* has all other lines unchanged.
OffsetsExact ==
  Len(reports) > 3 =>
    reports[4] = FlattenSeq([i \in DOMAIN reports[3] |-> Replacement(reports[3], i)])
================================================================================
