------------------------------- MODULE StgDiffProofs -------------------------------
(***************************************************************************)
(* The exit status and the outputs of stgdiff are what its command line    *)
(* asks for, for every command line and however files fail.                *)
(***************************************************************************)
EXTENDS StgDiff, PositionsProofs

USE CommandsAssumption, OldAssumption

--------------------------------------------------------------------------------
(***************************************************************************)
(* What a command line says up to an argument, and with it.                *)
(***************************************************************************)

LEMMA ArgumentPositions ==
  ASSUME TypeOK
  PROVE  /\ Len(args) \in Nat /\ DOMAIN args = 1 .. Len(args) /\ End = Len(args) + 1 /\ End \in Nat
         /\ at \in Nat /\ at >= 1 /\ at <= End
         /\ \A i \in 1 .. Len(args) : args[i] \in Argument
BY LenProperties, ElementOfSeq DEF TypeOK, End

\* One argument more.
LEMMA EarlierNext ==
  ASSUME NEW S, S \subseteq Nat, NEW n \in Nat
  PROVE  /\ n \in S => Earlier(S, n + 1) = Earlier(S, n) \cup {n}
         /\ n \notin S => Earlier(S, n + 1) = Earlier(S, n)
<1>1. \A j \in S : j < n + 1 <=> j < n \/ j = n
  OBVIOUS
<1>2. \A j : /\ j \in Earlier(S, n + 1) <=> j \in S /\ j < n + 1
             /\ j \in Earlier(S, n) <=> j \in S /\ j < n
  BY DEF Earlier
<1>3. ~ (n < n)
  OBVIOUS
<1> QED BY <1>1, <1>2, <1>3

LEMMA EarlierRange ==
  ASSUME NEW l \in Nat, NEW S \in SUBSET (1 .. l), NEW n \in Nat
  PROVE  Earlier(S, n + 1) \in SUBSET (1 .. n) /\ Earlier(S, l + 1) = S /\ Earlier(S, 1) = {}
<1>1. \A j \in S : j \in 1 .. l /\ j < l + 1 /\ ~ (j < 1)
  OBVIOUS
<1>2. \A j \in S : j < n + 1 => j \in 1 .. n
  OBVIOUS
<1> QED BY <1>1, <1>2 DEF Earlier

\* The last argument is the last of those up to it.
LEMMA MaxNext ==
  ASSUME NEW n \in Nat, NEW S \in SUBSET Nat, \A i \in S : i < n
  PROVE  Max(S \cup {n}) = n
<1>1. \A x \in S \cup {n} : (\A y \in S \cup {n} : x >= y) => x = n
  OBVIOUS
<1>2. \A y \in S \cup {n} : n >= y
  OBVIOUS
<1> QED BY <1>1, <1>2 DEF Max

LEMMA LastEarlier ==
  ASSUME NEW S, S \subseteq Nat, NEW n \in Nat, n \in S
  PROVE  Earlier(S, n + 1) # {} /\ Max(Earlier(S, n + 1)) = n
<1>1. Earlier(S, n + 1) = Earlier(S, n) \cup {n}
  BY EarlierNext
<1>2. Earlier(S, n) \in SUBSET Nat /\ \A i \in Earlier(S, n) : i < n
  BY DEF Earlier
<1> QED BY <1>1, <1>2, MaxNext

\* What is in force after an argument.
LEMMA FormatNext ==
  ASSUME TypeOK, NEW i \in 1 .. Len(args)
  PROVE  FormatOf(i + 1) = IF args[i].opt = "format" THEN args[i].format ELSE FormatOf(i)
<1> DEFINE S == Given("format")
<1>1. S \subseteq Nat /\ i \in Nat /\ (i \in S <=> args[i].opt = "format")
  BY ArgumentPositions DEF Given
<1> HIDE DEF S
<1>2. CASE i \in S
  <2>1. Earlier(S, i + 1) # {} /\ Max(Earlier(S, i + 1)) = i
    BY <1>1, <1>2, LastEarlier
  <2> QED BY <1>1, <1>2, <2>1 DEF FormatOf, S
<1>3. CASE i \notin S
  <2>1. Earlier(S, i + 1) = Earlier(S, i)
    BY <1>1, <1>3, EarlierNext
  <2> QED BY <1>1, <1>3, <2>1 DEF FormatOf, S
<1> QED BY <1>2, <1>3

LEMMA InputFormatNext ==
  ASSUME TypeOK, NEW i \in 1 .. Len(args)
  PROVE  InputFormatOf(i + 1) = IF args[i].opt \in InputFormats THEN args[i].opt ELSE InputFormatOf(i)
<1> DEFINE S == {j \in DOMAIN args : args[j].opt \in InputFormats}
<1>1. S \subseteq Nat /\ i \in Nat /\ (i \in S <=> args[i].opt \in InputFormats)
  BY ArgumentPositions
<1>2. \A j : InputFormatOf(j) = IF Earlier(S, j) = {} THEN "abi" ELSE args[Max(Earlier(S, j))].opt
  BY DEF InputFormatOf
<1> HIDE DEF S
<1>3. CASE i \in S
  <2>1. Earlier(S, i + 1) # {} /\ Max(Earlier(S, i + 1)) = i
    BY <1>1, <1>3, LastEarlier
  <2> QED BY <1>1, <1>2, <1>3, <2>1
<1>4. CASE i \notin S
  <2>1. Earlier(S, i + 1) = Earlier(S, i)
    BY <1>1, <1>4, EarlierNext
  <2> QED BY <1>1, <1>2, <1>4, <2>1
<1> QED BY <1>3, <1>4

LEMMA OptionsNext ==
  ASSUME TypeOK, NEW i \in 1 .. Len(args)
  PROVE  OptionsGiven(i + 1) =
           IF args[i].opt = "compare-options"
           THEN OptionsGiven(i) \cup UNION {Enabled(o) : o \in ToSet(args[i].list)}
           ELSE OptionsGiven(i)
<1> DEFINE S == Given("compare-options")
           By(j) == UNION {Enabled(o) : o \in ToSet(args[j].list)}
<1>1. S \subseteq Nat /\ i \in Nat /\ (i \in S <=> args[i].opt = "compare-options")
  BY ArgumentPositions DEF Given
<1>2. \A j : OptionsGiven(j) = UNION {By(k) : k \in Earlier(S, j)}
  BY DEF OptionsGiven
<1> HIDE DEF S, By
<1>3. CASE i \in S
  <2>1. Earlier(S, i + 1) = Earlier(S, i) \cup {i}
    BY <1>1, <1>3, EarlierNext
  <2>2. UNION {By(k) : k \in Earlier(S, i) \cup {i}} = (UNION {By(k) : k \in Earlier(S, i)}) \cup By(i)
    OBVIOUS
  <2>3. OptionsGiven(i + 1) = OptionsGiven(i) \cup By(i)
    BY <1>2, <2>1, <2>2
  <2> QED BY <1>1, <1>3, <2>3 DEF By
<1>4. CASE i \notin S
  <2>1. Earlier(S, i + 1) = Earlier(S, i)
    BY <1>1, <1>4, EarlierNext
  <2> QED BY <1>1, <1>2, <1>4, <2>1
<1> QED BY <1>3, <1>4

\* The files named up to an argument, and with it.
LEMMA NamedNext ==
  ASSUME NEW l \in Nat, NEW S \in SUBSET (1 .. l), NEW f, NEW i \in 1 .. l
  PROVE  /\ i \in S => ValuesAt(f, Earlier(S, i + 1)) = Append(ValuesAt(f, Earlier(S, i)), f[i])
         /\ i \notin S => ValuesAt(f, Earlier(S, i + 1)) = ValuesAt(f, Earlier(S, i))
<1>1. S \subseteq Nat /\ i \in Nat /\ i - 1 \in Nat /\ (i - 1) + 1 = i
  OBVIOUS
<1>2. CASE i \in S
  <2>1. Earlier(S, i + 1) = Earlier(S, i) \cup {i}
    BY <1>1, <1>2, EarlierNext
  <2> DEFINE n == i - 1
  <2>2. n \in Nat /\ n + 1 = i
    BY <1>1
  <2> HIDE DEF n
  <2>3. Earlier(S, i) \in SUBSET (1 .. n)
    BY <2>2, EarlierRange
  <2>4. ValuesAt(f, Earlier(S, i) \cup {n + 1}) = Append(ValuesAt(f, Earlier(S, i)), f[n + 1])
    BY <2>2, <2>3, ValuesNext
  <2> QED BY <1>2, <2>1, <2>2, <2>4
<1>3. CASE i \notin S
  BY <1>1, <1>3, EarlierNext
<1> QED BY <1>2, <1>3

LEMMA InputsNext ==
  ASSUME TypeOK, NEW i \in 1 .. Len(args)
  PROVE  NamedInputs(i + 1) =
           IF args[i].opt = "input"
           THEN Append(NamedInputs(i), [format |-> InputFormatOf(i), file |-> args[i].file])
           ELSE NamedInputs(i)
<1> DEFINE S == Given("input")
<1>1. Len(args) \in Nat /\ S \in SUBSET (1 .. Len(args)) /\ (i \in S <=> args[i].opt = "input")
  BY ArgumentPositions DEF Given
<1>2. InputAt[i] = [format |-> InputFormatOf(i), file |-> args[i].file]
  BY ArgumentPositions DEF InputAt
<1> HIDE DEF S
<1>3. /\ i \in S => ValuesAt(InputAt, Earlier(S, i + 1)) = Append(ValuesAt(InputAt, Earlier(S, i)), InputAt[i])
      /\ i \notin S => ValuesAt(InputAt, Earlier(S, i + 1)) = ValuesAt(InputAt, Earlier(S, i))
  BY <1>1, NamedNext
<1> QED BY <1>1, <1>2, <1>3 DEF NamedInputs, S

LEMMA OutputsNext ==
  ASSUME TypeOK, NEW i \in 1 .. Len(args)
  PROVE  NamedOutputs(i + 1) =
           IF args[i].opt = "output"
           THEN Append(NamedOutputs(i), [format |-> FormatOf(i), file |-> args[i].file])
           ELSE NamedOutputs(i)
<1> DEFINE S == Given("output")
<1>1. Len(args) \in Nat /\ S \in SUBSET (1 .. Len(args)) /\ (i \in S <=> args[i].opt = "output")
  BY ArgumentPositions DEF Given
<1>2. OutputAt[i] = [format |-> FormatOf(i), file |-> args[i].file]
  BY ArgumentPositions DEF OutputAt
<1> HIDE DEF S
<1>3. /\ i \in S => ValuesAt(OutputAt, Earlier(S, i + 1)) = Append(ValuesAt(OutputAt, Earlier(S, i)), OutputAt[i])
      /\ i \notin S => ValuesAt(OutputAt, Earlier(S, i + 1)) = ValuesAt(OutputAt, Earlier(S, i))
  BY <1>1, NamedNext
<1> QED BY <1>1, <1>2, <1>3 DEF NamedOutputs, S

\* Before the first argument.
LEMMA NothingGiven ==
  ASSUME TypeOK
  PROVE  /\ FormatOf(1) = "plain" /\ InputFormatOf(1) = "abi" /\ OptionsGiven(1) = {}
         /\ NamedInputs(1) = << >> /\ NamedOutputs(1) = << >>
<1>1. \A S \in SUBSET (1 .. Len(args)) : Earlier(S, 1) = {}
  BY ArgumentPositions, EarlierRange, 0 \in Nat
<1>2. Given("format") \in SUBSET (1 .. Len(args)) /\ Given("input") \in SUBSET (1 .. Len(args))
      /\ Given("output") \in SUBSET (1 .. Len(args)) /\ Given("compare-options") \in SUBSET (1 .. Len(args))
      /\ {j \in DOMAIN args : args[j].opt \in InputFormats} \in SUBSET (1 .. Len(args))
  BY ArgumentPositions DEF Given
<1>3. FormatOf(1) = "plain"
  BY <1>1, <1>2 DEF FormatOf
<1>4. InputFormatOf(1) = "abi"
  BY <1>1, <1>2 DEF InputFormatOf
<1>5. OptionsGiven(1) = {}
  BY <1>1, <1>2 DEF OptionsGiven
<1>6. NamedInputs(1) = << >> /\ NamedOutputs(1) = << >>
  BY <1>1, <1>2, ValuesNone DEF NamedInputs, NamedOutputs
<1> QED BY <1>3, <1>4, <1>5, <1>6

\* The files named are those of the arguments.
LEMMA InputsNamed ==
  ASSUME TypeOK
  PROVE  /\ Len(NamedInputs(End)) = Cardinality(Given("input"))
         /\ Files("input") = {NamedInputs(End)[k].file : k \in 1 .. Len(NamedInputs(End))}
<1> DEFINE S == Given("input")
           s == ValuesAt(InputAt, S)
<1>1. Len(args) \in Nat /\ S \in SUBSET (1 .. Len(args)) /\ S \subseteq DOMAIN args
  BY ArgumentPositions DEF Given
<1>2. \A i \in S : InputAt[i].file = args[i].file
  BY <1>1 DEF InputAt
<1>3. Files("input") = {args[i].file : i \in S}
  BY DEF Files
<1> HIDE DEF S, s
<1>4. s = NamedInputs(End)
  BY <1>1, EarlierRange DEF NamedInputs, End, S, s
<1>5. /\ Len(s) = Cardinality(S)
      /\ \A i \in S : \E k \in 1 .. Len(s) : s[k] = InputAt[i]
      /\ \A k \in 1 .. Len(s) : \E i \in S : s[k] = InputAt[i]
  BY ZenonT(40), <1>1, ValuesElements, ValuesRange DEF s
<1>6. {args[i].file : i \in S} = {s[k].file : k \in 1 .. Len(s)}
  <2>1. \A i \in S : \E k \in 1 .. Len(s) : args[i].file = s[k].file
    BY <1>2, <1>5, ZenonT(40)
  <2>2. ASSUME NEW k \in 1 .. Len(s) PROVE \E i \in S : args[i].file = s[k].file
    <3>1. PICK i \in S : s[k] = InputAt[i]
      BY <1>5
    <3> QED BY <1>2, <3>1
  <2> DEFINE A == {args[i].file : i \in S}
             B == {s[k].file : k \in 1 .. Len(s)}
  <2>3. /\ \A x : x \in A <=> \E i \in S : x = args[i].file
        /\ \A x : x \in B <=> \E k \in 1 .. Len(s) : x = s[k].file
    OBVIOUS
  <2>4. A \subseteq B
    BY <2>1, <2>3, ZenonT(40)
  <2>5. B \subseteq A
    BY <2>2, <2>3, ZenonT(40)
  <2> QED BY <2>4, <2>5
<1> QED BY ZenonT(40), <1>3, <1>4, <1>5, <1>6 DEF S

LEMMA OutputsNamed ==
  ASSUME TypeOK
  PROVE  Files("output") = {NamedOutputs(End)[k].file : k \in 1 .. Len(NamedOutputs(End))}
<1> DEFINE S == Given("output")
           s == ValuesAt(OutputAt, S)
<1>1. Len(args) \in Nat /\ S \in SUBSET (1 .. Len(args)) /\ S \subseteq DOMAIN args
  BY ArgumentPositions DEF Given
<1>2. \A i \in S : OutputAt[i].file = args[i].file
  BY <1>1 DEF OutputAt
<1>3. Files("output") = {args[i].file : i \in S}
  BY DEF Files
<1> HIDE DEF S, s
<1>4. s = NamedOutputs(End)
  BY <1>1, EarlierRange DEF NamedOutputs, End, S, s
<1>5. /\ \A i \in S : \E k \in 1 .. Len(s) : s[k] = OutputAt[i]
      /\ \A k \in 1 .. Len(s) : \E i \in S : s[k] = OutputAt[i]
  BY <1>1, ValuesRange DEF s
<1>6. {args[i].file : i \in S} = {s[k].file : k \in 1 .. Len(s)}
  <2>1. \A i \in S : \E k \in 1 .. Len(s) : args[i].file = s[k].file
    BY <1>2, <1>5, ZenonT(40)
  <2>2. ASSUME NEW k \in 1 .. Len(s) PROVE \E i \in S : args[i].file = s[k].file
    <3>1. PICK i \in S : s[k] = OutputAt[i]
      BY <1>5
    <3> QED BY <1>2, <3>1
  <2> DEFINE A == {args[i].file : i \in S}
             B == {s[k].file : k \in 1 .. Len(s)}
  <2>3. /\ \A x : x \in A <=> \E i \in S : x = args[i].file
        /\ \A x : x \in B <=> \E k \in 1 .. Len(s) : x = s[k].file
    OBVIOUS
  <2>4. A \subseteq B
    BY <2>1, <2>3, Zenon
  <2>5. B \subseteq A
    BY <2>2, <2>3, Zenon
  <2> QED BY <2>4, <2>5
<1> QED BY <1>3, <1>4, <1>6

--------------------------------------------------------------------------------
(***************************************************************************)
(* One argument.                                                           *)
(***************************************************************************)

\* What a command line says is the same in the next state.
LEMMA SameArgs ==
  ASSUME args' = args
  PROVE  /\ \A i : Bad(i)' <=> Bad(i)
         /\ \A i : FormatOf(i)' = FormatOf(i)
         /\ \A i : InputFormatOf(i)' = InputFormatOf(i)
         /\ \A i : OptionsGiven(i)' = OptionsGiven(i)
         /\ \A i : NamedInputs(i)' = NamedInputs(i)
         /\ \A i : NamedOutputs(i)' = NamedOutputs(i)
         /\ \A o : Files(o)' = Files(o)
         /\ Malformed' <=> Malformed
         /\ End' = End
<1>1. \A i : Bad(i)' <=> Bad(i)
  BY DEF Bad
<1>2. \A o : Given(o)' = Given(o)
  BY DEF Given
<1>3. \A i : FormatOf(i)' = FormatOf(i)
  BY DEF FormatOf, Given, Earlier
<1>4. \A i : InputFormatOf(i)' = InputFormatOf(i)
  BY DEF InputFormatOf, Earlier
<1>5. \A i : OptionsGiven(i)' = OptionsGiven(i)
  BY DEF OptionsGiven, Given, Earlier
<1>6. InputAt' = InputAt
  BY <1>4 DEF InputAt
<1>7. OutputAt' = OutputAt
  BY <1>3 DEF OutputAt
<1>8. \A i : NamedInputs(i)' = NamedInputs(i)
  BY <1>6, <1>2 DEF NamedInputs
<1>9. \A i : NamedOutputs(i)' = NamedOutputs(i)
  BY <1>7, <1>2 DEF NamedOutputs
<1>10. \A o : Files(o)' = Files(o)
  BY <1>2 DEF Files
<1>11. Malformed' <=> Malformed
  BY <1>1, <1>2 DEF Malformed
<1>12. End' = End
  BY DEF End
<1> QED BY <1>1, <1>3, <1>4, <1>5, <1>8, <1>9, <1>10, <1>11, <1>12

\* An argument that takes effect.
LEMMA ArgumentPreserves ==
  ASSUME IInv, Parsing, NextArg, ~ Bad(at),
         input_format' = InputFormatOf(at + 1), output_format' = FormatOf(at + 1),
         options' = OptionsGiven(at + 1),
         inputs' = NamedInputs(at + 1), outputs' = NamedOutputs(at + 1),
         input_format' \in InputFormats, output_format' \in OutputFormats,
         options' \subseteq CompareOptions,
         inputs' \in Seq(Named(InputFormats)), outputs' \in Seq(Named(OutputFormats))
  PROVE  IInv'
<1>1. TypeOK /\ exit = Running /\ exit' = Running /\ ParsedSoFar /\ DoneSoFar
  BY DEF IInv, Parsing, NextArg
<1>2. at \in 1 .. Len(args) /\ at' = at + 1 /\ at # End /\ Len(args) \in Nat
  BY <1>1, ArgumentPositions DEF Parsing, NextArg
<1>3. roots = << >> /\ verdict = "none" /\ written = 0
  BY <1>1, <1>2 DEF DoneSoFar
<1>4. /\ args' = args /\ broken' = broken /\ roots' = roots /\ verdict' = verdict
      /\ written' = written /\ files' = files
  BY DEF NextArg
<1>5. TypeOK'
  <2>1. written' \in 0 .. Len(outputs')
    BY <1>3, <1>4, LenProperties
  <2>2. at' \in 1 .. End'
    BY <1>2, <1>4 DEF End
  <2> QED BY <1>1, <1>4, <2>1, <2>2 DEF TypeOK
<1>6. ParsedSoFar'
  <2>1. /\ input_format' = InputFormatOf(at)' /\ output_format' = FormatOf(at)'
        /\ options' = OptionsGiven(at)'
        /\ inputs' = NamedInputs(at)' /\ outputs' = NamedOutputs(at)'
    BY <1>2, <1>4, SameArgs
  <2>2. \A i \in 1 .. at' - 1 : ~ Bad(i)'
    <3>1. \A i \in 1 .. at - 1 : ~ Bad(i)
      BY <1>1 DEF ParsedSoFar
    <3>2. \A i \in 1 .. at' - 1 : i \in 1 .. at - 1 \/ i = at
      BY <1>2
    <3> QED BY <1>4, <3>1, <3>2, SameArgs
  <2> QED BY <2>1, <2>2 DEF ParsedSoFar
<1>7. DoneSoFar'
  <2>1. \A f \in File : files[f] = Old
    BY <1>1, <1>3 DEF DoneSoFar, ContentsAfter
  <2>2. \A f \in File : files'[f] = ContentsAfter(outputs, written, f)'
    BY <1>3, <1>4, <2>1 DEF ContentsAfter
  <2>3. Len(roots') = 0 /\ roots' = << >>
    BY <1>3, <1>4
  <2> QED BY <1>3, <1>4, <2>2, <2>3 DEF DoneSoFar
<1>8. ExitExact' /\ OutputsExact'
  BY <1>1 DEF ExitExact, OutputsExact, Running
<1> QED BY <1>5, <1>6, <1>7, <1>8 DEF IInv

LEMMA InputFormatPreserves == ASSUME IInv, InputFormat PROVE IInv'
<1>1. TypeOK /\ ParsedSoFar /\ Parsing /\ NextArg /\ Arg.opt \in InputFormats
  BY DEF IInv, InputFormat, Parsing
<1>2. at \in 1 .. Len(args)
  BY <1>1, ArgumentPositions DEF Parsing
<1>3. ~ Bad(at)
  BY <1>1 DEF Bad, Arg, InputFormats
<1>4. /\ input_format' = InputFormatOf(at + 1) /\ output_format' = FormatOf(at + 1)
      /\ options' = OptionsGiven(at + 1)
      /\ inputs' = NamedInputs(at + 1) /\ outputs' = NamedOutputs(at + 1)
  BY <1>1, <1>2, InputFormatNext, FormatNext, OptionsNext, InputsNext, OutputsNext
     DEF InputFormat, ParsedSoFar, Arg, InputFormats
<1> QED BY <1>1, <1>3, <1>4, ArgumentPreserves DEF InputFormat, TypeOK

LEMMA InputPreserves == ASSUME IInv, Input PROVE IInv'
<1>1. TypeOK /\ ParsedSoFar /\ Parsing /\ NextArg /\ Arg.opt = "input"
  BY DEF IInv, Input, Parsing
<1>2. at \in 1 .. Len(args) /\ Arg \in Argument
  BY <1>1, ArgumentPositions DEF Parsing, Arg
<1>3. ~ Bad(at)
  BY <1>1 DEF Bad, Arg
<1>4. /\ input_format' = InputFormatOf(at + 1) /\ output_format' = FormatOf(at + 1)
      /\ options' = OptionsGiven(at + 1)
      /\ inputs' = NamedInputs(at + 1) /\ outputs' = NamedOutputs(at + 1)
  BY <1>1, <1>2, InputFormatNext, FormatNext, OptionsNext, InputsNext, OutputsNext
     DEF Input, ParsedSoFar, Arg, InputFormats
<1>5. inputs' \in Seq(Named(InputFormats))
  <2>1. [format |-> input_format, file |-> Arg.file] \in Named(InputFormats)
    BY <1>1, <1>2 DEF TypeOK, Argument, Named
  <2> QED BY <1>1, <2>1, AppendProperties DEF Input, TypeOK
<1> QED BY <1>1, <1>3, <1>4, <1>5, ArgumentPreserves DEF Input, TypeOK

LEMMA ParseCompareOptionsPreserves ==
  ASSUME IInv, ParseCompareOptions, ToSet(Arg.list) \subseteq CompareOptions \cup {"all"}
  PROVE  IInv'
<1>1. TypeOK /\ ParsedSoFar /\ Parsing /\ NextArg /\ Arg.opt = "compare-options"
  BY DEF IInv, ParseCompareOptions, Parsing
<1>2. at \in 1 .. Len(args)
  BY <1>1, ArgumentPositions DEF Parsing
<1>3. ~ Bad(at)
  BY <1>1 DEF Bad, Arg, ToSet
<1>4. /\ input_format' = InputFormatOf(at + 1) /\ output_format' = FormatOf(at + 1)
      /\ options' = OptionsGiven(at + 1)
      /\ inputs' = NamedInputs(at + 1) /\ outputs' = NamedOutputs(at + 1)
  BY <1>1, <1>2, InputFormatNext, FormatNext, OptionsNext, InputsNext, OutputsNext
     DEF ParseCompareOptions, ParsedSoFar, Arg, InputFormats
<1>5. options' \subseteq CompareOptions
  <2>1. \A o \in CompareOptions \cup {"all"} : Enabled(o) \subseteq CompareOptions
    BY DEF Enabled
  <2> QED BY <1>1, <2>1 DEF ParseCompareOptions, TypeOK
<1> QED BY <1>1, <1>3, <1>4, <1>5, ArgumentPreserves DEF ParseCompareOptions, TypeOK

LEMMA FormatPreserves == ASSUME IInv, Format, Arg.format \in OutputFormats PROVE IInv'
<1>1. TypeOK /\ ParsedSoFar /\ Parsing /\ NextArg /\ Arg.opt = "format"
  BY DEF IInv, Format, Parsing
<1>2. at \in 1 .. Len(args)
  BY <1>1, ArgumentPositions DEF Parsing
<1>3. ~ Bad(at)
  BY <1>1 DEF Bad, Arg
<1>4. /\ input_format' = InputFormatOf(at + 1) /\ output_format' = FormatOf(at + 1)
      /\ options' = OptionsGiven(at + 1)
      /\ inputs' = NamedInputs(at + 1) /\ outputs' = NamedOutputs(at + 1)
  BY <1>1, <1>2, InputFormatNext, FormatNext, OptionsNext, InputsNext, OutputsNext
     DEF Format, ParsedSoFar, Arg, InputFormats
<1> QED BY <1>1, <1>3, <1>4, ArgumentPreserves DEF Format, TypeOK

LEMMA OutputPreserves == ASSUME IInv, Output PROVE IInv'
<1>1. TypeOK /\ ParsedSoFar /\ Parsing /\ NextArg /\ Arg.opt = "output"
  BY DEF IInv, Output, Parsing
<1>2. at \in 1 .. Len(args) /\ Arg \in Argument
  BY <1>1, ArgumentPositions DEF Parsing, Arg
<1>3. ~ Bad(at)
  BY <1>1 DEF Bad, Arg
<1>4. /\ input_format' = InputFormatOf(at + 1) /\ output_format' = FormatOf(at + 1)
      /\ options' = OptionsGiven(at + 1)
      /\ inputs' = NamedInputs(at + 1) /\ outputs' = NamedOutputs(at + 1)
  BY <1>1, <1>2, InputFormatNext, FormatNext, OptionsNext, InputsNext, OutputsNext
     DEF Output, ParsedSoFar, Arg, InputFormats
<1>5. outputs' \in Seq(Named(OutputFormats))
  <2>1. [format |-> output_format, file |-> Arg.file] \in Named(OutputFormats)
    BY <1>1, <1>2 DEF TypeOK, Argument, Named
  <2> QED BY <1>1, <2>1, AppendProperties DEF Output, TypeOK
<1> QED BY <1>1, <1>3, <1>4, <1>5, ArgumentPreserves DEF Output, TypeOK

--------------------------------------------------------------------------------
(***************************************************************************)
(* The program gives up.                                                   *)
(***************************************************************************)

\* Giving up is right if something is bad, and if nothing has been written or nothing
\* is bad but an output.
LEMMA UsagePreserves ==
  ASSUME IInv, exit = Running, Usage,
         Malformed \/ (Files("input") \cup Files("output")) \cap broken # {},
         written # 0 => ~ Malformed /\ Files("input") \cap broken = {}
  PROVE  IInv'
<1>1. TypeOK /\ ParsedSoFar /\ DoneSoFar
  BY DEF IInv
<1>2. /\ exit' = 1 /\ args' = args /\ at' = at /\ broken' = broken /\ written' = written /\ files' = files
      /\ input_format' = input_format /\ output_format' = output_format /\ options' = options
      /\ inputs' = inputs /\ outputs' = outputs /\ roots' = roots /\ verdict' = verdict
  BY DEF Usage, command
<1>3. TypeOK'
  BY <1>1, <1>2, SameArgs DEF TypeOK
<1>4. ExitExact'
  <2>1. Malformed' \/ (Files("input")' \cup Files("output")') \cap broken' # {}
    BY <1>2, SameArgs
  <2> QED BY <1>2, <2>1 DEF ExitExact
<1>5. OutputsExact'
  <2>1. written = 0 => \A f \in File : files[f] = Old
    BY <1>1 DEF DoneSoFar, ContentsAfter
  <2>2. Malformed' \/ Files("input")' \cap broken' # {} => \A f \in File : files'[f] = Old
    BY <1>2, <2>1, SameArgs
  <2> QED BY <1>2, <2>2 DEF OutputsExact
<1> QED BY <1>2, <1>3, <1>4, <1>5 DEF IInv, Running

\* A bad argument, or the wrong number of inputs.
LEMMA BadArgumentPreserves == ASSUME IInv, Parsing, Usage, Bad(at) PROVE IInv'
<1>1. TypeOK /\ DoneSoFar /\ exit = Running
  BY DEF IInv, Parsing
<1>2. at \in DOMAIN args /\ at # End
  BY <1>1, ArgumentPositions DEF Parsing
<1>3. Malformed /\ written = 0
  BY <1>1, <1>2 DEF Malformed, DoneSoFar
<1> QED BY <1>1, <1>3, UsagePreserves

LEMMA NotTwoInputsPreserves == ASSUME IInv, NotTwoInputs PROVE IInv'
<1>1. TypeOK /\ ParsedSoFar /\ DoneSoFar /\ exit = Running /\ Usage /\ Len(inputs) # 2
  BY DEF IInv, NotTwoInputs
<1>2. at = End
  BY <1>1, ArgumentPositions DEF NotTwoInputs
<1>3. Malformed
  BY <1>1, <1>2, InputsNamed DEF Malformed, ParsedSoFar
<1>4. written = 0
  <2>1. Len(roots) = 2 => roots # << >>
    OBVIOUS
  <2> QED BY <1>1, <2>1 DEF DoneSoFar
<1> QED BY <1>1, <1>3, <1>4, UsagePreserves

\* Nothing is wrong with the arguments of a program that runs, and it knows their files.
LEMMA RunFacts ==
  ASSUME IInv, Run
  PROVE  /\ TypeOK /\ ParsedSoFar /\ DoneSoFar /\ exit = Running /\ at = End /\ Len(inputs) = 2
         /\ ~ Malformed
         /\ inputs = NamedInputs(End) /\ outputs = NamedOutputs(End) /\ options = OptionsGiven(End)
         /\ Files("input") = {inputs[k].file : k \in 1 .. Len(inputs)}
         /\ Files("output") = {outputs[k].file : k \in 1 .. Len(outputs)}
<1>1. TypeOK /\ ParsedSoFar /\ DoneSoFar /\ exit = Running /\ Len(inputs) = 2
  BY DEF IInv, Run
<1>2. at = End
  BY <1>1, ArgumentPositions DEF Run
<1>3. inputs = NamedInputs(End) /\ outputs = NamedOutputs(End) /\ options = OptionsGiven(End)
  BY <1>1, <1>2 DEF ParsedSoFar
<1>4. \A i \in DOMAIN args : ~ Bad(i)
  BY <1>1, <1>2, ArgumentPositions DEF ParsedSoFar
<1>5. ~ Malformed
  BY <1>1, <1>3, <1>4, InputsNamed DEF Malformed
<1> QED BY <1>1, <1>2, <1>3, <1>5, InputsNamed, OutputsNamed

--------------------------------------------------------------------------------
(***************************************************************************)
(* Reading, comparing and writing.                                         *)
(***************************************************************************)

\* What the arguments have done is not undone.
LEMMA SameCommand ==
  ASSUME UNCHANGED command, ParsedSoFar PROVE ParsedSoFar'
<1>1. /\ args' = args /\ at' = at
      /\ input_format' = input_format /\ output_format' = output_format /\ options' = options
      /\ inputs' = inputs /\ outputs' = outputs
  BY DEF command
<1> QED BY <1>1, SameArgs DEF ParsedSoFar

\* A step of a program that goes on running.
LEMMA RunPreserves ==
  ASSUME IInv, Run, UNCHANGED <<command, exit>>, TypeOK', DoneSoFar'
  PROVE  IInv'
<1>1. exit' = Running /\ ParsedSoFar'
  BY RunFacts, SameCommand DEF command
<1> QED BY <1>1 DEF IInv, ExitExact, OutputsExact, Running

LEMMA ReadPreserves == ASSUME IInv, Read PROVE IInv'
<1>1. /\ Run /\ Len(roots) < 2
      /\ TypeOK /\ DoneSoFar /\ exit = Running /\ at = End /\ Len(inputs) = 2
      /\ Files("input") = {inputs[k].file : k \in 1 .. Len(inputs)}
  BY RunFacts DEF Read
<1> DEFINE n == Len(roots)
           input == inputs[n + 1]
<1>2. n \in Nat /\ n + 1 \in 1 .. 2 /\ input \in Named(InputFormats)
  <2>1. n \in Nat
    BY <1>1, LenProperties DEF TypeOK
  <2>2. n + 1 \in 1 .. 2
    BY <1>1, <2>1
  <2> QED BY <1>1, <2>1, <2>2, ElementOfSeq DEF TypeOK
<1>3. verdict = "none" /\ written = 0
  BY <1>1 DEF DoneSoFar
<1>4. CASE input.file \in broken
  <2>1. Usage
    BY <1>4 DEF Read, Die
  <2>2. input.file \in Files("input")
    BY <1>1, <1>2
  <2> QED BY <1>1, <1>3, <1>4, <2>1, <2>2, UsagePreserves
<1>5. CASE input.file \notin broken
  <2>1. /\ roots' = Append(roots, input)
        /\ UNCHANGED <<command, verdict, written, files, exit>>
    BY <1>5 DEF Read
  <2> HIDE DEF input
  <2>2. /\ roots' \in Seq(Named(InputFormats)) /\ Len(roots') = n + 1 /\ roots'[n + 1] = input
        /\ \A k \in 1 .. n : roots'[k] = roots[k]
    BY <1>1, <1>2, <2>1, AppendProperties DEF TypeOK
  <2>3. /\ args' = args /\ at' = at /\ End' = End /\ broken' = broken
        /\ inputs' = inputs /\ outputs' = outputs
        /\ input_format' = input_format /\ output_format' = output_format /\ options' = options
        /\ verdict' = verdict /\ written' = written /\ files' = files /\ exit' = exit
    BY <2>1, SameArgs DEF command
  <2>4. TypeOK'
    BY <1>1, <2>2, <2>3 DEF TypeOK
  <2>5. \A k \in 1 .. Len(roots') : roots'[k] = inputs[k] /\ inputs[k].file \notin broken
    <3> SUFFICES ASSUME NEW k \in 1 .. Len(roots')
                 PROVE  roots'[k] = inputs[k] /\ inputs[k].file \notin broken
      OBVIOUS
    <3>1. CASE k \in 1 .. n
      BY <1>1, <2>2, <3>1 DEF DoneSoFar
    <3>2. CASE k = n + 1
      BY <1>5, <2>2, <3>2 DEF input
    <3> QED BY <1>2, <2>2, <3>1, <3>2
  <2>6. \A f \in File : files'[f] = ContentsAfter(outputs, written, f)'
    BY ZenonT(40), <1>1, <2>3 DEF DoneSoFar, ContentsAfter
  <2>7. DoneSoFar'
    BY <1>1, <1>2, <1>3, <2>2, <2>3, <2>5, <2>6 DEF DoneSoFar
  <2> QED BY <1>1, <2>3, <2>4, <2>7, RunPreserves DEF command
<1> QED BY <1>4, <1>5

LEMMA ComparePreserves == ASSUME IInv, Compare PROVE IInv'
<1>1. /\ Run /\ Len(roots) = 2 /\ verdict = "none"
      /\ TypeOK /\ DoneSoFar /\ exit = Running /\ at = End
  BY RunFacts DEF Compare
<1>2. written = 0
  BY <1>1 DEF DoneSoFar
<1>3. /\ args' = args /\ at' = at /\ End' = End /\ broken' = broken
      /\ inputs' = inputs /\ outputs' = outputs
      /\ input_format' = input_format /\ output_format' = output_format /\ options' = options
      /\ roots' = roots /\ written' = written /\ files' = files /\ exit' = exit
      /\ verdict' \in {"equal", "different"}
  BY SameArgs DEF Compare, command
<1>4. TypeOK'
  BY <1>1, <1>3 DEF TypeOK
<1>5. \A f \in File : files'[f] = ContentsAfter(outputs, written, f)'
  <2>1. \A f \in File : files[f] = Old
    BY <1>1, <1>2 DEF DoneSoFar, ContentsAfter
  <2> QED BY <1>2, <1>3, <2>1 DEF ContentsAfter
<1>6. DoneSoFar'
  BY <1>1, <1>2, <1>3, <1>5 DEF DoneSoFar
<1> QED BY <1>1, <1>3, <1>4, <1>6, RunPreserves DEF command

\* One output more: its file holds its report, after the others on the standard output.
LEMMA ContentsNext ==
  ASSUME NEW all \in Seq(Named(OutputFormats)), NEW n \in Nat, n + 1 <= Len(all), NEW f,
         NEW before, before = ContentsAfter(all, n, f)
  PROVE  ContentsAfter(all, n + 1, f) =
           IF all[n + 1].file # f THEN before
           ELSE IF verdict = "equal" THEN << >>
           ELSE IF f # Stdout \/ before = Old THEN <<all[n + 1].format>>
           ELSE Append(before, all[n + 1].format)
<1> DEFINE K(m) == {k \in 1 .. m : all[k].file = f}
           formats == [k \in DOMAIN all |-> all[k].format]
<1>1. /\ n + 1 \in Nat /\ DOMAIN all = 1 .. Len(all) /\ Len(all) \in Nat
      /\ \A k \in 1 .. Len(all) : all[k].format \in OutputFormats
  <2>1. \A k \in 1 .. Len(all) : all[k] \in Named(OutputFormats)
    BY ElementOfSeq
  <2> QED BY <2>1, LenProperties DEF Named
<1>2. /\ K(n) \in SUBSET (1 .. n) /\ K(n) \in SUBSET Nat /\ \A k \in K(n) : k < n + 1
      /\ all[n + 1].file = f => K(n + 1) = K(n) \cup {n + 1}
      /\ all[n + 1].file # f => K(n + 1) = K(n)
  OBVIOUS
<1>3. \A m \in {n, n + 1} :
        ContentsAfter(all, m, f) = IF K(m) = {} THEN Old
                                   ELSE IF verdict = "equal" THEN << >>
                                   ELSE IF f = Stdout THEN ValuesAt(formats, K(m))
                                   ELSE <<all[Max(K(m))].format>>
  BY DEF ContentsAfter
<1>4. formats[n + 1] = all[n + 1].format /\ all[n + 1].format \in OutputFormats
  BY <1>1
<1>5. \A k \in K(n) : formats[k] \in OutputFormats
  BY <1>1
<1> HIDE DEF K, formats
<1>6. ValuesAt(formats, K(n) \cup {n + 1}) = Append(ValuesAt(formats, K(n)), formats[n + 1])
  BY <1>2, ValuesNext
<1>7. Max(K(n) \cup {n + 1}) = n + 1
  BY <1>1, <1>2, MaxNext
<1>8. ValuesAt(formats, {}) = << >>
  BY ValuesNone
<1>9. ValuesAt(formats, K(n)) # Old
  BY ZenonT(40), <1>2, <1>5, ValuesType
<1>10. CASE all[n + 1].file # f
  BY <1>2, <1>3, <1>10
<1>11. CASE all[n + 1].file = f
  <2>1. K(n + 1) = K(n) \cup {n + 1} /\ K(n + 1) # {}
    BY <1>2, <1>11
  <2>2. CASE verdict = "equal"
    BY <1>3, <1>11, <2>1, <2>2
  <2>3. CASE verdict # "equal" /\ f # Stdout
    BY <1>3, <1>7, <1>11, <2>1, <2>3
  <2>4. CASE verdict # "equal" /\ f = Stdout
    <3>1. ContentsAfter(all, n + 1, f) = Append(ValuesAt(formats, K(n)), all[n + 1].format)
      BY <1>3, <1>4, <1>6, <2>1, <2>4
    <3>2. CASE K(n) = {}
      <4>1. before = Old
        BY <1>3, <3>2
      <4>2. Append(<< >>, all[n + 1].format) = <<all[n + 1].format>>
        OBVIOUS
      <4> QED BY <1>8, <1>11, <2>4, <3>1, <3>2, <4>1, <4>2
    <3>3. CASE K(n) # {}
      <4>1. before = ValuesAt(formats, K(n)) /\ before # Old
        BY <1>3, <1>9, <2>4, <3>3
      <4> QED BY <1>11, <2>4, <3>1, <4>1
    <3> QED BY <3>2, <3>3
  <2> QED BY <2>2, <2>3, <2>4
<1> QED BY <1>10, <1>11

LEMMA WritePreserves == ASSUME IInv, Write PROVE IInv'
<1>1. /\ Run /\ verdict # "none" /\ written < Len(outputs)
      /\ TypeOK /\ DoneSoFar /\ exit = Running /\ at = End /\ Len(inputs) = 2 /\ ~ Malformed
      /\ Files("input") = {inputs[k].file : k \in 1 .. Len(inputs)}
      /\ Files("output") = {outputs[k].file : k \in 1 .. Len(outputs)}
  BY RunFacts DEF Write
<1> DEFINE n == written
           output == outputs[n + 1]
<1>2. /\ n \in Nat /\ n + 1 \in 1 .. Len(outputs) /\ Len(outputs) \in Nat
      /\ output \in Named(OutputFormats)
  <2>1. n \in Nat /\ n + 1 \in 1 .. Len(outputs) /\ Len(outputs) \in Nat
    BY <1>1, LenProperties DEF TypeOK
  <2> QED BY <1>1, <2>1, ElementOfSeq DEF TypeOK
<1>3. output.file \in Files("output") /\ output.file \in File /\ output.format \in OutputFormats
  BY <1>1, <1>2 DEF Named
<1>4. CASE output.file \in broken
  <2>1. Usage
    BY <1>4 DEF Write, Die
  <2>2. Len(roots) = 2 /\ \A k \in 1 .. 2 : inputs[k].file \notin broken
    BY <1>1 DEF DoneSoFar
  <2>3. Files("input") \cap broken = {}
    BY <1>1, <2>2
  <2> QED BY <1>1, <1>3, <1>4, <2>1, <2>3, UsagePreserves
<1>5. CASE output.file \notin broken
  <2>1. /\ files' = [files EXCEPT ![output.file] = Reported(output)]
        /\ written' = n + 1
        /\ UNCHANGED <<command, roots, verdict, exit>>
    BY <1>5 DEF Write
  <2> HIDE DEF output
  <2>2. /\ args' = args /\ at' = at /\ End' = End /\ broken' = broken
        /\ inputs' = inputs /\ outputs' = outputs
        /\ input_format' = input_format /\ output_format' = output_format /\ options' = options
        /\ roots' = roots /\ verdict' = verdict /\ exit' = exit
    BY <2>1, SameArgs DEF command
  <2>3. \A f \in File : files[f] \in Seq(OutputFormats) \cup {Old}
    BY <1>1 DEF TypeOK
  <2>4. Opened(output.file) \in Seq(OutputFormats)
    <3>1. << >> \in Seq(OutputFormats)
      BY EmptySeq
    <3> QED BY <1>3, <2>3, <3>1 DEF Opened
  <2>5. Reported(output) \in Seq(OutputFormats)
    BY <1>3, <2>4, AppendProperties DEF Reported
  <2>6. files' \in [File -> Seq(OutputFormats) \cup {Old}]
    BY <1>1, <2>1, <2>5 DEF TypeOK
  <2>7. TypeOK'
    BY <1>1, <1>2, <2>1, <2>2, <2>6 DEF TypeOK
  <2>8. \A k \in 1 .. n + 1 : outputs[k].file \notin broken
    <3>1. \A k \in 1 .. n + 1 : k \in 1 .. n \/ k = n + 1
      BY <1>2
    <3> QED BY <1>1, <1>5, <3>1 DEF DoneSoFar, output
  <2>9. ASSUME NEW f \in File PROVE files'[f] = ContentsAfter(outputs, n + 1, f)
    <3>1. files[f] = ContentsAfter(outputs, n, f)
      BY <1>1 DEF DoneSoFar
    <3> DEFINE before == files[f]
    <3>2. outputs \in Seq(Named(OutputFormats)) /\ n + 1 <= Len(outputs)
      BY <1>1, <1>2 DEF TypeOK
    <3>3. ContentsAfter(outputs, n + 1, f) =
            IF output.file # f THEN files[f]
            ELSE IF verdict = "equal" THEN << >>
            ELSE IF f # Stdout \/ files[f] = Old THEN <<output.format>>
            ELSE Append(files[f], output.format)
      <4> HIDE DEF before
      <4>1. before = ContentsAfter(outputs, n, f)
        BY <3>1 DEF before
      <4>2. ContentsAfter(outputs, n + 1, f) =
              IF outputs[n + 1].file # f THEN before
              ELSE IF verdict = "equal" THEN << >>
              ELSE IF f # Stdout \/ before = Old THEN <<outputs[n + 1].format>>
              ELSE Append(before, outputs[n + 1].format)
        BY <1>2, <3>2, <4>1, ContentsNext
      <4> QED BY <4>2 DEF before, output
    <3>4. files'[f] = IF f = output.file THEN Reported(output) ELSE files[f]
      BY <1>1, <2>1 DEF TypeOK
    <3>5. CASE f # output.file
      BY <3>3, <3>4, <3>5
    <3>6. CASE f = output.file /\ verdict = "equal"
      <4>1. Opened(f) = << >>
        BY <3>1, <3>6 DEF Opened, ContentsAfter
      <4> QED BY <3>3, <3>4, <3>6, <4>1 DEF Reported
    <3>7. CASE f = output.file /\ verdict # "equal"
      <4>1. verdict = "different"
        BY <1>1, <3>7 DEF TypeOK
      <4>2. Opened(f) = IF f # Stdout \/ files[f] = Old THEN << >> ELSE files[f]
        BY DEF Opened
      <4>3. Append(<< >>, output.format) = <<output.format>>
        OBVIOUS
      <4> QED BY <3>3, <3>4, <3>7, <4>1, <4>2, <4>3 DEF Reported
    <3> QED BY <3>5, <3>6, <3>7
  <2>10. \A f \in File : ContentsAfter(outputs, written, f)' = ContentsAfter(outputs, n + 1, f)
    BY <2>1, <2>2 DEF ContentsAfter
  <2>11. DoneSoFar'
    BY <1>1, <1>2, <2>1, <2>2, <2>8, <2>9, <2>10 DEF DoneSoFar
  <2> QED BY <1>1, <2>1, <2>7, <2>11, RunPreserves
<1> QED BY <1>4, <1>5

\* All has been done as asked.
LEMMA ReturnPreserves == ASSUME IInv, Return PROVE IInv'
<1>1. /\ Run /\ verdict # "none" /\ written = Len(outputs) /\ exit' = ExitCode
      /\ TypeOK /\ DoneSoFar /\ exit = Running /\ at = End /\ Len(inputs) = 2 /\ ~ Malformed
      /\ inputs = NamedInputs(End) /\ outputs = NamedOutputs(End) /\ options = OptionsGiven(End)
      /\ Files("input") = {inputs[k].file : k \in 1 .. Len(inputs)}
      /\ Files("output") = {outputs[k].file : k \in 1 .. Len(outputs)}
  BY RunFacts DEF Return
<1>2. /\ args' = args /\ at' = at /\ broken' = broken /\ inputs' = inputs /\ outputs' = outputs
      /\ input_format' = input_format /\ output_format' = output_format /\ options' = options
      /\ roots' = roots /\ verdict' = verdict /\ written' = written /\ files' = files
  BY DEF Return, command
<1>3. exit' = (IF verdict = "equal" THEN 0 ELSE 4) /\ verdict \in {"equal", "different"}
  BY <1>1 DEF ExitCode, kAbiChange, TypeOK
<1>4. TypeOK'
  BY <1>1, <1>2, <1>3, SameArgs DEF TypeOK, kAbiChange
<1>5. roots = NamedInputs(End)
  <2>1. Len(roots) = 2 /\ \A k \in 1 .. 2 : roots[k] = inputs[k]
    BY <1>1 DEF DoneSoFar
  <2>2. roots \in Seq(Named(InputFormats)) /\ inputs \in Seq(Named(InputFormats))
    BY <1>1 DEF TypeOK
  <2>3. roots = inputs
    BY <1>1, <2>1, <2>2, SeqEqual
  <2> QED BY <1>1, <2>3
<1>6. (Files("input") \cup Files("output")) \cap broken = {}
  <2>1. \A k \in 1 .. Len(inputs) : inputs[k].file \notin broken
    BY <1>1 DEF DoneSoFar
  <2>2. \A k \in 1 .. Len(outputs) : outputs[k].file \notin broken
    BY <1>1 DEF DoneSoFar
  <2> QED BY <1>1, <2>1, <2>2
<1>7. ExitExact'
  <2>1. ~ Malformed' /\ (Files("input")' \cup Files("output")') \cap broken' = {}
    BY <1>1, <1>2, <1>6, SameArgs
  <2>2. (NamedInputs(End))' = NamedInputs(End) /\ (OptionsGiven(End))' = OptionsGiven(End)
    BY <1>2, SameArgs
  <2>3. roots' = (NamedInputs(End))' /\ options' = (OptionsGiven(End))'
    BY <1>1, <1>2, <1>5, <2>2
  <2> QED BY <1>2, <1>3, <2>1, <2>3 DEF ExitExact
<1>8. OutputsExact'
  <2>1. \A f \in File : files[f] = Expected(f)
    BY <1>1 DEF DoneSoFar, Expected
  <2>2. (NamedOutputs(End))' = NamedOutputs(End)
    BY <1>2, SameArgs
  <2>3. \A f \in File : Expected(f)' = Expected(f)
    BY <1>2, <2>2 DEF Expected, ContentsAfter
  <2> QED BY <1>2, <1>3, <2>1, <2>3 DEF OutputsExact
<1> QED BY <1>3, <1>4, <1>7, <1>8 DEF IInv, Running

--------------------------------------------------------------------------------
(***************************************************************************)
(* The specification.                                                      *)
(***************************************************************************)

LEMMA InitHolds == ASSUME Init PROVE IInv
<1>1. /\ args \in Seq(Argument) /\ at = 1 /\ input_format = "abi" /\ output_format = "plain"
      /\ options = {} /\ inputs = << >> /\ outputs = << >> /\ broken \subseteq File
      /\ roots = << >> /\ verdict = "none" /\ written = 0 /\ files = [f \in File |-> Old]
      /\ exit = Running
  BY DEF Init
<1>2. TypeOK
  <2>1. at \in 1 .. End
    BY <1>1, LenProperties DEF End
  <2>2. Len(outputs) = 0
    BY <1>1
  <2> QED BY <1>1, <2>1, <2>2, EmptySeq DEF TypeOK, InputFormats, OutputFormats
<1>3. ParsedSoFar
  BY <1>1, <1>2, NothingGiven DEF ParsedSoFar
<1>4. DoneSoFar
  BY <1>1 DEF DoneSoFar, ContentsAfter
<1> QED BY <1>1, <1>2, <1>3, <1>4 DEF IInv, ExitExact, OutputsExact, Running

LEMMA SameHolds == ASSUME IInv, UNCHANGED vars PROVE IInv'
<1>1. /\ args' = args /\ at' = at /\ broken' = broken /\ inputs' = inputs /\ outputs' = outputs
      /\ input_format' = input_format /\ output_format' = output_format /\ options' = options
      /\ roots' = roots /\ verdict' = verdict /\ written' = written /\ files' = files
      /\ exit' = exit
  BY DEF vars, command
<1>2. TypeOK'
  BY <1>1, SameArgs DEF IInv, TypeOK
<1>3. \A f : ContentsAfter(outputs, written, f)' = ContentsAfter(outputs, written, f)
  BY <1>1 DEF ContentsAfter
<1>4. DoneSoFar => DoneSoFar'
  BY <1>1, <1>3, SameArgs DEF DoneSoFar
<1>5. ParsedSoFar => ParsedSoFar'
  BY SameCommand DEF vars
<1>6. (NamedInputs(End))' = NamedInputs(End) /\ (OptionsGiven(End))' = OptionsGiven(End)
      /\ (NamedOutputs(End))' = NamedOutputs(End)
  BY <1>1, SameArgs
<1>7. \A f : Expected(f)' = Expected(f)
  BY <1>1, <1>6 DEF Expected, ContentsAfter
<1>8. ExitExact'
  BY <1>1, <1>6, SameArgs DEF IInv, ExitExact
<1>9. OutputsExact'
  BY <1>1, <1>7, SameArgs DEF IInv, OutputsExact
<1> QED BY <1>1, <1>2, <1>4, <1>5, <1>8, <1>9 DEF IInv

LEMMA StepPreserves == ASSUME IInv, [Next]_vars PROVE IInv'
<1>1. CASE UNCHANGED vars
  BY <1>1, SameHolds
<1>2. CASE InputFormat
  BY <1>2, InputFormatPreserves
<1>3. CASE Input
  BY <1>3, InputPreserves
<1>4. CASE ParseCompareOptions
  <2>1. CASE ToSet(Arg.list) \subseteq CompareOptions \cup {"all"}
    BY <1>4, <2>1, ParseCompareOptionsPreserves
  <2>2. CASE ~ (ToSet(Arg.list) \subseteq CompareOptions \cup {"all"})
    <3>1. Parsing /\ Usage /\ Arg.opt = "compare-options"
      BY <1>4, <2>2 DEF ParseCompareOptions
    <3>2. Bad(at)
      BY <2>2, <3>1 DEF Bad, Arg, ToSet
    <3> QED BY <3>1, <3>2, BadArgumentPreserves
  <2> QED BY <2>1, <2>2
<1>5. CASE Format
  <2>1. CASE Arg.format \in OutputFormats
    BY <1>5, <2>1, FormatPreserves
  <2>2. CASE Arg.format \notin OutputFormats
    <3>1. Parsing /\ Usage /\ Bad(at)
      BY <1>5, <2>2 DEF Format, Bad, Arg
    <3> QED BY <3>1, BadArgumentPreserves
  <2> QED BY <2>1, <2>2
<1>6. CASE Output
  BY <1>6, OutputPreserves
<1>7. CASE Unknown
  <2>1. Parsing /\ Usage /\ Bad(at)
    BY <1>7 DEF Unknown, Bad, Arg
  <2> QED BY <2>1, BadArgumentPreserves
<1>8. CASE NotTwoInputs
  BY <1>8, NotTwoInputsPreserves
<1>9. CASE Read
  BY <1>9, ReadPreserves
<1>10. CASE Compare
  BY <1>10, ComparePreserves
<1>11. CASE Write
  BY <1>11, WritePreserves
<1>12. CASE Return
  BY <1>12, ReturnPreserves
<1>13. CASE Done
  BY <1>13, SameHolds DEF Done
<1> QED BY <1>1, <1>2, <1>3, <1>4, <1>5, <1>6, <1>7, <1>8, <1>9, <1>10, <1>11, <1>12, <1>13 DEF Next

\* For every set of command lines, however long, and every set of files that cannot be
\* opened: the arguments up to the next have the effect they have wherever they stand,
\* and what has been read, compared and written is what they ask for.
THEOREM Invariance == Spec => []IInv
<1>1. Init => IInv
  BY InitHolds
<1>2. IInv /\ [Next]_vars => IInv'
  BY StepPreserves
<1> QED BY <1>1, <1>2, PTL DEF Spec

\* The exit status says what has happened, for every command line.
THEOREM ExitTheorem == Spec => []ExitExact
<1>1. IInv => ExitExact
  BY DEF IInv
<1> QED BY <1>1, Invariance, PTL

\* The files hold the reports the command line asks for, or what they held before.
THEOREM OutputsTheorem == Spec => []OutputsExact
<1>1. IInv => OutputsExact
  BY DEF IInv
<1> QED BY <1>1, Invariance, PTL
================================================================================
