--------------------------------- MODULE StgDiff ---------------------------------
(***************************************************************************)
(* stgdiff.cc: the command line, the two inputs, the comparison and the    *)
(* reports.  Arguments take effect in the order they are given: the input  *)
(* format and the output format in force when a file is named are the      *)
(* file's, and stay in force.  The comparison itself is Compare's; here it *)
(* has one of the verdicts Compare's root can have, a difference coming    *)
(* with a comparison to report and an equality without.                    *)
(*                                                                         *)
(* A file holds the reports written to it since it was last opened.  The   *)
(* standard output, "-", is a terminal or a pipe, which keep those of      *)
(* before; where it is redirected to a file, it is a file like another.    *)
(***************************************************************************)
EXTENDS Naturals, SequencesExt, FiniteSetsExt, Positions

CONSTANTS Commands,       \* the command lines: sequences of [opt, file, format, list]
          File, Stdout,   \* the files named, and which of them is no file but a stream
          Old             \* what a file held before

InputFormats   == {"abi", "btf", "elf"}
OutputFormats  == {"plain", "flat", "small", "short", "viz"}
CompareOptions == {"ignore_symbol_type_presence_changes", "ignore_type_declaration_status_changes"}

\* A command line is what getopt_long makes of it.
Options  == InputFormats \cup {"input", "compare-options", "format", "output", "unknown"}
Argument == [opt : Options, file : File, format : STRING, list : Seq(STRING)]

ASSUME CommandsAssumption == Commands \subseteq Seq(Argument)
ASSUME OldAssumption == Old \notin Seq(OutputFormats)

\* No exit status yet; a status is less.
Running == 256

VARIABLES args, at,          \* argv, and the next argument
          input_format, output_format, options,
          inputs, outputs,   \* the files named so far, with their formats
          broken,            \* the files that cannot be read or written
          roots,             \* the inputs that have been read
          verdict,           \* "none", "equal" or "different"
          written,           \* how many outputs have been written
          files, exit

command == <<args, at, input_format, output_format, options, inputs, outputs, broken>>
vars == <<command, roots, verdict, written, files, exit>>

Init ==
  /\ args \in Commands
  /\ at = 1
  /\ input_format = "abi" /\ output_format = "plain" /\ options = {}
  /\ inputs = << >> /\ outputs = << >>
  /\ broken \in SUBSET File
  /\ roots = << >>
  /\ verdict = "none"
  /\ written = 0
  /\ files = [f \in File |-> Old]
  /\ exit = Running

Arg == args[at]
Parsing == exit = Running /\ at <= Len(args)
Run == exit = Running /\ at > Len(args) /\ Len(inputs) = 2

Usage == exit' = 1 /\ UNCHANGED <<command, roots, verdict, written, files>>

NextArg == at' = at + 1 /\ UNCHANGED <<args, broken, roots, verdict, written, files, exit>>

InputFormat ==
  /\ Parsing /\ Arg.opt \in InputFormats
  /\ input_format' = Arg.opt
  /\ NextArg /\ UNCHANGED <<output_format, options, inputs, outputs>>

Input ==
  /\ Parsing /\ Arg.opt = "input"
  /\ inputs' = Append(inputs, [format |-> input_format, file |-> Arg.file])
  /\ NextArg /\ UNCHANGED <<input_format, output_format, options, outputs>>

\* Each compare option of a list adds to those of before.
Enabled(o) == IF o = "all" THEN CompareOptions ELSE {o}

\* Mutant: a list of compare options replaces the one before.
LastCompareOptions ==
  /\ Parsing /\ Arg.opt = "compare-options"
  /\ IF ToSet(Arg.list) \subseteq CompareOptions \cup {"all"}
     THEN /\ options' = UNION {Enabled(o) : o \in ToSet(Arg.list)}
          /\ NextArg /\ UNCHANGED <<input_format, output_format, inputs, outputs>>
     ELSE Usage

ParseCompareOptions ==
  /\ Parsing /\ Arg.opt = "compare-options"
  /\ IF ToSet(Arg.list) \subseteq CompareOptions \cup {"all"}
     THEN /\ options' = options \cup UNION {Enabled(o) : o \in ToSet(Arg.list)}
          /\ NextArg /\ UNCHANGED <<input_format, output_format, inputs, outputs>>
     ELSE Usage

Format ==
  /\ Parsing /\ Arg.opt = "format"
  /\ IF Arg.format \in OutputFormats
     THEN /\ output_format' = Arg.format
          /\ NextArg /\ UNCHANGED <<input_format, options, inputs, outputs>>
     ELSE Usage

\* Mutant: a format is in force for one output only.
OutputOnce ==
  /\ Parsing /\ Arg.opt = "output"
  /\ outputs' = Append(outputs, [format |-> output_format, file |-> Arg.file])
  /\ output_format' = "plain"
  /\ NextArg /\ UNCHANGED <<input_format, options, inputs>>

Output ==
  /\ Parsing /\ Arg.opt = "output"
  /\ outputs' = Append(outputs, [format |-> output_format, file |-> Arg.file])
  /\ NextArg /\ UNCHANGED <<input_format, output_format, options, inputs>>

Unknown == Parsing /\ Arg.opt = "unknown" /\ Usage

NotTwoInputs == exit = Running /\ at > Len(args) /\ Len(inputs) # 2 /\ Usage

\* Die: the exception is caught in main.
Die == Usage

Read ==
  /\ Run /\ Len(roots) < 2
  /\ LET input == inputs[Len(roots) + 1]
     IN  IF input.file \in broken THEN Die
         ELSE /\ roots' = Append(roots, input)
              /\ UNCHANGED <<command, verdict, written, files, exit>>

Compare ==
  /\ Run /\ Len(roots) = 2 /\ verdict = "none"
  /\ verdict' \in {"equal", "different"}
  /\ UNCHANGED <<command, roots, written, files, exit>>

\* Opening a file for output empties it, whatever the verdict.
Opened(f) == IF f # Stdout THEN << >> ELSE IF files[f] = Old THEN << >> ELSE files[f]

Reported(output) ==
  IF verdict = "different" THEN Append(Opened(output.file), output.format)
  ELSE Opened(output.file)

\* Mutant: the state of the output stream is not looked at.
WriteUnchecked ==
  /\ Run /\ verdict # "none" /\ written < Len(outputs)
  /\ LET output == outputs[written + 1]
     IN  files' = IF output.file \in broken THEN files
                  ELSE [files EXCEPT ![output.file] = Reported(output)]
  /\ written' = written + 1
  /\ UNCHANGED <<command, roots, verdict, exit>>

Write ==
  /\ Run /\ verdict # "none" /\ written < Len(outputs)
  /\ LET output == outputs[written + 1]
     IN  IF output.file \in broken THEN Die
         ELSE /\ files' = [files EXCEPT ![output.file] = Reported(output)]
              /\ written' = written + 1
              /\ UNCHANGED <<command, roots, verdict, exit>>

kAbiChange == 4
ExitCode == IF verdict = "equal" THEN 0 ELSE kAbiChange

Return ==
  /\ Run /\ verdict # "none" /\ written = Len(outputs)
  /\ exit' = ExitCode
  /\ UNCHANGED <<command, roots, verdict, written, files>>

Done == exit # Running /\ UNCHANGED vars

Next == \/ InputFormat \/ Input \/ ParseCompareOptions \/ Format \/ Output \/ Unknown
        \/ NotTwoInputs \/ Read \/ Compare \/ Write \/ Return \/ Done

Spec == Init /\ [][Next]_vars

----------------------------------------------------------------------------
(* What the command line asks for, argument by argument.                   *)

End == Len(args) + 1
Given(opt) == {i \in DOMAIN args : args[i].opt = opt}
Earlier(S, i) == {j \in S : j < i}

Bad(i) ==
  \/ args[i].opt = "unknown"
  \/ args[i].opt = "format" /\ args[i].format \notin OutputFormats
  \/ /\ args[i].opt = "compare-options"
     /\ \E k \in DOMAIN args[i].list : args[i].list[k] \notin CompareOptions \cup {"all"}

Malformed == (\E i \in DOMAIN args : Bad(i)) \/ Cardinality(Given("input")) # 2

\* What is in force at argument i: what the last switch before it says.
FormatOf(i) ==
  LET before == Earlier(Given("format"), i)
  IN  IF before = {} THEN "plain" ELSE args[Max(before)].format

InputFormatOf(i) ==
  LET before == Earlier({j \in DOMAIN args : args[j].opt \in InputFormats}, i)
  IN  IF before = {} THEN "abi" ELSE args[Max(before)].opt

OptionsGiven(i) ==
  UNION {UNION {Enabled(o) : o \in ToSet(args[j].list)} : j \in Earlier(Given("compare-options"), i)}

\* The files named before argument i, each with the format in force where it is named.
InputAt == [j \in DOMAIN args |-> [format |-> InputFormatOf(j), file |-> args[j].file]]
OutputAt == [j \in DOMAIN args |-> [format |-> FormatOf(j), file |-> args[j].file]]

NamedInputs(i) == ValuesAt(InputAt, Earlier(Given("input"), i))
NamedOutputs(i) == ValuesAt(OutputAt, Earlier(Given("output"), i))

Files(opt) == {args[i].file : i \in Given(opt)}

\* The exit status says what has happened: 1 if the command line, an input or an
\* output is bad, whatever had been found or written by then; and otherwise 4 if
\* and only if there is a difference between the two files named, in that order,
\* each read in the format in force where it is named and compared with all of
\* the compare options given anywhere.
ExitExact ==
  exit # Running =>
    /\ exit = 1 <=> Malformed \/ (Files("input") \cup Files("output")) \cap broken # {}
    /\ exit = 0 => verdict = "equal"
    /\ exit = 4 => verdict = "different"
    /\ exit \in {0, 4} => roots = NamedInputs(End) /\ options = OptionsGiven(End)

\* What file f holds after the first n of some outputs: the report of the last one
\* it is named for (of all of them if it is the standard output), and none if there
\* is no difference.
ContentsAfter(all, n, f) ==
  LET named == {k \in 1 .. n : all[k].file = f}
  IN  IF named = {} THEN Old
      ELSE IF verdict = "equal" THEN << >>
      ELSE IF f = Stdout THEN ValuesAt([k \in DOMAIN all |-> all[k].format], named)
      ELSE <<all[Max(named)].format>>

Expected(f) == ContentsAfter(NamedOutputs(End), Len(NamedOutputs(End)), f)

\* Every output has its report when the program says that there is a difference,
\* is empty when it says that there is none, and has not been touched when a bad
\* argument or a bad input was found.
OutputsExact ==
  /\ exit \in {0, 4} => \A f \in File : files[f] = Expected(f)
  /\ exit = 1 /\ (Malformed \/ Files("input") \cap broken # {}) => \A f \in File : files[f] = Old

----------------------------------------------------------------------------
(* Why: what has been done while the program runs.                         *)

Named(formats) == [format : formats, file : File]

TypeOK ==
  /\ args \in Seq(Argument) /\ at \in 1 .. End
  /\ input_format \in InputFormats /\ output_format \in OutputFormats
  /\ options \subseteq CompareOptions
  /\ inputs \in Seq(Named(InputFormats)) /\ outputs \in Seq(Named(OutputFormats))
  /\ broken \subseteq File
  /\ roots \in Seq(Named(InputFormats))
  /\ verdict \in {"none", "equal", "different"}
  /\ written \in 0 .. Len(outputs)
  /\ files \in [File -> Seq(OutputFormats) \cup {Old}]
  /\ exit \in {0, 1, kAbiChange, Running}

\* The arguments so far are good, and have had the effect they have wherever they stand.
ParsedSoFar ==
  /\ \A i \in 1 .. at - 1 : ~ Bad(i)
  /\ input_format = InputFormatOf(at)
  /\ output_format = FormatOf(at)
  /\ options = OptionsGiven(at)
  /\ inputs = NamedInputs(at)
  /\ outputs = NamedOutputs(at)

\* Nothing is read before all arguments are known to be good, nothing is compared
\* before all is read and nothing is written before that; and what has been written
\* is what the outputs up to there ask for.
DoneSoFar ==
  /\ roots # << >> => at = End /\ Len(inputs) = 2
  /\ Len(roots) <= 2
  /\ \A k \in 1 .. Len(roots) : roots[k] = inputs[k] /\ inputs[k].file \notin broken
  /\ verdict # "none" => Len(roots) = 2
  /\ written # 0 => verdict # "none"
  /\ \A k \in 1 .. written : outputs[k].file \notin broken
  /\ \A f \in File : files[f] = ContentsAfter(outputs, written, f)

\* Everything the proofs carry from one state to the next.
IInv ==
  /\ TypeOK
  /\ exit = Running => ParsedSoFar /\ DoneSoFar
  /\ ExitExact
  /\ OutputsExact
================================================================================
