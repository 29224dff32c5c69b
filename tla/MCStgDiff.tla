-------------------------------- MODULE MCStgDiff --------------------------------
(***************************************************************************)
(* Command lines: two inputs (or one, or three) with input formats, output *)
(* formats, outputs and compare options between, before and after them.    *)
(***************************************************************************)
EXTENDS StgDiff

CONSTANTS old, new, report  \* files, besides Stdout

Flag(opt) == [opt |-> opt, file |-> Stdout, format |-> "plain", list |-> << >>]
InputFile(f) == [Flag("input") EXCEPT !.file = f]

Switches ==
  {[Flag("output") EXCEPT !.file = f] : f \in {report, Stdout}} \cup
  {[Flag("format") EXCEPT !.format = f] : f \in {"flat", "small", "huge"}} \cup
  {[Flag("compare-options") EXCEPT !.list = l] :
     l \in {<<"all">>, <<"ignore_type_declaration_status_changes">>,
           <<"ignore_symbol_type_presence_changes", "none">>}} \cup
  {Flag("btf"), Flag("unknown")}

Pair == <<InputFile(old), InputFile(new)>>

\* The switches around the inputs, and every command line of few arguments.
MCCommands ==
  {Pair \o s : s \in BoundedSeq(Switches, 4)} \cup
  {<<s[1], InputFile(old), s[2], InputFile(new), s[3]>> : s \in [1 .. 3 -> Switches]} \cup
  BoundedSeq(Switches \cup {InputFile(old), InputFile(new)}, 3)
================================================================================
