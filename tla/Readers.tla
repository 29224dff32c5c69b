-------------------------------- MODULE Readers ----------------------------------
(***************************************************************************)
(* The programs that read inputs.  stginfo (stginfo.cc) reads the one      *)
(* input its arguments name and logs what it reads; stgdiff (Run, in       *)
(* stgdiff.cc) reads its two inputs into one graph to compare them.  How   *)
(* stgdiff finds its inputs and what it does with them is module StgDiff's *)
(* subject; an ABI XML document can be read or not, which is module        *)
(* AbigailReader's.                                                        *)
(*                                                                         *)
(* An argument is a record of an option, or the lack of one, and a file.   *)
(***************************************************************************)
EXTENDS BtfReader, ElfLoader, Positions

CONSTANT Calls  \* what is run: a program and its arguments

\* What the arguments and the files may be.  A BTF section has the entries that its
\* bytes say, and only the last of them may go on after the end of the section.
\* The bytes of the first entries, from none to all.
Size(types) ==
  LET size[n \in 0 .. Len(types)] == IF n = 0 THEN 0 ELSE size[n - 1] + Bytes(types[n])
  IN  size

IsEntry(e) ==
  /\ e.type \in Nat /\ IsSequence(e.parts)
  /\ e.kind \in Composites \cup {"FUNC_PROTO"} => \A i \in DOMAIN e.parts : e.parts[i].type \in Nat
  /\ e.kind \in Composites => e.kflag \in BOOLEAN /\ \A i \in DOMAIN e.parts : e.parts[i].offset \in Nat

IsHeader(h) ==
  /\ h.magic \in BOOLEAN
  /\ {h.size, h.hdr_len, h.type_off, h.type_len, h.str_off, h.str_len} \subseteq Nat

IsBtf(btf) ==
  /\ IsHeader(btf.header) /\ btf.terminated \in BOOLEAN
  /\ IsSequence(btf.types) /\ \A i \in DOMAIN btf.types : IsEntry(btf.types[i])
  /\ btf.missing \in Nat
  /\ btf.header.type_len + btf.missing = Size(btf.types)[Len(btf.types)]
  /\ btf.missing > 0 => btf.types # << >> /\ btf.missing < Bytes(Last(btf.types))

IsTable(section) == section.entsize \in Nat /\ IsSequence(section.contents)

IsFile(file) ==
  /\ {file.opens, file.elf, file.abi} \subseteq BOOLEAN
  /\ IsSequence(file.sections)
  /\ \A i \in DOMAIN file.sections :
       /\ file.sections[i].data \in BOOLEAN
       /\ file.sections[i].name = ".BTF" => IsBtf(file.sections[i].contents)
       /\ file.sections[i].type \in {"SYMTAB", "DYNSYM"} => IsTable(file.sections[i])

ASSUME CallsAssumption ==
  \A call \in Calls :
    /\ call.program \in {"stginfo", "stgdiff"}
    /\ IsSequence(call.arguments)
    /\ \A i \in DOMAIN call.arguments : IsFile(call.arguments[i].file)

VARIABLES program,    \* "stginfo" or "stgdiff"
          arguments,  \* of stginfo
          next,       \* the next argument
          inputs,     \* the inputs, in order
          graph,      \* the nodes, and the state of the BTF reader at work
          index,      \* BuildTypes: btf_index
          rest,       \* BuildTypes: the entries not read yet
          room,       \* BuildTypes: the bytes between start and limit
          finished,   \* history: the readers of the inputs read so far
          phase,
          exit        \* main's result

vars == <<program, arguments, next, inputs, graph, index, rest, room, finished, phase, exit>>

Formats == {"abi", "btf", "elf"}

Init ==
  /\ \E call \in Calls :
       /\ program = call.program
       /\ arguments = call.arguments
       /\ IF call.program = "stginfo"
          THEN inputs = << >> /\ phase = "arguments"
          ELSE inputs = call.arguments /\ phase = "read"
  /\ next = 1
  /\ graph = Structs(<< >>)
  /\ index = 1
  /\ rest = << >>
  /\ room = 0
  /\ finished = << >>
  /\ exit = 0

Verbose == program = "stginfo"

\* The usage of stginfo, or a failed check of a reader.
Fail ==
  /\ phase' = "ended"
  /\ exit' = 1
  /\ UNCHANGED <<program, arguments, next, inputs, graph, index, rest, room, finished>>

----------------------------------------------------------------------------
(* The arguments of stginfo.                                               *)

Input ==
  /\ phase = "arguments" /\ next <= Len(arguments)
  /\ arguments[next].option \in Formats /\ inputs = << >>
  /\ inputs' = <<arguments[next]>>
  /\ next' = next + 1
  /\ UNCHANGED <<program, arguments, graph, index, rest, room, finished, phase, exit>>

Usage ==
  /\ phase = "arguments"
  /\ IF next > Len(arguments) THEN inputs = << >>
     ELSE arguments[next].option \notin Formats \/ inputs # << >>
  /\ Fail

ReadInput ==
  /\ phase = "arguments" /\ next > Len(arguments) /\ inputs # << >>
  /\ phase' = "read"
  /\ UNCHANGED <<program, arguments, next, inputs, graph, index, rest, room, finished, exit>>

----------------------------------------------------------------------------
(* The inputs.                                                             *)

Unread == phase = "read" /\ Len(finished) < Len(inputs)
Current == inputs[Len(finished) + 1]
File == Current.file

\* The input has been read; what it has been read with goes, the graph stays.
Finish(g) ==
  /\ graph' = BuildSymbols(g)
  /\ finished' = Append(finished, g)

ReadAbi ==
  /\ Unread /\ Current.option = "abi"
  /\ IF ~(File.opens /\ File.abi) THEN Fail
     ELSE /\ Finish(Structs(graph.nodes))
          /\ UNCHANGED <<program, arguments, next, inputs, index, rest, room, phase, exit>>

\* The symbols of an ELF file are counted and dropped.
ReadElf ==
  /\ Unread /\ Current.option = "elf"
  /\ IF ~HasElfSymbols(File) THEN Fail
     ELSE /\ Finish(Structs(graph.nodes))
          /\ UNCHANGED <<program, arguments, next, inputs, index, rest, room, phase, exit>>

\* The BTF reader: ReadFile and Process.
ReadBtf ==
  /\ Unread /\ Current.option = "btf"
  /\ IF ~(HasBtf(File) /\ HeaderOK(Btf(File).header)) THEN Fail
     ELSE /\ graph' = Structs(graph.nodes)
          /\ index' = 1
          /\ rest' = Btf(File).types
          /\ room' = Btf(File).header.type_len
          /\ phase' = "types"
          /\ UNCHANGED <<program, arguments, next, inputs, finished, exit>>

Terminated == Btf(File).terminated

BuildType ==
  /\ phase = "types" /\ room # 0
  /\ IF IsBad(graph, Head(rest), room, Terminated) THEN Fail
     ELSE /\ graph' = BuildOneType(graph, index, Head(rest))
          /\ index' = NextIndex(index, Head(rest))
          /\ rest' = Tail(rest)
          /\ room' = room - Bytes(Head(rest))
          /\ UNCHANGED <<program, arguments, next, inputs, finished, phase, exit>>

\* PrintStrings, of the verbose reader, wants an end of every string.
FinishBtf ==
  /\ phase = "types" /\ room = 0
  /\ IF Verbose /\ ~Terminated THEN Fail
     ELSE /\ Finish(graph)
          /\ phase' = "read"
          /\ UNCHANGED <<program, arguments, next, inputs, index, rest, room, exit>>

End ==
  /\ phase = "read" /\ ~Unread
  /\ phase' = "ended"
  /\ UNCHANGED <<program, arguments, next, inputs, graph, index, rest, room, finished, exit>>

Done == phase = "ended" /\ UNCHANGED vars

Next ==
  \/ Input
  \/ Usage
  \/ ReadInput
  \/ ReadAbi
  \/ ReadElf
  \/ ReadBtf
  \/ BuildType
  \/ FinishBtf
  \/ End
  \/ Done

Spec == Init /\ [][Next]_vars
==================================================================================
