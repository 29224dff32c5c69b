------------------------------- MODULE MCReaders ---------------------------------
(***************************************************************************)
(* Small ELF files with BTF sections of up to three entries of every kind, *)
(* headers, symbol tables and sections that are right and wrong, and       *)
(* pairs of files.                                                         *)
(***************************************************************************)
EXTENDS ReadersSpec

CONSTANT NoOption  \* an argument that is no option or one there is not

Entry(kind, type) ==
  [kind |-> kind, name |-> "a", type |-> type, size |-> 4, kflag |-> FALSE,
   info |-> [encoding |-> {"signed"}, offset |-> 0, bits |-> 32], parts |-> << >>]

WithName(e, name)   == [e EXCEPT !.name = name]
WithParts(e, parts) == [e EXCEPT !.parts = parts]
Part(name, type)    == [name |-> name, type |-> type, offset |-> 8]

\* Types, and what refers to them: an entry before or after, itself, none.
Targets == 0 .. 4

Ints == {[Entry("INT", 0) EXCEPT !.info.encoding = encoding, !.info.offset = offset] :
           encoding \in {{}, {"signed"}, {"signed", "char"}, {"bool", "char"}}, offset \in {0, 1}}

References == {Entry(kind, t) : kind \in {"PTR", "CONST", "TYPEDEF", "ARRAY"}, t \in {0, 1, 3}}

Structures ==
  {[WithParts(Entry(kind, 0), <<Part("m", t), [Part(name, 0) EXCEPT !.offset = offset]>>)
      EXCEPT !.kflag = kflag] :
     kind \in {"STRUCT", "UNION"}, t \in {2, 4}, name \in {"n", PastEnd},
     offset \in {8, 3 * 2^24 + 8}, kflag \in BOOLEAN}
  \cup {[Entry("FWD", 0) EXCEPT !.kflag = kflag] : kflag \in BOOLEAN}

Enumerations ==
  {WithParts(Entry("ENUM", 0), parts) : parts \in {<< >>, <<[name |-> "x", value |-> 1]>>}}

Functions ==
  {WithParts(Entry("FUNC_PROTO", r), ps) :
     r \in {0, 2}, ps \in {<< >>, <<Part("p", 1), Part("", 0)>>, <<Part("", 0), Part("", 0)>>}}

SymbolsOf(names) ==
  {WithName(Entry(kind, t), name) : kind \in {"FUNC", "VAR"}, t \in {0, 2}, name \in names}

Others == {Entry("DATASEC", 0), WithParts(Entry("DATASEC", 0), <<Part(PastEnd, 1)>>),
           Entry("FLOAT", 0)}

AnyEntry == Ints \cup References \cup Structures \cup Enumerations \cup Functions
       \cup SymbolsOf({"a", "b"}) \cup Others

Few == {Entry("INT", 0), Entry("PTR", 2), Entry("DATASEC", 0), WithName(Entry("FUNC", 3), "f"),
        WithName(Entry("VAR", 1), "f"), WithName(Entry("TYPEDEF", 0), Unended),
        WithName(Entry("FWD", 0), PastEnd),
        WithParts(Entry("FUNC_PROTO", 0), <<Part("p", 1), Part("", 0)>>),
        WithParts(Entry("STRUCT", 0), <<Part("m", 2), Part("n", 4)>>)}

Sequences(S, n) == UNION {[1 .. k -> S] : k \in 0 .. n}

Header(length) ==
  [size |-> 64 + length, magic |-> TRUE, hdr_len |-> 24, type_off |-> 4, type_len |-> length,
   str_off |-> 8 + length, str_len |-> 32]

\* The section of some types, whose last entry lacks some bytes.
Section(types, missing, terminated) ==
  LET length == FoldLeft(LAMBDA n, e : n + Bytes(e), 0, types)
  IN  [header |-> Header(length - missing), types |-> types, missing |-> missing,
       terminated |-> terminated]

BtfSections ==
  {Section(types, 0, TRUE) : types \in Sequences(AnyEntry, 2) \cup [1 .. 3 -> Few]}
  \cup {Section(types, 0, FALSE) : types \in Sequences(Few, 2)}
  \cup {Section(types, missing, TRUE) : types \in [1 .. 1 -> AnyEntry] \cup [1 .. 2 -> Few],
                                        missing \in {1, 11}}

OneInt == Section(<<Entry("INT", 0)>>, 0, TRUE)

\* Headers with one number off.
BadHeaders ==
  LET h == OneInt.header
  IN  {[h EXCEPT !.magic = FALSE], [h EXCEPT !.size = 20], [h EXCEPT !.hdr_len = 20],
       [h EXCEPT !.type_off = 6], [h EXCEPT !.str_off = @ - 5], [h EXCEPT !.str_off = @ - 4],
       [h EXCEPT !.str_len = @ - 1], [h EXCEPT !.size = @ - 5], [h EXCEPT !.hdr_len = 32]}

ElfFile(type, sections) ==
  [opens |-> TRUE, elf |-> TRUE, abi |-> FALSE, type |-> type, sections |-> sections]

BtfSection(contents) ==
  [name |-> ".BTF", type |-> "PROGBITS", data |-> TRUE, entsize |-> 0, contents |-> contents]
BtfFile(contents) == ElfFile("EXEC", <<BtfSection(contents)>>)

Symbol(type, binding, named) == [type |-> type, binding |-> binding, named |-> named]

Tables ==
  {[name |-> "", type |-> type, data |-> data, entsize |-> entsize, contents |-> contents] :
     type \in {"SYMTAB", "DYNSYM"}, data \in BOOLEAN, entsize \in {0, 12, 24, 48},
     contents \in Sequences({Symbol("FUNC", "GLOBAL", TRUE), Symbol("OTHER", "WEAK", TRUE),
                             Symbol("NOTYPE", "OTHER", TRUE), Symbol("OBJECT", "LOCAL", FALSE)}, 2)}

Table(type) ==
  [name |-> "", type |-> type, data |-> TRUE, entsize |-> 24,
   contents |-> <<Symbol("FUNC", "GLOBAL", TRUE)>>]

SomeSections == {BtfSection(OneInt), [BtfSection(OneInt) EXCEPT !.data = FALSE], Table("SYMTAB"),
                 Table("DYNSYM")}

Files ==
  {ElfFile(type, sections) : type \in {"REL", "DYN", "EXEC", "CORE"},
                             sections \in Sequences(SomeSections, 2)}
  \cup {[ElfFile("EXEC", <<BtfSection(OneInt), Table("DYNSYM")>>)
          EXCEPT !.opens = opens, !.elf = elf, !.abi = ~elf] : opens, elf \in BOOLEAN}

--------------------------------------------------------------------------------
Argument(option, file) == [option |-> option, file |-> file]
Call(p, args) == [program |-> p, arguments |-> args]

SomeInputs == {Argument(option, file) :
                 option \in Formats, file \in {BtfFile(OneInt), BtfFile(Section(<< >>, 0, TRUE)),
                                               [ElfFile("DYN", <<Table("DYNSYM")>>)
                                                  EXCEPT !.abi = TRUE]}}

ArgumentLists ==
  Sequences(SomeInputs \cup {Argument(NoOption, BtfFile(OneInt))}, 2)

MCCalls ==
  {Call("stginfo", <<Argument("btf", BtfFile(s))>>) : s \in BtfSections}
  \cup {Call("stginfo", <<Argument("btf", BtfFile([OneInt EXCEPT !.header = h]))>>) : h \in BadHeaders}
  \cup {Call("stginfo", <<Argument("elf", ElfFile(type, <<table>>))>>) :
          type \in {"REL", "DYN"}, table \in Tables}
  \cup {Call("stginfo", <<Argument(option, file)>>) : option \in Formats, file \in Files}
  \cup {Call("stginfo", args) : args \in ArgumentLists}
  \cup {Call("stgdiff", args) : args \in SomeInputs \X SomeInputs}
  \cup {Call("stgdiff", <<Argument("btf", BtfFile(s)), Argument("btf", BtfFile(u))>>) :
          s \in {Section(types, 0, terminated) : types \in [1 .. 2 -> Few], terminated \in BOOLEAN},
          u \in {Section(types, 0, TRUE) : types \in [1 .. 2 -> Few]}}
================================================================================
