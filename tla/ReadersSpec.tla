------------------------------ MODULE ReadersSpec --------------------------------
(***************************************************************************)
(* What stginfo and the reading of stgdiff promise, said of the arguments  *)
(* and the files as a whole: which of them are refused, and which node     *)
(* every type and every symbol of a BTF section has.                       *)
(***************************************************************************)
EXTENDS Readers, FiniteSets

BadString(name, terminated) == name = PastEnd \/ (name = Unended /\ ~terminated)

\* The entries whose own name is not looked at.
Unnamed == {"PTR", "ARRAY", "CONST", "VOLATILE", "RESTRICT", "FUNC_PROTO", "DATASEC"}

BadEntry(e, terminated) ==
  \/ e.kind \notin Kinds
  \/ e.kind \notin Unnamed /\ BadString(e.name, terminated)
  \/ e.kind # "DATASEC" /\ \E i \in DOMAIN e.parts : BadString(e.parts[i].name, terminated)
  \/ e.kind = "INT" /\ e.info.offset # 0

SymbolEntries(types) == {i \in DOMAIN types : types[i].kind \in {"FUNC", "VAR"}}

\* The last string matters to who prints the strings, or where it is used.
BadBtf(btf, verbose) ==
  LET h == btf.header
  IN  \/ ~h.magic \/ h.size < 24
      \/ h.hdr_len < 24 \/ h.type_off % 4 # 0
      \/ h.type_off + h.type_len > h.str_off
      \/ h.size < h.hdr_len + h.str_off + h.str_len
      \/ btf.missing > 0
      \/ \E i \in DOMAIN btf.types : BadEntry(btf.types[i], btf.terminated)
      \/ \E i, j \in SymbolEntries(btf.types) : i # j /\ btf.types[i].name = btf.types[j].name
      \/ verbose /\ ~btf.terminated

BtfAt(file) == {i \in DOMAIN file.sections : file.sections[i].name = ".BTF"}

\* The symbols are in one table or another.
TablesAt(file) ==
  {i \in DOMAIN file.sections :
     \/ file.type = "REL" /\ file.sections[i].type = "SYMTAB"
     \/ file.type \in {"DYN", "EXEC"} /\ file.sections[i].type = "DYNSYM"}

BadTable(s) ==
  \/ s.entsize = 0
  \/ \E i \in 1 .. 24 * Len(s.contents) :
       /\ i * s.entsize <= 24 * Len(s.contents)
       /\ i > Len(s.contents) \/ ~KnownEntry(s.contents[i])

BadBtfFile(file, verbose) ==
  \/ Cardinality(BtfAt(file)) # 1
  \/ \E i \in BtfAt(file) :
       ~file.sections[i].data \/ BadBtf(file.sections[i].contents, verbose)

BadElfFile(file) ==
  \/ Cardinality(TablesAt(file)) # 1
  \/ \E i \in TablesAt(file) : ~file.sections[i].data \/ BadTable(file.sections[i])

\* An input that cannot be read.
BadInput(input, verbose) ==
  LET file == input.file
  IN  \/ ~file.opens
      \/ input.option = "abi" /\ ~file.abi
      \/ input.option # "abi" /\ ~file.elf
      \/ input.option = "btf" /\ BadBtfFile(file, verbose)
      \/ input.option = "elf" /\ BadElfFile(file)

\* stginfo wants one argument, of an option it has.
BadArguments == Len(arguments) # 1 \/ arguments[1].option \notin Formats

\* Both programs refuse what is bad, in the arguments or in any input, and nothing
\* else: no check of the readers fails for the order of the entries, for entries
\* that are skipped or refer to what there is not, or for what came before them.
RefusesExactly ==
  phase = "ended" =>
    (exit = 1 <=>
       \/ Verbose /\ BadArguments
       \/ \E i \in DOMAIN arguments : BadInput(arguments[i], Verbose))

--------------------------------------------------------------------------------
\* The slot has this node, in the graph of the reader.
Holds(reader, slot, kind, label, edges) ==
  /\ slot \in DOMAIN reader.nodes
  /\ reader.nodes[slot].kind = kind
  /\ reader.nodes[slot] = Node(kind, label, edges)

Edges(reader, slot) ==
  IF slot \in DOMAIN reader.nodes /\ Is(reader, slot) THEN reader.nodes[slot].edges ELSE << >>

\* The slot is that of type t, as the reader knows it; zero is a kind of node.
Means(reader, slot, t, zero) ==
  IF t = 0 THEN Holds(reader, slot, zero, << >>, << >>)
  ELSE t \in DOMAIN reader.ids /\ slot = reader.ids[t]

\* The slot has a node of this kind and label, whose edge is that of type t.
Links(reader, slot, kind, label, t) ==
  \E to \in Range(Edges(reader, slot)) :
    Holds(reader, slot, kind, label, <<to>>) /\ Means(reader, to, t, "Void")

MemberAt(reader, slot, kflag, m) ==
  \E offset, size \in {m.offset, m.offset % 2^24, m.offset \div 2^24, 0} :
    /\ IF kflag THEN m.offset = offset + 2^24 * size /\ offset < 2^24
       ELSE offset = m.offset /\ size = 0
    /\ Links(reader, slot, "Member", <<m.name, offset, size>>, m.type)

CompositeAt(reader, slot, e) ==
  LET edges == Edges(reader, slot)
  IN  /\ Holds(reader, slot, "StructUnion", <<e.kind, e.name, <<e.size>>>>, edges)
      /\ DOMAIN edges = DOMAIN e.parts
      /\ \A i \in DOMAIN edges : MemberAt(reader, edges[i], e.kflag, e.parts[i])

FunctionAt(reader, slot, e) ==
  LET edges == Edges(reader, slot)
      n     == Len(e.parts)
  IN  /\ Holds(reader, slot, "Function", << >>, edges)
      /\ Len(edges) = n + 1
      /\ \A i \in 1 .. n : Means(reader, edges[i], e.parts[i].type, "Variadic")
      /\ Means(reader, edges[n + 1], e.type, "Void")

\* The slot has the node that entry e says.
Realises(reader, slot, e) ==
  CASE e.kind = "INT" ->
         \E encoding \in {{"bool"}, e.info.encoding} :
           /\ Holds(reader, slot, "Integer", <<e.name, encoding, e.info.bits, e.size>>, << >>)
           /\ "bool" \in e.info.encoding => encoding = {"bool"}
    [] e.kind = "PTR"         -> Links(reader, slot, "PointerReference", << >>, e.type)
    [] e.kind = "TYPEDEF"     -> Links(reader, slot, "Typedef", <<e.name>>, e.type)
    [] e.kind \in Qualifiers  -> Links(reader, slot, "Qualified", <<e.kind>>, e.type)
    [] e.kind = "ARRAY"       -> Links(reader, slot, "Array", <<e.size>>, e.type)
    [] e.kind \in Composites  -> CompositeAt(reader, slot, e)
    [] e.kind = "FUNC_PROTO"  -> FunctionAt(reader, slot, e)
    [] e.kind \in SymbolKinds -> Links(reader, slot, "ElfSymbol", <<e.name, e.kind>>, e.type)
    [] e.kind = "ENUM" ->
         Holds(reader, slot, "Enumeration",
               <<e.name, IF e.parts = << >> THEN << >> ELSE <<e.size, e.parts>>>>, << >>)
    [] e.kind = "FWD" ->
         Holds(reader, slot, "StructUnion", <<IF e.kflag THEN "UNION" ELSE "STRUCT", e.name, << >>>>, << >>)

\* The reader knows the types of the section, each under its place, and those they
\* refer to; the symbols are the functions and variables.
SectionAt(reader, types) ==
  LET defined == {i \in DOMAIN types : types[i].kind # "DATASEC"}
      symbols == SymbolEntries(types)
  IN  /\ defined \subseteq DOMAIN reader.ids
      /\ \A i \in defined : Realises(reader, reader.ids[i], types[i])
      /\ \A t \in DOMAIN reader.ids \ defined : ~Is(reader, reader.ids[t])
      /\ DOMAIN reader.symbols = {types[i].name : i \in symbols}
      /\ \A i \in symbols : reader.symbols[types[i].name] = reader.ids[i]

\* What has been read of a BTF section is what its entries say, whatever comes
\* before or after them: a type id is a place in the section, also after an entry
\* that is skipped, zero is void or variadic as its use says, and the types of the
\* two inputs, which have the same ids, are kept apart in the one graph.
BtfTypesExact ==
  /\ \A k \in DOMAIN finished :
       inputs[k].option = "btf" =>
         SectionAt([finished[k] EXCEPT !.nodes = graph.nodes], Btf(inputs[k].file).types)
  /\ \A k, l \in DOMAIN finished :
       k # l => Range(finished[k].ids) \cap Range(finished[l].ids) = {}
==================================================================================
