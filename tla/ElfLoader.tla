------------------------------- MODULE ElfLoader ---------------------------------
(***************************************************************************)
(* elf_loader.cc: what is looked for in an ELF file, and when that fails.  *)
(* A file is a record: whether it can be opened and is an ELF file, its    *)
(* ELF type and its sections.  A section is a record: its name, type, the  *)
(* size its header gives for an entry, whether libelf finds its data, and  *)
(* what the data are: BTF, or the entries of a symbol table.               *)
(***************************************************************************)
EXTENDS Naturals, SequencesExt

\* The constructor of ElfLoader.
Opens(file) == file.opens /\ file.elf

SectionsByName(file, name) == {i \in DOMAIN file.sections : file.sections[i].name = name}
SectionsByType(file, type) == {i \in DOMAIN file.sections : file.sections[i].type = type}

\* GetSectionByName and GetSectionByType want one section and only one.
OnlyOne(sections) == \E i \in sections : sections = {i}
Only(file, sections) == file.sections[CHOOSE i \in sections : TRUE]

\* GetBtfRawData.
HasBtf(file) ==
  LET found == SectionsByName(file, ".BTF")
  IN  Opens(file) /\ OnlyOne(found) /\ Only(file, found).data
Btf(file) == Only(file, SectionsByName(file, ".BTF")).contents

\* GetSymbolTableSection: which table depends on the type of the file.
TableTypes(file) ==
  CASE file.type = "REL" -> {"SYMTAB"}
    [] file.type \in {"DYN", "EXEC"} -> {"DYNSYM"}
    [] OTHER -> {}

SymbolTables(file) == UNION {SectionsByType(file, t) : t \in TableTypes(file)}

SymbolTypes == {"NOTYPE", "OBJECT", "FUNC", "SECTION", "FILE", "COMMON", "TLS", "GNU_IFUNC"}
Bindings    == {"LOCAL", "GLOBAL", "WEAK", "GNU_UNIQUE"}

\* An entry whose string, type and binding the loader knows.  All four values of
\* a visibility, and all section indices, are known.
KnownEntry(e) == e.named /\ e.type \in SymbolTypes /\ e.binding \in Bindings

\* GetNumberOfEntries, of a table whose entries take 24 bytes.
NumberOfEntries(table) == (24 * Len(table.contents)) \div table.entsize

\* GetElfSymbols.
HasElfSymbols(file) ==
  LET tables == SymbolTables(file)
      table  == Only(file, tables)
  IN  /\ Opens(file)
      /\ OnlyOne(tables)
      /\ table.data
      /\ table.entsize # 0
      /\ \A i \in 1 .. NumberOfEntries(table) :
           i \in DOMAIN table.contents /\ KnownEntry(table.contents[i])
==================================================================================
