------------------------------- MODULE BtfReader ---------------------------------
(***************************************************************************)
(* btf_reader.cc: the types of a BTF section, one entry after another.  An *)
(* entry's type id is its place in the section, from 1, and entries refer  *)
(* to entries before and after them; 0 means void, or, for a parameter,    *)
(* variadic.  An operator of this module is a step of class Structs, s, or *)
(* a condition under which it dies.                                        *)
(*                                                                         *)
(* Lengths are in bytes.  An entry is a record: its kind, name,            *)
(* type, size (an array's number of elements), kflag, an integer's info    *)
(* and its parts, the members, enumerators, parameters or variables that   *)
(* follow it.                                                              *)
(***************************************************************************)
EXTENDS GraphBuilder

CONSTANTS PastEnd,  \* a name that starts after the end of the string section
          Unended   \* the last string, which may have no end

\* A new reader of types, with the graph that was built before.
Structs(nodes) ==
  [nodes |-> nodes, ids |-> NoMap, void |-> 0, variadic |-> 0, symbols |-> NoMap]

GetVoid(s) ==
  IF s.void # 0 THEN s
  ELSE [Add(s, Node("Void", << >>, << >>)) EXCEPT !.void = LastSlot(s) + 1]

GetVariadic(s) ==
  IF s.variadic # 0 THEN s
  ELSE [Add(s, Node("Variadic", << >>, << >>)) EXCEPT !.variadic = LastSlot(s) + 1]

GetId(s, t) == IF t = 0 THEN GetVoid(s) ELSE GetNode(s, t)
Id(s, t) == IF t = 0 THEN s.void ELSE s.ids[t]

GetParameterId(s, t) == IF t = 0 THEN GetVariadic(s) ELSE GetNode(s, t)
ParameterId(s, t) == IF t = 0 THEN s.variadic ELSE s.ids[t]

----------------------------------------------------------------------------
(* The layout of the section.                                              *)

\* The sections are in the data, after the header, and do not overlap.
HeaderOK(h) ==
  /\ h.size >= 24
  /\ h.magic
  /\ h.hdr_len >= 24
  /\ h.type_off % 4 = 0
  /\ h.type_off + h.type_len <= h.str_off
  /\ h.hdr_len + h.str_off + h.str_len <= h.size

Qualifiers == {"VOLATILE", "CONST", "RESTRICT"}
Composites == {"STRUCT", "UNION"}
SymbolKinds == {"FUNC", "VAR"}
Kinds == {"INT", "PTR", "TYPEDEF", "ARRAY", "ENUM", "FWD", "FUNC_PROTO", "DATASEC"}
         \cup Qualifiers \cup Composites \cup SymbolKinds

\* The bytes after an entry's own twelve.
Extra(e) ==
  CASE e.kind \in {"INT", "VAR"} -> 4
    [] e.kind = "ARRAY" -> 12
    [] e.kind \in Composites \cup {"DATASEC"} -> 12 * Len(e.parts)
    [] e.kind \in {"ENUM", "FUNC_PROTO"} -> 8 * Len(e.parts)
    [] OTHER -> 0

Bytes(e) == 12 + Extra(e)

\* The names an entry is looked up by; parameters have names, their function none.
NamesIn(e) ==
  (IF e.kind \in Qualifiers \cup {"PTR", "ARRAY", "FUNC_PROTO", "DATASEC"} THEN {} ELSE {e.name})
  \cup (IF e.kind = "DATASEC" THEN {} ELSE {e.parts[i].name : i \in DOMAIN e.parts})

\* GetName, in a string section whose last string has an end or not.
Named(name, terminated) == name # PastEnd /\ (name = Unended => terminated)

\* Mutant: a symbol that there is already is kept.
NeverDuplicate(s, e) == FALSE

IsDuplicateSymbol(s, e) == e.kind \in SymbolKinds /\ e.name \in DOMAIN s.symbols

\* An entry the reader dies of: room is the number of bytes left.
IsBad(s, e, room, terminated) ==
  \/ e.kind \notin Kinds
  \/ Bytes(e) > room
  \/ \E name \in NamesIn(e) : ~Named(name, terminated)
  \/ e.kind = "INT" /\ e.info.offset # 0
  \/ IsDuplicateSymbol(s, e)

----------------------------------------------------------------------------
(* One entry, whose id is index.                                           *)

\* The slot of an entry is allocated, unless there is one, when its node has been made.
Define(s, index, node) ==
  LET d == GetNode(s, index) IN Set(d, d.ids[index], node)

\* An entry whose node refers to its type.
Refer(s, index, e, kind, label) ==
  LET r == GetId(s, e.type) IN Define(r, index, Node(kind, label, <<Id(r, e.type)>>))

\* What is boolean is neither signed nor a character.
Encoding(info) == IF "bool" \in info.encoding THEN {"bool"} ELSE info.encoding

BuildInt(s, index, e) ==
  Define(s, index, Node("Integer", <<e.name, Encoding(e.info), e.info.bits, e.size>>, << >>))

\* The offset of a member is in 24 bits, its size above, if the struct has the flag.
MemberLabel(kflag, m) ==
  <<m.name, IF kflag THEN m.offset % 2^24 ELSE m.offset, IF kflag THEN m.offset \div 2^24 ELSE 0>>

BuildMember(kflag, s, m) ==
  LET r == GetId(s, m.type)
  IN  Add(r, Node("Member", MemberLabel(kflag, m), <<Id(r, m.type)>>))

\* The readers that have built the first members, from none to all.
BuildMembers(s, e) ==
  LET built[n \in 0 .. Len(e.parts)] ==
        IF n = 0 THEN s ELSE BuildMember(e.kflag, built[n - 1], e.parts[n])
  IN  built

BuildStructUnion(s, index, e) ==
  LET built   == BuildMembers(s, e)
      members == [n \in DOMAIN e.parts |-> LastSlot(built[n])]
  IN  Define(built[Len(e.parts)], index,
             Node("StructUnion", <<e.kind, e.name, <<e.size>>>>, members))

BuildForward(s, index, e) ==
  Define(s, index,
         Node("StructUnion", <<IF e.kflag THEN "UNION" ELSE "STRUCT", e.name, << >>>>, << >>))

\* An enumeration without enumerators has only been declared, and no size.
BuildEnum(s, index, e) ==
  LET definition == IF e.parts = << >> THEN << >> ELSE <<e.size, e.parts>>
  IN  Define(s, index, Node("Enumeration", <<e.name, definition>>, << >>))

\* The readers that have looked at the first parameters, from none to all.
BuildParameters(s, e) ==
  LET built[n \in 0 .. Len(e.parts)] ==
        IF n = 0 THEN s ELSE GetParameterId(built[n - 1], e.parts[n].type)
  IN  built

\* The parameters, and then the result.
BuildFunction(s, index, e) ==
  LET built      == GetId(BuildParameters(s, e)[Len(e.parts)], e.type)
      parameters == [n \in DOMAIN e.parts |-> ParameterId(built, e.parts[n].type)]
  IN  Define(built, index, Node("Function", << >>, Append(parameters, Id(built, e.type))))

BuildSymbol(s, index, e) ==
  LET built == Refer(s, index, e, "ElfSymbol", <<e.name, e.kind>>)
  IN  [built EXCEPT !.symbols = Insert(@, e.name, built.ids[index])]

BuildOneType(s, index, e) ==
  CASE e.kind = "INT"         -> BuildInt(s, index, e)
    [] e.kind = "PTR"         -> Refer(s, index, e, "PointerReference", << >>)
    [] e.kind = "TYPEDEF"     -> Refer(s, index, e, "Typedef", <<e.name>>)
    [] e.kind \in Qualifiers  -> Refer(s, index, e, "Qualified", <<e.kind>>)
    [] e.kind = "ARRAY"       -> Refer(s, index, e, "Array", <<e.size>>)
    [] e.kind \in Composites  -> BuildStructUnion(s, index, e)
    [] e.kind = "ENUM"        -> BuildEnum(s, index, e)
    [] e.kind = "FWD"         -> BuildForward(s, index, e)
    [] e.kind = "FUNC_PROTO"  -> BuildFunction(s, index, e)
    [] e.kind \in SymbolKinds -> BuildSymbol(s, index, e)
    [] e.kind = "DATASEC"     -> s

\* Mutant: an entry that is skipped has no index.
NextUnlessSkipped(index, e) == IF e.kind = "DATASEC" THEN index ELSE index + 1

NextIndex(index, e) == index + 1

\* The root of what has been read.
BuildSymbols(s) == Add(s, Node("Symbols", << >>, Range(s.symbols)))
==================================================================================
