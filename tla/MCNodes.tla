--------------------------------- MODULE MCNodes ---------------------------------
(***************************************************************************)
(* Short names for the nodes small graphs are made of.                     *)
(***************************************************************************)
EXTENDS Nodes

int    == [type |-> "Integer", name |-> 1, encoding |-> 1, bitsize |-> 32, bytesize |-> 4]
long   == [int EXCEPT !.bitsize = 64, !.bytesize = 8]
void   == [type |-> "Void"]
Pointer(id)        == [type |-> "PointerReference", kind |-> 0, to |-> id]
Reference(id)      == [Pointer(id) EXCEPT !.kind = 1]
Const(id)          == [type |-> "Qualified", qualifier |-> 0, to |-> id]
Volatile(id)       == [type |-> "Qualified", qualifier |-> 1, to |-> id]
Typedef(name, id)  == [type |-> "Typedef", name |-> name, to |-> id]
Array(size, id)    == [type |-> "Array", attributes |-> <<size>>, to |-> id]
Function(id, ids)  == [type |-> "Function", return |-> id, parameters |-> ids]
Member(name, offset, id) ==
  [type |-> "Member", name |-> name, attributes |-> <<offset, 0>>, to |-> id]
BaseClass(offset, id) == [type |-> "BaseClass", attributes |-> <<0, offset>>, to |-> id]
Method(name, kind, id) ==
  [type |-> "Method", name |-> name, mangled |-> 1, attributes |-> <<kind, Nothing>>, to |-> id]
Declared(name) ==
  [type |-> "StructUnion", kind |-> 0, name |-> name, definition |-> Nothing]
Defined(name, bases, methods, members) ==
  [Declared(name) EXCEPT !.definition =
     <<[bytesize |-> 8, base_classes |-> bases, methods |-> methods, members |-> members]>>]
Enumeration(name, definition) ==
  [type |-> "Enumeration", name |-> name, definition |-> definition]
ElfSymbol(name, crc, version, id) ==
  [type |-> "ElfSymbol", name |-> name, attributes |-> <<TRUE, 0, 0, 0, crc>>,
   version |-> version, to |-> id]
==================================================================================
