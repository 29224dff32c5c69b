------------------------------- MODULE MCTypeGraph -------------------------------
(***************************************************************************)
(* The comparison of two roots on families of small type graphs, four      *)
(* nodes to a side: every graph of a family against every other.           *)
(*                                                                         *)
(* A family is parameterised by the id b before the first of its nodes;    *)
(* its root is node b + 1.                                                 *)
(***************************************************************************)
EXTENDS TypeGraph, MCNodes

MCLeft  == 1 .. 4
MCRight == 5 .. 8

MCComparison == MCLeft \X MCRight
MCOneSided   == (MCLeft \X {Absent}) \cup ({Absent} \X MCRight)

--------------------------------------------------------------------------------
\* Qualifiers, typedefs, pointers and arrays on top of each other.
Wrapped(id) == {Const(id), Volatile(id), Typedef(1, id), Typedef(2, id), Pointer(id),
                Array(2, id)}

Wrappings(b) == {<<x, y, z, int>> : x \in Wrapped(b + 2), y \in Wrapped(b + 3),
                                    z \in {int, Const(b + 4)}}

\* A typedef of a qualified type, or a qualified typedef of an array.
QualifiedTypedef(g) ==
  \E i \in DOMAIN g :
    \/ g[i].type = "Typedef" /\ Seen(g, i, {}).qualifiers # {}
    \/ g[i].type = "Qualified" /\ ResolveQualifiers(g, i, {}).qualifiers
                                    # Seen(g, i, {}).qualifiers

\* Structs with two members, named or not, in either order; structs declared
\* or defined only.
Structs(b) ==
  {<<root, Member(x, 0, b + 4), Member(y, 4, b + 4), t>> :
     x \in {0, 1, 2}, y \in {0, 3}, t \in {int, Defined(0, Nothing, Nothing, Nothing)},
     root \in {Declared(1), Defined(2, Nothing, Nothing, <<b + 2>>)}
                \cup {Defined(1, Nothing, Nothing, members) :
                        members \in {Nothing, <<b + 2, b + 3>>, <<b + 3, b + 2>>}}}

\* Structs that refer to themselves.
Recursive(b) ==
  {<<Defined(1, Nothing, Nothing, <<b + 2>>), Member(1, 0, b + 3), y, z>> :
     y \in {Pointer(b + 1), Pointer(b + 4)},
     z \in {int, Declared(1), Declared(2), Typedef(1, b + 1), Typedef(2, b + 1),
            Const(b + 1), Array(2, b + 1), Function(b + 1, <<b + 1>>),
            Defined(2, Nothing, Nothing, <<b + 2>>), Defined(2, Nothing, Nothing, Nothing)}}

\* Functions of up to two parameters.
SmallFunctions(b) ==
  {<<Function(r, ps), x, long, void>> :
     r \in {b + 2, b + 4}, x \in {int, Reference(b + 4), Const(b + 3)},
     ps \in {Nothing, <<b + 2>>, <<b + 3>>, <<b + 2, b + 3>>, <<b + 3, b + 3>>}}

\* Integers that take more bytes than their bits need, or have another name.
SmallIntegers(b) ==
  {<<Function(b + 2, <<b + 3>>), Pointer(b + 3),
     [int EXCEPT !.name = n, !.bitsize = bits, !.bytesize = bytes], int>> :
     n \in {1, 2}, bits \in {1, 8, 32}, bytes \in {1, 2, 4}}

\* Classes with a base class or a method, enumerations.
Classes(b) ==
  {<<Defined(1, bases, methods, Nothing), BaseClass(o, b + 4), Method(n, k, b + 4),
     Defined(t, Nothing, Nothing, Nothing)>> :
     bases \in {Nothing, <<b + 2>>}, methods \in {Nothing, <<b + 3>>}, o \in {0, 8},
     <<n, k>> \in {<<1, 0>>, <<1, 1>>, <<2, 0>>}, t \in {1, 2}}

SmallEnumerations(b) ==
  {<<Enumeration(name, definition), int, int, int>> :
     name \in {0, 1},
     definition \in {Nothing} \cup
       {<<[bytesize |-> 4, enumerators |-> es]>> :
          es \in {Nothing, <<<<1, 0>>>>, <<<<1, 1>>>>, <<<<2, 0>>>>, <<<<1, 0>>, <<2, 1>>>>,
                  <<<<2, 1>>, <<1, 0>>>>, <<<<2, 0>>, <<1, 1>>>>}}}

\* Symbol tables: symbols of either name, with and without a CRC, a version and a type.
SymbolTables(b) ==
  {<<[type |-> "Symbols", symbols |-> symbols], ElfSymbol(name, crc, version, id),
     ElfSymbol(2, 0, Nothing, Nothing), t>> :
     symbols \in {[k \in K |-> b + 1 + k] : K \in SUBSET {1, 2}},
     <<name, crc, version>> \in {<<2, 0, Nothing>>} \cup
       ({1} \X {0, 1} \X {Nothing, <<<<1, TRUE>>>>}),
     <<id, t>> \in {<<Nothing, int>>, <<<<b + 4>>, int>>, <<<<b + 4>>, long>>}}

--------------------------------------------------------------------------------
Pairs(Family(_)) == {[nodes |-> l \o r, roots |-> <<1, 5>>] : l \in Family(0), r \in Family(4)}

MCGraphs ==
  UNION {{g \in Pairs(Wrappings) : ~QualifiedTypedef(g.nodes)},
         Pairs(Structs), Pairs(Recursive), Pairs(SmallFunctions), Pairs(SmallIntegers),
         Pairs(Classes), Pairs(SmallEnumerations), Pairs(SymbolTables)}

MCOptions == {{}, {"symbol type presence", "type declaration status"}}
================================================================================
