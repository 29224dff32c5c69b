--------------------------------- MODULE MCNames ---------------------------------
(***************************************************************************)
(* Descriptions of small graphs: types wrapped in one another, graphs with *)
(* cycles, anonymous structs, and one node of each other kind.             *)
(***************************************************************************)
EXTENDS NamesSpec, MCNodes

Restrict2(id) == [Const(id) EXCEPT !.qualifier = 2]
BitField(name, bits, id) == [Member(name, 0, id) EXCEPT !.attributes = <<0, bits>>]

\* Types up to four deep around an integer.
Outermost == {Pointer(2), Array(4, 2), Function(2, <<3>>), Const(2), Member(7, 0, 2),
              Member(0, 0, 2), ElfSymbol(1, 0, Nothing, <<2>>)}
Middle(id)    == {Pointer(id), Array(2, id), Function(id, <<5>>), Const(id)}
Innermost(id) == {Reference(id), Array(3, id), Volatile(id)}

Wrappings == {<<w, x, y, z, int>> : w \in Outermost, x \in Middle(3), y \in Middle(4),
                                    z \in Innermost(5)}

\* Three nodes that refer to each other and to themselves.
Anonymous(members) == Defined(0, Nothing, Nothing, members)
Knots ==
  {<<x, y, z>> :
     x \in {Pointer(2), Const(2), Typedef(8, 2), Function(2, <<3>>), Anonymous(<<2, 3>>)},
     y \in {Pointer(1), Pointer(2), Const(3), Const(2), Typedef(7, 3), Typedef(7, 2),
            Function(3, <<1>>), Anonymous(<<3, 1>>)},
     z \in {Pointer(1), Const(2), Const(3), Typedef(8, 1), Array(2, 1), int, Anonymous(<<2>>)}}

\* Structs with and without names, and members with and without.
Structs ==
  {<<p, [Defined(name, Nothing, Nothing, members) EXCEPT !.kind = kind], x, y, int>> :
     p \in {Pointer(2), Array(2, 2)}, name \in {0, 9}, kind \in {1, 2},
     members \in {<<3>>, <<3, 4>>}, x \in {Member(7, 0, 5), Member(0, 0, 5), Member(0, 0, 1)},
     y \in {BitField(8, 3, 5), Member(8, 0, 1)}}

\* The other kinds of nodes.
Enumerators == <<<<1, 0>>, <<2, 5>>>>
Others ==
  {<<BaseClass(0, 2), t, Method(6, 0, 4), Function(5, <<6, 6>>), void, [type |-> "Variadic"]>> :
     t \in {Declared(0), Declared(4), Anonymous(<<>>)}}
  \cup {<<e, ElfSymbol(1, 0, Nothing, Nothing), Restrict2(4), Pointer(5), int, BitField(0, 3, 5)>> :
          e \in {Enumeration(n, d) : n \in {0, 3},
                                     d \in {Nothing, <<[bytesize |-> 4, enumerators |-> Enumerators]>>}}}

MCNamedGraphs == Wrappings \cup Knots \cup Structs \cup Others
==================================================================================
