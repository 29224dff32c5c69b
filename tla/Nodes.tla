---------------------------------- MODULE Nodes ----------------------------------
(***************************************************************************)
(* The nodes of a graph (stg.h) and what one of them says of itself.       *)
(*                                                                         *)
(* A node is a record with its kind of node in field type and the ids of   *)
(* the nodes it refers to; a graph is a function from ids to nodes.  Names *)
(* are naturals, 0 the empty name; values that are only compared, each     *)
(* with its like, and printed are the attributes.  An optional value is a  *)
(* sequence of at most one.                                                *)
(***************************************************************************)
EXTENDS Naturals, SequencesExt

Nothing == << >>
Optional(S) == {o \in Seq(S) : Len(o) <= 1}

Voids     == [type : {"Void"}]
Variadics == [type : {"Variadic"}]

PointerReferences(ids) == [type : {"PointerReference"}, kind : 0 .. 2, to : ids]

Typedefs(ids) == [type : {"Typedef"}, name : Nat, to : ids]

Qualifieds(ids) == [type : {"Qualified"}, qualifier : 0 .. 2, to : ids]

Integers == [type : {"Integer"}, name : Nat, encoding : 0 .. 5, bitsize : Nat, bytesize : Nat]

\* The number of elements.
Arrays(ids) == [type : {"Array"}, attributes : [{1} -> Nat], to : ids]

\* The inheritance and the offset.
BaseClasses(ids) == [type : {"BaseClass"}, attributes : (0 .. 1) \X Nat, to : ids]

\* The offset and the bit size.
Members(ids) == [type : {"Member"}, name : Nat, attributes : Nat \X Nat, to : ids]

\* The kind and the vtable offset.
Methods(ids) == [type : {"Method"}, name : Nat, mangled : Nat,
                attributes : (0 .. 2) \X Optional(Nat), to : ids]

StructUnions(ids) ==
  [type : {"StructUnion"}, kind : 0 .. 2, name : Nat,
   definition : Optional([bytesize : Nat, base_classes : Seq(ids), methods : Seq(ids),
                          members : Seq(ids)])]

\* An enumerator is a name and a value.
Enumerations ==
  [type : {"Enumeration"}, name : Nat,
   definition : Optional([bytesize : Nat, enumerators : Seq(Nat \X Nat)])]

\* Parameters are the ids of their types; their names are not part of the type.
Functions(ids) == [type : {"Function"}, return : ids, parameters : Seq(ids)]

\* Whether it is defined, its type, binding, visibility and CRC; its version is a
\* name and whether that is the default.
ElfSymbols(ids) ==
  [type : {"ElfSymbol"}, name : Nat, version : Optional(Nat \X BOOLEAN),
   attributes : BOOLEAN \X (0 .. 3) \X (0 .. 3) \X (0 .. 3) \X Nat, to : Optional(ids)]

IsSymbols(n, ids) ==
  /\ DOMAIN n = {"type", "symbols"}
  /\ DOMAIN n.symbols \subseteq Nat
  /\ Range(n.symbols) \subseteq ids

IsNode(n, ids) ==
  CASE n.type = "Void"             -> n \in Voids
    [] n.type = "Variadic"         -> n \in Variadics
    [] n.type = "PointerReference" -> n \in PointerReferences(ids)
    [] n.type = "Typedef"          -> n \in Typedefs(ids)
    [] n.type = "Qualified"        -> n \in Qualifieds(ids)
    [] n.type = "Integer"          -> n \in Integers
    [] n.type = "Array"            -> n \in Arrays(ids)
    [] n.type = "BaseClass"        -> n \in BaseClasses(ids)
    [] n.type = "Member"           -> n \in Members(ids)
    [] n.type = "Method"           -> n \in Methods(ids)
    [] n.type = "StructUnion"      -> n \in StructUnions(ids)
    [] n.type = "Enumeration"      -> n \in Enumerations
    [] n.type = "Function"         -> n \in Functions(ids)
    [] n.type = "ElfSymbol"        -> n \in ElfSymbols(ids)
    [] n.type = "Symbols"          -> IsSymbols(n, ids)

IsGraph(g) == \A id \in DOMAIN g : IsNode(g[id], DOMAIN g)

--------------------------------------------------------------------------------
\* What a node does to the qualifiers gathered so far, and where to go on, if
\* anywhere.  An array or a function has no qualifiers of its own and drops them.
ResolveQualifier(n, qualifiers) ==
  CASE n.type = "Qualified" -> [to |-> <<n.to>>, qualifiers |-> qualifiers \cup {n.qualifier}]
    [] n.type \in {"Array", "Function"} -> [to |-> Nothing, qualifiers |-> {}]
    [] OTHER -> [to |-> Nothing, qualifiers |-> qualifiers]

ResolveTypedef(n, typedefs) ==
  IF n.type = "Typedef" THEN [to |-> <<n.to>>, typedefs |-> Append(typedefs, n.name)]
  ELSE [to |-> Nothing, typedefs |-> typedefs]

\* The first nonempty key, or the empty one.
FirstKey(keys) ==
  LET named == {i \in DOMAIN keys : keys[i] # 0}
  IN  IF named = {} THEN 0 ELSE keys[CHOOSE i \in named : \A j \in named : i <= j]

\* The key of a method is made of both its names, of which there are less than ten.
MatchingKey(g, id) ==
  LET key[i \in DOMAIN g] ==
        LET n == g[i]
        IN  CASE n.type = "BaseClass" -> key[n.to]
              [] n.type = "Member" -> IF n.name = 0 THEN key[n.to] ELSE n.name
              [] n.type = "Method" -> 1 + 10 * n.name + n.mangled
              [] n.type = "StructUnion" ->
                   IF n.name # 0 \/ n.definition = Nothing THEN n.name
                   ELSE LET members == n.definition[1].members
                        IN  FirstKey([k \in DOMAIN members |-> key[members[k]]])
              [] OTHER -> 0
  IN  key[id]
==================================================================================
