------------------------------ MODULE AbigailSpec -------------------------------
(***************************************************************************)
(* What the ABI XML reader promises, said of the document as a whole and   *)
(* without an order of reading: which documents it refuses, which node     *)
(* every type id has and which type and name every symbol has.             *)
(***************************************************************************)
EXTENDS AbigailReader, FiniteSetsExt

IsType(e) == e.tag \in TypeTags
IsDecl(e) == e.tag \in {"var-decl", "function-decl", "member-function"} \/ e.static

\* The elements that count: not in an element that does not, and not a second
\* definition of a type.  An element around a definition does not come before it.
Kept(d) ==
  LET kept[i \in DOMAIN d] ==
        /\ \A j \in Within(d)[i] : kept[j]
        /\ IsType(d[i]) => ~\E j \in 1 .. i - 1 :
             j \notin Within(d)[i] /\ IsType(d[j]) /\ d[j].id = d[i].id /\ kept[j]
  IN  {i \in DOMAIN d : kept[i]}

CorpusOf(d, i) == IF d[i].in = 0 THEN i ELSE CHOOSE j \in Within(d)[i] : d[j].in = 0

Corpora(d) == {c \in DOMAIN d : d[c].in = 0}
SymbolElements(d, c) == {i \in DOMAIN d : d[i].in = c /\ d[i].tag = "elf-symbol"}
SymbolsOf(d, c) == {d[i].symbol : i \in SymbolElements(d, c)}

\* Who lists an alias, and where in the list.
Listings(d, c) ==
  UNION {{<<d[i].aliases[k], i, k>> : k \in DOMAIN d[i].aliases} : i \in SymbolElements(d, c)}

DeclsOf(d, c, s) ==
  {i \in Kept(d) : CorpusOf(d, i) = c /\ IsDecl(d[i]) /\ d[i].symbol = s}

Misplaced(d, i) ==
  d[i].tag \notin IF d[i].in = 0 THEN {"abi-corpus"} ELSE AllowedIn(d[d[i].in].tag)

DefinedInItself(d, i) ==
  IsType(d[i]) /\ \E j \in Within(d)[i] : IsType(d[j]) /\ d[j].id = d[i].id

BadFunction(e) == (IsFunction(e) \/ e.tag = "function-type") /\ Len(e.returns) # 1

\* Two declarations agree only when both are of variables of one type: every
\* function declaration has a type of its own.
Disagree(e, f) == IsFunction(e) \/ IsFunction(f) \/ e.types # f.types

BadSymbols(d, c) ==
  \/ \E i, j \in SymbolElements(d, c) : i # j /\ d[i].symbol = d[j].symbol
  \/ \E l, m \in Listings(d, c) : l # m /\ l[1] = m[1]
  \/ \E l, m \in Listings(d, c) : l[1] = d[m[2]].symbol
  \/ \E s \in {d[i].symbol : i \in DOMAIN d} \ {NoSymbol} :
       \E i, j \in DeclsOf(d, c, s) : i # j /\ Disagree(d[i], d[j])

Defective(d) ==
  \/ \E i \in Kept(d) : \/ Misplaced(d, i) \/ DefinedInItself(d, i) \/ BadFunction(d[i])
                       \/ d[i].flaw # "none"
  \/ \E c \in Corpora(d) : BadSymbols(d, c)
  \/ \E c, o \in Corpora(d) : c # o /\ d[c].name = d[o].name
                              /\ SymbolsOf(d, c) \cap SymbolsOf(d, o) # {}

\* The names of the elements around element i.
ScopeOf(d, i) ==
  LET around == SetToSortSeq({j \in Within(d)[i] : d[j].in # 0}, <)
  IN  [k \in DOMAIN around |-> d[around[k]].name]

QualifiedName(d, i) == Append(ScopeOf(d, i), d[i].name)

\* Classes and enumerations may have no name.
TypeName(d, i) == IF d[i].name = Anonymous THEN << >> ELSE QualifiedName(d, i)

At(slot) == graph.nodes[slot]

\* Slot has a node of this kind and name, with edges to these types.
Links(slot, kind, label, types) ==
  /\ At(slot) = Node(kind, label, Slots(graph, types))
  /\ \A i \in DOMAIN types : types[i] = Variadic => At(graph.variadic).kind = "Variadic"

\* From slot, one node for each part and then the type.
Chained(slot, kind, parts, t) ==
  LET walk[k \in 1 .. Len(parts) + 1] == IF k = 1 THEN slot ELSE At(walk[k - 1]).edges[1]
  IN  /\ \A k \in DOMAIN parts : At(walk[k]) = Node(kind, <<parts[k]>>, <<walk[k + 1]>>)
      /\ walk[Len(parts) + 1] = Slot(graph, t)

Children(d, i, tag) ==
  SetToSortSeq({j \in DOMAIN d : d[j].in = i /\ d[j].tag = tag /\ ~d[j].static}, <)

FunctionAt(slot, e) == Links(slot, "Function", << >>, e.types \o e.returns)

\* The node of a child of a class.
ChildAt(slot, e) ==
  CASE e.tag = "base-class"      -> Links(slot, "BaseClass", << >>, e.types)
    [] e.tag = "data-member"     -> Links(slot, "Member", <<e.name>>, e.types)
    [] e.tag = "member-function" ->
         /\ At(slot) = Node("Method", <<e.name>>, At(slot).edges)
         /\ FunctionAt(At(slot).edges[1], e)

ClassAt(slot, d, i) ==
  LET children == Children(d, i, "base-class") \o Children(d, i, "member-function")
                  \o Children(d, i, "data-member")
  IN  /\ At(slot) = Node("StructUnion", TypeName(d, i), At(slot).edges)
      /\ DOMAIN At(slot).edges = DOMAIN children
      /\ \A k \in DOMAIN children : ChildAt(At(slot).edges[k], d[children[k]])

\* The slot holds what element i of the document defines.
Realises(slot, d, i) ==
  CASE d[i].tag = "typedef-decl"       -> Links(slot, "Typedef", QualifiedName(d, i), d[i].types)
    [] d[i].tag = "pointer-type-def"   -> Links(slot, "PointerReference", << >>, d[i].types)
    [] d[i].tag = "qualified-type-def" -> Chained(slot, "Qualified", d[i].parts, d[i].types[1])
    [] d[i].tag = "array-type-def"     -> Chained(slot, "Array", d[i].parts, d[i].types[1])
    [] d[i].tag = "enum-decl"          -> Links(slot, "Enumeration", TypeName(d, i), << >>)
    [] d[i].tag = "function-type"      -> FunctionAt(slot, d[i])
    [] d[i].tag = "class-decl"         -> ClassAt(slot, d, i)
    [] d[i].tag = "type-decl"          ->
         At(slot) \in {Node("Integer", QualifiedName(d, i), << >>), Node("Void", << >>, << >>)}

Read == outcome = "read"

\* The reader gives up exactly on the documents that are defective: none of its
\* checks fails for the order of definitions, forward references, repeated
\* definitions or aliases, and no defect is let through, not even one in the
\* attributes of a symbol that are only read at the end of its corpus; what is in
\* a second definition of a type is no defect.  (Graph::Set's "node value already
\* set" is one of the checks.)  Namespaces, base classes and member functions are no
\* defects here: the reader reads them, whatever the comment says that
\* AbortsAsDescribed quotes.
DiesExactly ==
  /\ Read => ~Defective(document)
  /\ outcome \in {"died", "overflowed"} => Defective(document)

\* Once a document has been read, the node of every type id is what its first
\* definition says, whatever was read before, between and inside; and an id with
\* no definition has no node.
TypesExact ==
  Read => \A t \in DOMAIN graph.ids :
    LET definitions == {i \in Kept(document) : IsType(document[i]) /\ document[i].id = t}
    IN  IF definitions = {} THEN ~Is(graph, graph.ids[t])
        ELSE \A i \in definitions : Realises(graph.ids[t], document, i)

\* The main symbol of a symbol of corpus c.
MainOf(d, c, s) ==
  IF \E l \in Listings(d, c) : l[1] = s
  THEN d[(CHOOSE l \in Listings(d, c) : l[1] = s)[2]].symbol ELSE s

SymbolAt(slot, d, c, s) ==
  LET decls == DeclsOf(d, c, MainOf(d, c, s))
      first == Min(decls)
  IN  IF decls = {} THEN At(slot) = Node("ElfSymbol", <<s>>, << >>)
      ELSE /\ At(slot) = Node("ElfSymbol", <<s>> \o QualifiedName(d, first), At(slot).edges)
           /\ IF IsFunction(d[first]) THEN FunctionAt(At(slot).edges[1], d[first])
              ELSE At(slot).edges = Slots(graph, d[first].types)

\* The table has every symbol of every corpus, under the corpus's path, once; and
\* each has the type and the full name of the first declaration of its main
\* symbol in its own corpus, wherever the declaration is.
SymbolsExact ==
  Read =>
    /\ DOMAIN symbols = UNION {{<<document[c].name, s>> : s \in SymbolsOf(document, c)} :
                               c \in Corpora(document)}
    /\ \A c \in Corpora(document) : \A s \in SymbolsOf(document, c) :
         SymbolAt(symbols[<<document[c].name, s>>], document, c, s)

\* Every edge leads to a node.
NoDanglingReferences ==
  \A s \in DOMAIN graph.nodes :
    Is(graph, s) => \A i \in DOMAIN At(s).edges : Is(graph, At(s).edges[i])

NoUnexpectedElements ==
  \A i \in Kept(document) :
    document[i].tag \notin {"namespace-decl", "base-class", "member-function"}

\* abigail_reader.h:50-51: "The parser detects unexpected elements and will abort on the
\* presence of at least: namespace, base class and member function information"; and
\* :60-61: "Dangling type references will cause an abort".  Either is enough for the
\* reader not to read a document that has both.
AbortsAsDescribed == Read => NoDanglingReferences \/ NoUnexpectedElements

\* abigail_reader.cc:775-776: a symbol that two corpora of one path have is
\* reported: "found duplicate symbol"; the reader dies of it.
DuplicatesReported == outcome # "overflowed"
==================================================================================
