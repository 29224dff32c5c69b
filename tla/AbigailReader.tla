------------------------------ MODULE AbigailReader ------------------------------
(***************************************************************************)
(* abigail_reader.cc: from an ABI XML document to a graph of nodes.        *)
(* Types refer to each other by ids that may be used before (or without)   *)
(* being defined, so a graph slot is allocated when an id is first seen    *)
(* and set when its definition has been read; types nest in classes and    *)
(* namespaces; and symbols find their types through declarations that may  *)
(* come before or after them, under the name of another symbol.            *)
(*                                                                         *)
(* A document is its elements in document order, each with the number of   *)
(* the element it is in (0 for the root).  The recursive descent is a      *)
(* stack of the elements being read.  What only wraps another element      *)
(* (abi-instr, elf-*-symbols, member-type, the declaration inside a        *)
(* data-member or member-function) is left out.  A full name is the        *)
(* sequence of its parts.  The values of attributes are left out, but not  *)
(* that one may be missing or bad, where the handler of the element looks  *)
(* for it or, for some of those of symbols, when the corpus has been read. *)
(***************************************************************************)
EXTENDS GraphBuilder

CONSTANTS Documents,  \* the documents read
          Variadic,   \* in a parameter list: is-variadic
          NoSymbol,   \* a declaration without an elf-symbol-id
          NoPath,     \* the path of a corpus that is not in a group
          Anonymous   \* a class or an enumeration without a name

VARIABLES document,
          at,       \* the next element
          open,     \* the stack of elements being read
          graph,    \* the slots, and Typing: the ids seen, the variadic type
          scope,    \* scope_name_
          corpus,   \* Corpus: its symbols, aliases and declarations
          symbols,  \* the symbols of all corpora read
          outcome

vars == <<document, at, open, graph, scope, corpus, symbols, outcome>>

TypeTags == {"typedef-decl", "pointer-type-def", "qualified-type-def", "array-type-def",
             "type-decl", "enum-decl", "class-decl", "function-type"}
UserDefinedTags == {"typedef-decl", "class-decl", "enum-decl"}
ScopeTags  == TypeTags \cup {"namespace-decl", "var-decl", "function-decl"}
MemberTags == UserDefinedTags \cup {"data-member", "base-class", "member-function"}

NewGraph  == [nodes |-> << >>, ids |-> NoMap, variadic |-> 0]
NewCorpus == [info |-> NoMap, main |-> NoMap, declared |-> NoMap]

Init ==
  /\ document \in Documents
  /\ at = 1
  /\ open = << >>
  /\ graph = NewGraph
  /\ scope = << >>
  /\ corpus = NewCorpus
  /\ symbols = NoMap
  /\ outcome = "reading"

Top == Last(open)
E == document[at]

\* The element being read has another child.
More == at <= Len(document) /\ E.in = (IF open = << >> THEN 0 ELSE Top.element)

InScope  == open # << >> /\ document[Top.element].tag \in {"abi-corpus", "namespace-decl"}
InClass  == open # << >> /\ document[Top.element].tag = "class-decl"

----------------------------------------------------------------------------
(* Typing.                                                                 *)

GetVariadic(g) ==
  IF g.variadic # 0 THEN g
  ELSE [Add(g, Node("Variadic", << >>, << >>)) EXCEPT !.variadic = LastSlot(g) + 1]

GetEdge(g, t) == IF t = Variadic THEN GetVariadic(g) ELSE GetNode(g, t)
GetEdges(g, types) == FoldLeft(GetEdge, g, types)

Slot(g, t) == IF t = Variadic THEN g.variadic ELSE g.ids[t]
Slots(g, types) == [i \in DOMAIN types |-> Slot(g, types[i])]

----------------------------------------------------------------------------
(* One element: what the handlers of elements without children make of it. *)

FullName(name) == Append(scope, name)

\* A node whose edges are the types it names.
Linked(g, slot, kind, label, types) ==
  LET linked == GetEdges(g, types)
  IN  Set(linked, slot, Node(kind, label, Slots(linked, types)))

\* Mutant: the parts in the order they are listed in.
ChainUnreversed(g, slot, kind, parts, t) ==
  LET linked == GetNode(g, t)
      n      == Len(parts)
      Below(k) == IF k = 1 THEN Slot(linked, t) ELSE LastSlot(linked) + k - 1
      inner  == [k \in 1 .. n - 1 |-> Node(kind, <<parts[k]>>, <<Below(k)>>)]
  IN  Set([linked EXCEPT !.nodes = @ \o inner], slot, Node(kind, <<parts[n]>>, <<Below(n)>>))

\* Nodes are added from the inside out, all but the outermost, which is set into
\* place; the element lists its parts outermost first.
Chain(g, slot, kind, parts, t) ==
  LET linked == GetNode(g, t)
      n      == Len(parts)
      Below(k) == IF k = 1 THEN Slot(linked, t) ELSE LastSlot(linked) + k - 1
      inner  == [k \in 1 .. n - 1 |-> Node(kind, <<parts[n + 1 - k]>>, <<Below(k)>>)]
  IN  Set([linked EXCEPT !.nodes = @ \o inner], slot, Node(kind, <<parts[1]>>, <<Below(n)>>))

ProcessQualified(g, slot, e) == Chain(g, slot, "Qualified", e.parts, e.types[1])
ProcessArray(g, slot, e)     == Chain(g, slot, "Array", e.parts, e.types[1])
ProcessTypedef(g, slot, e)   == Linked(g, slot, "Typedef", FullName(e.name), e.types)
ProcessPointer(g, slot, e)   == Linked(g, slot, "PointerReference", << >>, e.types)

ProcessTypeDecl(g, slot, e) ==
  Set(g, slot, IF FullName(e.name) = <<"void">> THEN Node("Void", << >>, << >>)
               ELSE Node("Integer", FullName(e.name), << >>))

\* The name of what may be anonymous.
ClassName(e) == IF e.name = Anonymous THEN << >> ELSE FullName(e.name)

\* The underlying type of an enumeration is looked up and not used.
ProcessEnum(g, slot, e) ==
  Set(GetEdges(g, e.types), slot, Node("Enumeration", ClassName(e), << >>))

\* A function needs exactly one return type, after its parameters.
WellFormedFunction(e) == Len(e.returns) = 1

FunctionTypes(e) == e.types \o e.returns
ProcessFunctionType(g, slot, e) == Linked(g, slot, "Function", << >>, FunctionTypes(e))

\* MakeFunctionType, added to the graph: the type of a declaration.
AddFunction(g, e) ==
  LET linked == GetEdges(g, FunctionTypes(e))
  IN  Add(linked, Node("Function", << >>, Slots(linked, FunctionTypes(e))))

ProcessForward(g, slot, e) == Set(g, slot, Node("StructUnion", ClassName(e), << >>))

Define(g, slot, e) ==
  CASE e.tag = "typedef-decl"       -> ProcessTypedef(g, slot, e)
    [] e.tag = "pointer-type-def"   -> ProcessPointer(g, slot, e)
    [] e.tag = "qualified-type-def" -> ProcessQualified(g, slot, e)
    [] e.tag = "array-type-def"     -> ProcessArray(g, slot, e)
    [] e.tag = "type-decl"          -> ProcessTypeDecl(g, slot, e)
    [] e.tag = "enum-decl"          -> ProcessEnum(g, slot, e)
    [] e.tag = "function-type"      -> ProcessFunctionType(g, slot, e)
    [] e.tag = "class-decl"         -> ProcessForward(g, slot, e)

----------------------------------------------------------------------------
(* The steps.                                                              *)

Reading == outcome = "reading"

Die == outcome' = "died" /\ UNCHANGED <<document, at, open, graph, scope, corpus, symbols>>

Frame(slot, name) == [element |-> at, slot |-> slot, name |-> name, old_size |-> Len(scope),
                      bases |-> << >>, methods |-> << >>, members |-> << >>]

Descend(slot, name) == open' = Append(open, Frame(slot, name)) /\ at' = at + 1
Leave == open' = Front(open) /\ scope' = SubSeq(scope, 1, Top.old_size)

\* The element numbers around each element.
Within(d) ==
  LET within[i \in DOMAIN d] == IF d[i].in = 0 THEN {} ELSE {d[i].in} \cup within[d[i].in]
  IN  within

\* The first element that is not in element i.
After(i) ==
  CHOOSE j \in i + 1 .. Len(document) + 1 :
    /\ j <= Len(document) => i \notin Within(document)[j]
    /\ \A k \in i + 1 .. j - 1 : i \in Within(document)[k]

\* The tags of the elements that may be in another.
AllowedIn(tag) ==
  CASE tag = "abi-corpus"     -> ScopeTags \cup {"elf-symbol"}
    [] tag = "namespace-decl" -> ScopeTags
    [] OTHER                  -> MemberTags

AlreadyDefined(g, t) == t \in DOMAIN g.ids /\ Is(g, g.ids[t])

\* An element with the id of a type that has been defined, which is skipped with
\* all there is in it before its tag is looked at.
IsDuplicate(e) == e.tag \in TypeTags /\ AlreadyDefined(graph, e.id)

SkipDuplicate ==
  /\ Reading /\ More /\ IsDuplicate(E)
  /\ at' = After(at)
  /\ UNCHANGED <<document, open, graph, scope, corpus, symbols, outcome>>

Recognised(e) ==
  e.tag \in IF open = << >> THEN {"abi-corpus"} ELSE AllowedIn(document[Top.element].tag)

\* No attribute that the handler of the element looks for is missing or bad.
Readable(e) == e.flaw # "own"

Refuse == Reading /\ More /\ ~IsDuplicate(E) /\ ~(Recognised(E) /\ Readable(E)) /\ Die

Handled == Reading /\ More /\ Readable(E)

DefinesType ==
  Handled /\ E.tag \in TypeTags /\ Recognised(E) /\ ~IsDuplicate(E)

HasChildren(e) == e.tag = "class-decl" /\ ~e.forward

DefineType ==
  /\ DefinesType
  /\ ~HasChildren(E)
  /\ IF E.tag = "function-type" /\ ~WellFormedFunction(E) THEN Die
     ELSE LET g == GetNode(graph, E.id)
          IN  /\ graph' = Define(g, Slot(g, E.id), E)
              /\ at' = at + 1
              /\ UNCHANGED <<document, open, scope, corpus, symbols, outcome>>

EnterStructUnion ==
  /\ DefinesType
  /\ HasChildren(E)
  /\ graph' = GetNode(graph, E.id)
  /\ Descend(Slot(graph', E.id), ClassName(E))
  /\ scope' = FullName(E.name)
  /\ UNCHANGED <<document, corpus, symbols, outcome>>

LeaveStructUnion ==
  /\ Reading /\ InClass /\ ~More
  /\ IF Is(graph, Top.slot) THEN Die
     ELSE /\ Leave
          /\ graph' = Set(graph, Top.slot,
               Node("StructUnion", Top.name, Top.bases \o Top.methods \o Top.members))
          /\ UNCHANGED <<document, at, corpus, symbols, outcome>>

EnterNamespace ==
  /\ Handled /\ InScope /\ E.tag = "namespace-decl"
  /\ Descend(0, << >>)
  /\ scope' = FullName(E.name)
  /\ UNCHANGED <<document, graph, corpus, symbols, outcome>>

LeaveNamespace ==
  /\ Reading /\ InScope /\ ~More /\ document[Top.element].tag = "namespace-decl"
  /\ Leave
  /\ UNCHANGED <<document, at, graph, corpus, symbols, outcome>>

\* ProcessDecl: the type declared, and the symbol that gets it.
IsFunction(e) == e.tag \in {"function-decl", "member-function"}
Declared(g, e) == IF IsFunction(e) THEN AddFunction(g, e) ELSE GetEdge(g, e.types[1])
DeclaredSlot(g, e) == IF IsFunction(e) THEN LastSlot(g) ELSE Slot(g, e.types[1])

\* Mutant: a second declaration of a symbol is always refused.
Redeclared(e, slot) == e.symbol \in DOMAIN corpus.declared

Conflict(e, slot) ==
  e.symbol \in DOMAIN corpus.declared /\ corpus.declared[e.symbol].slot # slot

WithDeclaration(e, slot) ==
  IF e.symbol = NoSymbol \/ e.symbol \in DOMAIN corpus.declared THEN corpus
  ELSE [corpus EXCEPT !.declared =
          (e.symbol :> [slot |-> slot, name |-> FullName(e.name)]) @@ @]

\* A field of the class being read gets a new node.
Gain(g, field, node) ==
  /\ graph' = Add(g, node)
  /\ open' = [open EXCEPT ![Len(open)][field] = Append(@, LastSlot(g) + 1)]

\* A member function is a declaration and a node of its class.
IsDeclaration ==
  \/ InScope /\ E.tag \in {"var-decl", "function-decl"}
  \/ InClass /\ E.tag = "member-function"
  \/ InClass /\ E.tag = "data-member" /\ E.static

ProcessDecl ==
  /\ Handled /\ IsDeclaration
  /\ LET g    == Declared(graph, E)
         slot == DeclaredSlot(g, E)
     IN  IF (IsFunction(E) /\ ~WellFormedFunction(E)) \/ Conflict(E, slot) THEN Die
         ELSE /\ corpus' = WithDeclaration(E, slot)
              /\ IF E.tag = "member-function"
                 THEN Gain(g, "methods", Node("Method", <<E.name>>, <<slot>>))
                 ELSE graph' = g /\ UNCHANGED open
              /\ at' = at + 1
              /\ UNCHANGED <<document, scope, symbols, outcome>>

DataMember ==
  /\ Handled /\ InClass /\ E.tag = "data-member" /\ ~E.static
  /\ LET g == GetEdge(graph, E.types[1])
     IN  Gain(g, "members", Node("Member", <<E.name>>, <<Slot(g, E.types[1])>>))
  /\ at' = at + 1
  /\ UNCHANGED <<document, scope, corpus, symbols, outcome>>

ProcessBaseClass ==
  /\ Handled /\ InClass /\ E.tag = "base-class"
  /\ LET g == GetEdge(graph, E.types[1])
     IN  Gain(g, "bases", Node("BaseClass", << >>, <<Slot(g, E.types[1])>>))
  /\ at' = at + 1
  /\ UNCHANGED <<document, scope, corpus, symbols, outcome>>

EnterCorpus ==
  /\ Handled /\ open = << >> /\ E.tag = "abi-corpus"
  /\ Descend(0, << >>)
  /\ corpus' = NewCorpus
  /\ UNCHANGED <<document, graph, scope, symbols, outcome>>

\* The aliases of a symbol, each with the symbol that lists it.
Aliases(e) == [a \in ToSet(e.aliases) |-> e.symbol]

AliasTwice(e) ==
  \/ ToSet(e.aliases) \cap DOMAIN corpus.main # {}
  \/ ~IsInjective(e.aliases)

ProcessSymbol ==
  /\ Handled /\ InScope /\ E.tag = "elf-symbol"
  /\ document[Top.element].tag = "abi-corpus"
  /\ IF E.symbol \in DOMAIN corpus.info \/ AliasTwice(E) THEN Die
     ELSE /\ corpus' = [corpus EXCEPT !.info = (E.symbol :> at) @@ @, !.main = Aliases(E) @@ @]
          /\ at' = at + 1
          /\ UNCHANGED <<document, open, graph, scope, symbols, outcome>>

\* Mutant: aliases are not resolved.
LookupItself(s) == s

\* BuildSymbols: the declaration of a symbol is that of its main symbol.
Lookup(s) == IF s \in DOMAIN corpus.main THEN corpus.main[s] ELSE s

BuildSymbol(s) ==
  IF Lookup(s) \in DOMAIN corpus.declared
  THEN LET d == corpus.declared[Lookup(s)] IN Node("ElfSymbol", <<s>> \o d.name, <<d.slot>>)
  ELSE Node("ElfSymbol", <<s>>, << >>)

MainIsAlias == \E a \in DOMAIN corpus.main : corpus.main[a] \in DOMAIN corpus.main

\* What BuildSymbol reads of the elements of symbols.
SymbolsReadable == \A s \in DOMAIN corpus.info : document[corpus.info[s]].flaw # "late"

\* A symbol's key is printed when it is a duplicate; the operator that prints a
\* key calls itself to print a key with a path.
PrintKey(path) == IF path = NoPath THEN "died" ELSE "overflowed"

\* The symbols of the corpus join those of the corpora read before, in the order
\* of an unordered_map.
LeaveCorpus ==
  /\ Reading /\ InScope /\ ~More /\ document[Top.element].tag = "abi-corpus"
  /\ LET path == document[Top.element].name
         names == DOMAIN corpus.info
         Key(s) == <<path, s>>
     IN  IF MainIsAlias \/ ~SymbolsReadable THEN Die
         ELSE IF {Key(s) : s \in names} \cap DOMAIN symbols # {}
         THEN /\ outcome' = PrintKey(path)
              /\ UNCHANGED <<document, at, open, graph, scope, corpus, symbols>>
         ELSE \E order \in SetToSeqs(names) :
                /\ Leave
                /\ graph' = [graph EXCEPT !.nodes =
                               @ \o [i \in DOMAIN order |-> BuildSymbol(order[i])]]
                /\ symbols' = [k \in {Key(s) : s \in names} |->
                                 LastSlot(graph) + (CHOOSE i \in DOMAIN order : Key(order[i]) = k)]
                              @@ symbols
                /\ UNCHANGED <<document, at, corpus, outcome>>

\* ProcessRoot adds the node of the symbol table.
Finish ==
  /\ Reading /\ open = << >> /\ at > Len(document)
  /\ graph' = Add(graph, Node("Symbols", << >>, << >>))
  /\ outcome' = "read"
  /\ UNCHANGED <<document, at, open, scope, corpus, symbols>>

Done == ~Reading /\ UNCHANGED vars

Next ==
  \/ Refuse
  \/ SkipDuplicate
  \/ DefineType
  \/ EnterStructUnion
  \/ LeaveStructUnion
  \/ EnterNamespace
  \/ LeaveNamespace
  \/ ProcessDecl
  \/ DataMember
  \/ ProcessBaseClass
  \/ EnterCorpus
  \/ ProcessSymbol
  \/ LeaveCorpus
  \/ Finish
  \/ Done

Spec == Init /\ [][Next]_vars
==================================================================================
