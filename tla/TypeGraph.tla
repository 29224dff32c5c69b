--------------------------------- MODULE TypeGraph --------------------------------
(***************************************************************************)
(* The type graph of stg.h and the node comparison of stg.cc: steps 3 to 5 *)
(* of Compare and the Equals of every kind of node, as the plan of each    *)
(* comparison, and Compare of two roots under those plans.                 *)
(***************************************************************************)
EXTENDS Compare, OrderSpec, Nodes

CONSTANTS Left, Right,  \* the ids of the nodes read from the two inputs
          Graphs,       \* the graphs compared: [nodes, roots]
          Options       \* the CompareOptions: sets of changes to ignore

Absent == 0

ASSUME GraphAssumption ==
  /\ Left \cup Right \subseteq Nat \ {Absent}
  /\ Comparison = Left \X Right
  /\ OneSided = (Left \X {Absent}) \cup ({Absent} \X Right)
  /\ Options \subseteq SUBSET {"symbol type presence", "type declaration status"}
  /\ \A g \in Graphs : IsGraph(g.nodes) /\ g.roots \in Comparison

--------------------------------------------------------------------------------
(***************************************************************************)
(* Plans: what a Result is made of.                                        *)
(***************************************************************************)
NodeDiffIf(condition) == IF condition THEN <<[kind |-> "node diff"]>> ELSE Nothing

\* One for each attribute that changed.
AttributeDiffs(attributes1, attributes2) ==
  FlattenSeq([i \in DOMAIN attributes1 |-> NodeDiffIf(attributes1[i] # attributes2[i])])

\* As many node differences as S has elements.
NodeDiffs(S) == [i \in 1 .. Cardinality(S) |-> [kind |-> "node diff"]]

Recurse(id1, id2) == <<[kind |-> "compare", to |-> <<id1, id2>>]>>

Removed(id) == <<[kind |-> "one-sided", to |-> <<id, Absent>>]>>

Added(id) == <<[kind |-> "one-sided", to |-> <<Absent, id>>]>>

Compared(holds, items) == [holds |-> holds, items |-> items]

Incomparables == Compared(FALSE, <<[kind |-> "incomparable"]>>)

--------------------------------------------------------------------------------
(***************************************************************************)
(* Qualifiers and typedefs.                                                *)
(***************************************************************************)
RECURSIVE ResolveQualifiers(_, _, _)
ResolveQualifiers(g, id, qualifiers) ==
  LET resolved == ResolveQualifier(g[id], qualifiers)
  IN  IF resolved.to = Nothing THEN [id |-> id, qualifiers |-> resolved.qualifiers]
      ELSE ResolveQualifiers(g, resolved.to[1], resolved.qualifiers)

RECURSIVE ResolveTypedefs(_, _, _)
ResolveTypedefs(g, id, typedefs) ==
  LET resolved == ResolveTypedef(g[id], typedefs)
  IN  IF resolved.to = Nothing THEN [id |-> id, typedefs |-> typedefs]
      ELSE ResolveTypedefs(g, resolved.to[1], resolved.typedefs)

--------------------------------------------------------------------------------
(***************************************************************************)
(* Matching of members, base classes, methods and enumerators by name.     *)
(***************************************************************************)
\* A node without a key gets "#anon#" and its number among those, which sorts
\* before every name and, up to AnonLimit of them, in order of the number.
AnonLimit == 10

\* Mutant: the keys are not sorted.
UnsortedKeys(keys) ==
  LET Anonymous(i) == Cardinality({j \in 1 .. i : keys[j] = 0})
  IN  [i \in DOMAIN keys |->
         <<IF keys[i] = 0 THEN Anonymous(i) ELSE AnonLimit + keys[i], i>>]

SortedKeys(keys) ==
  LET Anonymous(i) == Cardinality({j \in 1 .. i : keys[j] = 0})
  IN  SortSeq([i \in DOMAIN keys |->
                 <<IF keys[i] = 0 THEN Anonymous(i) ELSE AnonLimit + keys[i], i>>],
              LAMBDA x, y : x[1] < y[1] \/ (x[1] = y[1] /\ x[2] < y[2]))

MatchingKeys(g, ids) == SortedKeys([i \in DOMAIN ids |-> MatchingKey(g, ids[i])])

\* The merge of two sequences sorted by key into pairs of optional indices.
RECURSIVE PairUp(_, _)
PairUp(keys1, keys2) ==
  IF keys1 = << >> /\ keys2 = << >> THEN << >>
  ELSE IF keys2 = << >> \/ (keys1 # << >> /\ keys1[1][1] < keys2[1][1])
       THEN <<<<keys1[1][2], None>>>> \o PairUp(Tail(keys1), keys2)
  ELSE IF keys1 = << >> \/ keys1[1][1] > keys2[1][1]
       THEN <<<<None, keys2[1][2]>>>> \o PairUp(keys1, Tail(keys2))
  ELSE <<<<keys1[1][2], keys2[1][2]>>>> \o PairUp(Tail(keys1), Tail(keys2))

\* Reorder, by what module Order shows of it.
Reorder(pairs) == SortSeq(pairs, LAMBDA x, y : Before(pairs, x, y))

CompareNodes(g, nodes1, nodes2, reorder) ==
  LET pairs   == PairUp(MatchingKeys(g, nodes1), MatchingKeys(g, nodes2))
      ordered == IF reorder THEN Reorder(pairs) ELSE pairs
  IN  FlattenSeq([i \in DOMAIN ordered |->
                CASE ordered[i][2] = None -> Removed(nodes1[ordered[i][1]])
                  [] ordered[i][1] = None -> Added(nodes2[ordered[i][2]])
                  [] OTHER -> Recurse(nodes1[ordered[i][1]], nodes2[ordered[i][2]])])

--------------------------------------------------------------------------------
(***************************************************************************)
(* Equals, for two nodes n1 and n2 of the same type.                       *)
(***************************************************************************)
\* Void and Variadic have nothing to compare; Compare never asks this of a
\* Typedef or a Qualified, where Equals dies.
EqualsPointerReference(n1, n2) ==
  IF n1.kind # n2.kind THEN Incomparables ELSE Compared(FALSE, Recurse(n1.to, n2.to))

\* The byte size only counts if neither bit size gives it.
EqualsInteger(n1, n2) ==
  Compared(FALSE,
           AttributeDiffs(<<n1.encoding, n1.bitsize>>, <<n2.encoding, n2.bitsize>>)
             \o NodeDiffIf(/\ n1.bitsize # n1.bytesize * 8
                           /\ n2.bitsize # n2.bytesize * 8
                           /\ n1.bytesize # n2.bytesize))

\* Array, BaseClass, Method, Member.
EqualsAttributesAndType(n1, n2) ==
  Compared(FALSE, AttributeDiffs(n1.attributes, n2.attributes) \o Recurse(n1.to, n2.to))

\* One side declared and the other defined is a difference, unless ignored.
CompareDefined(o, n1, n2) ==
  NodeDiffIf(/\ "type declaration status" \notin o
             /\ (n1.definition = Nothing) # (n2.definition = Nothing))

\* What to go on with if both nodes are defined.
IfDefined(o, n1, n2, Items(_, _)) ==
  IF n1.definition # Nothing /\ n2.definition # Nothing
  THEN Items(n1.definition[1], n2.definition[1])
  ELSE CompareDefined(o, n1, n2)

\* Mutant: the comparison of two named types does not hold differences.
NeverHolds(n) == FALSE

\* Two identically named types hold differences, anonymous ones do not.
Named(n) == n.name # 0

EqualsStructUnion(g, o, n1, n2) ==
  LET Items(d1, d2) == NodeDiffIf(d1.bytesize # d2.bytesize)
                         \o CompareNodes(g, d1.base_classes, d2.base_classes, TRUE)
                         \o CompareNodes(g, d1.methods, d2.methods, FALSE)
                         \o CompareNodes(g, d1.members, d2.members, TRUE)
  IN  IF n1.kind # n2.kind \/ n1.name # n2.name THEN Incomparables
      ELSE Compared(Named(n1), IfDefined(o, n1, n2, Items))

EqualsEnumeration(o, n1, n2) ==
  LET Names(d) == SortedKeys([i \in DOMAIN d.enumerators |-> d.enumerators[i][1]])
      Items(d1, d2) ==
        LET pairs == Reorder(PairUp(Names(d1), Names(d2)))
        IN  NodeDiffIf(d1.bytesize # d2.bytesize)
              \o FlattenSeq([i \in DOMAIN pairs |->
                    NodeDiffIf(\/ None \in {pairs[i][1], pairs[i][2]}
                               \/ d1.enumerators[pairs[i][1]][2]
                                    # d2.enumerators[pairs[i][2]][2])])
  IN  IF n1.name # n2.name THEN Incomparables
      ELSE Compared(Named(n1), IfDefined(o, n1, n2, Items))

\* Mutant: only the parameters of the first function are looked at.
FirstParameters(p1, p2) ==
  FlattenSeq([i \in DOMAIN p1 |->
                IF i \in DOMAIN p2 THEN Recurse(p1[i], p2[i]) ELSE Removed(p1[i])])

CompareParameters(p1, p2) ==
  FlattenSeq([i \in DOMAIN p1 \cup DOMAIN p2 |->
                CASE i \notin DOMAIN p2 -> Removed(p1[i])
                  [] i \notin DOMAIN p1 -> Added(p2[i])
                  [] OTHER -> Recurse(p1[i], p2[i])])

EqualsFunction(n1, n2) ==
  Compared(FALSE, Recurse(n1.return, n2.return)
                    \o CompareParameters(n1.parameters, n2.parameters))

EqualsElfSymbol(o, n1, n2) ==
  Compared(FALSE,
           NodeDiffIf(n1.name # n2.name)
             \o (IF n1.version # Nothing /\ n2.version # Nothing
                 THEN AttributeDiffs(n1.version[1], n2.version[1])
                 ELSE NodeDiffIf(n1.version # n2.version))
             \o AttributeDiffs(n1.attributes, n2.attributes)
             \o (IF n1.to # Nothing /\ n2.to # Nothing THEN Recurse(n1.to[1], n2.to[1])
                 ELSE IF "symbol type presence" \in o THEN Nothing
                 ELSE IF n1.to # Nothing THEN Removed(n1.to[1])
                 ELSE IF n2.to # Nothing THEN Added(n2.to[1])
                 ELSE Nothing))

\* Symbols map keys, numbered in their order, to ids; removed symbols come
\* first, then added ones, then those in both.
EqualsSymbols(n1, n2) ==
  LET Keys(symbols) == SetToSortSeq({<<k, k>> : k \in DOMAIN symbols},
                                    LAMBDA x, y : x[1] < y[1])
      pairs         == PairUp(Keys(n1.symbols), Keys(n2.symbols))
      IsRemoved(p)  == p[2] = None
      IsAdded(p)    == p[1] = None
      InBoth(p)     == ~IsRemoved(p) /\ ~IsAdded(p)
      removed       == SelectSeq(pairs, IsRemoved)
      added         == SelectSeq(pairs, IsAdded)
      in_both       == SelectSeq(pairs, InBoth)
  IN  Compared(TRUE,
        FlattenSeq([i \in DOMAIN removed |-> Removed(n1.symbols[removed[i][1]])])
          \o FlattenSeq([i \in DOMAIN added |-> Added(n2.symbols[added[i][2]])])
          \o FlattenSeq([i \in DOMAIN in_both |->
                Recurse(n1.symbols[in_both[i][1]], n2.symbols[in_both[i][2]])]))

Equals(g, o, n1, n2) ==
  CASE n1.type \in {"Void", "Variadic"} -> Compared(FALSE, Nothing)
    [] n1.type = "PointerReference" -> EqualsPointerReference(n1, n2)
    [] n1.type = "Integer" -> EqualsInteger(n1, n2)
    [] n1.type \in {"Array", "BaseClass", "Method", "Member"} ->
         EqualsAttributesAndType(n1, n2)
    [] n1.type = "StructUnion" -> EqualsStructUnion(g, o, n1, n2)
    [] n1.type = "Enumeration" -> EqualsEnumeration(o, n1, n2)
    [] n1.type = "Function" -> EqualsFunction(n1, n2)
    [] n1.type = "ElfSymbol" -> EqualsElfSymbol(o, n1, n2)
    [] n1.type = "Symbols" -> EqualsSymbols(n1, n2)

--------------------------------------------------------------------------------
(***************************************************************************)
(* Compare, steps 3 to 5.                                                  *)
(***************************************************************************)
\* A typedef comparison holds differences if both sides name the same typedef.
SameTypedef(typedefs1, typedefs2) ==
  typedefs1 # << >> /\ typedefs2 # << >> /\ typedefs1[1] = typedefs2[1]

PlanFor(g, o, id1, id2) ==
  LET unqualified1 == ResolveQualifiers(g, id1, {})
      unqualified2 == ResolveQualifiers(g, id2, {})
      qualifiers1  == unqualified1.qualifiers
      qualifiers2  == unqualified2.qualifiers
      resolved1    == ResolveTypedefs(g, unqualified1.id, << >>)
      resolved2    == ResolveTypedefs(g, unqualified2.id, << >>)
      type1        == g[unqualified1.id]
      type2        == g[unqualified2.id]
  IN  CASE qualifiers1 \cup qualifiers2 # {} ->
             \* 3.1 Qualified type difference.
             Compared(FALSE, NodeDiffs((qualifiers1 \ qualifiers2)
                                         \cup (qualifiers2 \ qualifiers1))
                               \o Recurse(unqualified1.id, unqualified2.id))
        [] qualifiers1 \cup qualifiers2 = {} /\ "Typedef" \in {type1.type, type2.type} ->
             \* 3.2 Typedef difference.
             Compared(SameTypedef(resolved1.typedefs, resolved2.typedefs),
                      Recurse(resolved1.id, resolved2.id))
        [] OTHER ->
             \* 4. Incomparable, or 5. Actually compare.
             IF type1.type # type2.type THEN Incomparables
             ELSE Equals(g, o, type1, type2)

PlansOf(g, o) == [c \in Comparison |-> PlanFor(g.nodes, o, c[1], c[2])]

--------------------------------------------------------------------------------
(***************************************************************************)
(* The comparison of the two roots, with a fresh State.                    *)
(***************************************************************************)
VARIABLES graph, options

graphVars == <<graph, options, vars>>

CompareRootsInit == /\ graph \in Graphs
                    /\ options \in Options
                    /\ plan = PlansOf(graph, options)
                    /\ Fresh

CompareRoots == returned = << >> /\ Start(graph.roots)

RootsCompared == returned # << >> /\ UNCHANGED vars

CompareRootsNext == /\ CompareRoots \/ Step \/ RootsCompared
                    /\ UNCHANGED <<graph, options>>

CompareRootsSpec == CompareRootsInit /\ [][CompareRootsNext]_graphVars

--------------------------------------------------------------------------------
(***************************************************************************)
(* Correctness.                                                            *)
(***************************************************************************)
\* A type seen through its typedefs: its qualifiers, in no order, and the node
\* they apply to.
RECURSIVE Seen(_, _, _)
Seen(g, id, qualifiers) ==
  CASE g[id].type = "Qualified" -> Seen(g, g[id].to, qualifiers \cup {g[id].qualifier})
    [] g[id].type = "Typedef" -> Seen(g, g[id].to, qualifiers)
    [] g[id].type \in {"Array", "Function"} -> [id |-> id, qualifiers |-> {}]
    [] OTHER -> [id |-> id, qualifiers |-> qualifiers]

\* The same children by name, in any order, and each pair related by R.
SameChildren(g, ids1, ids2, R) ==
  \E f \in Bijection(DOMAIN ids1, DOMAIN ids2) :
    \A i \in DOMAIN ids1 :
      /\ MatchingKey(g, ids1[i]) = MatchingKey(g, ids2[f[i]])
      /\ <<ids1[i], ids2[f[i]]>> \in R
      /\ \A j \in 1 .. i - 1 :
           MatchingKey(g, ids1[i]) = MatchingKey(g, ids1[j]) => f[j] < f[i]

SameDefinition(o, n1, n2, Same(_, _)) ==
  \/ /\ n1.definition # Nothing /\ n2.definition # Nothing
     /\ n1.definition[1].bytesize = n2.definition[1].bytesize
     /\ Same(n1.definition[1], n2.definition[1])
  \/ n1.definition = Nothing /\ n2.definition = Nothing
  \/ Nothing \in {n1.definition, n2.definition} /\ "type declaration status" \in o

\* A byte size that says no more than the bit size.
ExactSize(n) == n.bitsize = n.bytesize * 8

\* The two nodes are alike, given that the pairs of types in R are.
Alike(g, o, n1, n2, R) ==
  LET SameMembers(d1, d2) == /\ SameChildren(g, d1.base_classes, d2.base_classes, R)
                             /\ SameChildren(g, d1.methods, d2.methods, R)
                             /\ SameChildren(g, d1.members, d2.members, R)
      SameEnumerators(d1, d2) == /\ Len(d1.enumerators) = Len(d2.enumerators)
                                 /\ Range(d1.enumerators) = Range(d2.enumerators)
  IN  /\ n1.type = n2.type
      /\ CASE n1.type \in {"Void", "Variadic"} -> TRUE
           [] n1.type = "PointerReference" -> n1.kind = n2.kind /\ <<n1.to, n2.to>> \in R
           [] n1.type = "Integer" ->
                /\ <<n1.encoding, n1.bitsize>> = <<n2.encoding, n2.bitsize>>
                /\ \/ n1.bytesize = n2.bytesize
                   \/ ExactSize(n1) \/ ExactSize(n2)
           [] n1.type \in {"Array", "BaseClass", "Method", "Member"} ->
                n1.attributes = n2.attributes /\ <<n1.to, n2.to>> \in R
           [] n1.type = "StructUnion" -> /\ <<n1.kind, n1.name>> = <<n2.kind, n2.name>>
                                         /\ SameDefinition(o, n1, n2, SameMembers)
           [] n1.type = "Enumeration" -> /\ n1.name = n2.name
                                         /\ SameDefinition(o, n1, n2, SameEnumerators)
           [] n1.type = "Function" ->
                /\ <<n1.return, n2.return>> \in R
                /\ Len(n1.parameters) = Len(n2.parameters)
                /\ \A i \in DOMAIN n1.parameters : <<n1.parameters[i], n2.parameters[i]>> \in R
           [] n1.type = "ElfSymbol" ->
                /\ <<n1.name, n1.attributes, n1.version>> = <<n2.name, n2.attributes, n2.version>>
                /\ \/ n1.to # Nothing /\ n2.to # Nothing /\ <<n1.to[1], n2.to[1]>> \in R
                   \/ n1.to = Nothing /\ n2.to = Nothing
                   \/ Nothing \in {n1.to, n2.to} /\ "symbol type presence" \in o
           [] n1.type = "Symbols" ->
                /\ DOMAIN n1.symbols = DOMAIN n2.symbols
                /\ \A k \in DOMAIN n1.symbols : <<n1.symbols[k], n2.symbols[k]>> \in R

\* The pairs of types no observation tells apart: the largest relation whose
\* pairs have the same qualifiers and are alike.
RECURSIVE LargestAlike(_, _, _)
LargestAlike(g, o, R) ==
  LET still == {c \in R : LET seen1 == Seen(g, c[1], {})
                              seen2 == Seen(g, c[2], {})
                          IN  /\ seen1.qualifiers = seen2.qualifiers
                              /\ Alike(g, o, g[seen1.id], g[seen2.id], R)}
  IN  IF still = R THEN R ELSE LargestAlike(g, o, still)

Finally(P) == returned # << >> => P

\* "The referred-to type is exactly identical to the typedef.  So for difference
\* finding, typedefs should just be resolved and skipped over" (doc/DIFFS.md):
\* Compare finds two types equal iff they are the same but for typedef names,
\* for the order of qualifiers, members and enumerators, and for the changes
\* the options ignore.
EqualUpToTypedefs ==
  Finally(\A c \in DOMAIN known :
            known[c] <=> c \in LargestAlike(graph.nodes, options, Comparison))

\* Comparing in the other direction finds the same differences, with removed
\* and added exchanged: whichever node is the longer, the declared one, ...
Mirrored(item) == IF item.kind \in {"compare", "one-sided"}
                  THEN [item EXCEPT !.to = <<@[2], @[1]>>] ELSE item

DirectionsMirror ==
  ~Running =>
    \A c \in Comparison :
      LET back == PlanFor(graph.nodes, options, c[2], c[1])
          Count(items, item) == Cardinality({i \in DOMAIN items : items[i] = item})
      IN  /\ back.holds = plan[c].holds
          /\ Len(back.items) = Len(plan[c].items)
          /\ \A item \in Range(plan[c].items) :
               Count(plan[c].items, item) = Count(back.items, Mirrored(item))

\* Types refer to themselves only through a named struct or union.  So every
\* cycle of comparisons has one that holds its differences, which is what ends
\* the recursion of the reports.
RECURSIVE Acyclic(_, _)
Acyclic(next, S) ==
  LET on == {c \in S : next[c] \cap S # {}}
  IN  IF on = S THEN S = {} ELSE Acyclic(next, on)

HoldersCutCycles ==
  LET Made(c) == {item \in Range(plan[c].items) : IsEdge(item)}
  IN  Finally(Acyclic([c \in Comparison |-> {item.to : item \in Made(c)}],
                      {c \in DOMAIN known : ~plan[c].holds}))

\* No inequality without an explanation: the differences recorded for unequal
\* nodes lead to a node change, a removal or an addition, and those of a
\* comparison that holds differences are never empty (reporting relies on it to
\* end its line).
RECURSIVE Explained(_)
Explained(S) ==
  LET more == {c \in DOMAIN outcomes \cap Comparison :
                 Range(outcomes[c].details) \cap S # {}}
  IN  IF more \subseteq S THEN S ELSE Explained(S \cup more)

DifferencesExplained ==
  Finally(/\ DOMAIN outcomes \subseteq
               Explained({c \in DOMAIN outcomes : c \in OneSided \/ outcomes[c].has_changes})
          /\ \A c \in DOMAIN outcomes : outcomes[c].holds_changes => outcomes[c].details # << >>)
================================================================================
