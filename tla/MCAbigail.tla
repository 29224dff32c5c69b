-------------------------------- MODULE MCAbigail --------------------------------
(***************************************************************************)
(* Small documents: types that refer to each other and are defined twice,  *)
(* classes and namespaces around them, and the symbols of two corpora with *)
(* aliases and declarations in every order; and attributes that are bad.   *)
(***************************************************************************)
EXTENDS AbigailSpec

CONSTANTS t1, t2,  \* type ids
          NoId,
          s1, s2   \* symbol ids

TypeIds == {t1, t2}

Element(tag) ==
  [tag |-> tag, in |-> 1, id |-> NoId, name |-> tag, types |-> << >>, returns |-> << >>,
   parts |-> << >>, symbol |-> NoSymbol, aliases |-> << >>, forward |-> FALSE, static |-> FALSE,
   flaw |-> "none"]

WithId(e, t)      == [e EXCEPT !.id = t]
WithTypes(e, ts)  == [e EXCEPT !.types = ts]
Typed(tag, id, t) == WithTypes(WithId(Element(tag), id), <<t>>)

Function(e, parameters, returns) == [e EXCEPT !.types = parameters, !.returns = returns]
Signatures == {<<<<>>, <<t1>>>>, <<<<t2, Variadic>>, <<t1>>>>, <<<<Variadic>>, <<t2>>>>}
Malformed  == {<<<<t1>>, <<>>>>, <<<<>>, <<t1, t2>>>>}

Class(id) == WithId(Element("class-decl"), id)

TypeElements ==
  {Typed("typedef-decl", id, t) : id \in TypeIds, t \in TypeIds}
  \cup {Typed("pointer-type-def", id, t2) : id \in TypeIds}
  \cup {[Typed("qualified-type-def", id, t1) EXCEPT !.parts = <<"const", "volatile">>] : id \in TypeIds}
  \cup {[Typed("array-type-def", t1, t2) EXCEPT !.parts = p] : p \in {<<"2">>, <<"2", "3", "4">>}}
  \cup {[WithId(Element("type-decl"), id) EXCEPT !.name = "void"] : id \in TypeIds}
  \cup {Typed("enum-decl", t1, t2), [WithId(Element("enum-decl"), t2) EXCEPT !.name = Anonymous]}
  \cup {Function(WithId(Element("function-type"), t2), f[1], f[2]) : f \in Signatures \cup Malformed}

ClassElements ==
  {[Class(id) EXCEPT !.forward = f] : id \in TypeIds, f \in BOOLEAN}
  \cup {[Class(t1) EXCEPT !.name = Anonymous]}

Inner ==
  {WithTypes(Element("data-member"), <<t>>) : t \in TypeIds}
  \cup {[WithTypes(Element("data-member"), <<t>>) EXCEPT !.static = TRUE, !.symbol = s1] : t \in TypeIds}
  \cup {WithTypes(Element("base-class"), <<t2>>)}
  \cup {Function([Element("member-function") EXCEPT !.symbol = s1], f[1], f[2]) :
          f \in {<<<<t1, Variadic>>, <<t2>>>>}}

Decls ==
  {[WithTypes(Element("var-decl"), <<t>>) EXCEPT !.symbol = s] : t \in TypeIds, s \in {s1, NoSymbol}}
  \cup {Function([Element("function-decl") EXCEPT !.symbol = s1], f[1], f[2]) :
          f \in {<<<<t2>>, <<t1>>>>, <<<<t2>>, <<>>>>}}

Namespace == Element("namespace-decl")

Corpus(path) == [Element("abi-corpus") EXCEPT !.in = 0, !.name = path]
Symbol(s, aliases) == [Element("elf-symbol") EXCEPT !.symbol = s, !.aliases = aliases]

HasInner(e) == e.tag = "namespace-decl" \/ HasChildren(e)

\* The elements of S, each in the corpus or in an element after it.
Placed(S, last) == {[e EXCEPT !.in = i] : e \in S, i \in 1 .. last}

\* Element e may follow: what it is in may have it and is still open.
MayFollow(d, e) ==
  \/ e.in = 0
  \/ /\ e.in <= Len(d)
     /\ HasInner(d[e.in]) \/ d[e.in].tag = "abi-corpus"
     /\ \A k \in e.in + 1 .. Len(d) : d[k].in >= e.in

Extend(D, S) == UNION {{Append(d, e) : e \in {x \in S : MayFollow(d, x)}} : d \in D}

\* The documents of one corpus, and of a group, with an element of each set.
DocumentsOf(sets) == FoldLeft(Extend, {<<Corpus(NoPath)>>}, sets)
GroupsOf(sets)    == FoldLeft(Extend, {<<Corpus("p")>>}, sets)
Repeat(S, n) == DocumentsOf([i \in 1 .. n |-> S])

\* The elements of S, or what is left of them when an attribute is bad.
Flawed(S) == S \cup {[e EXCEPT !.flaw = "own"] : e \in S}
              \cup {[e EXCEPT !.flaw = "late"] : e \in {x \in S : x.tag = "elf-symbol"}}

Types == TypeElements \cup ClassElements
Shallow == Repeat(Placed(Types, 1), 1) \cup Repeat(Placed(Types, 2), 2)

FewTypes ==
  {Typed("typedef-decl", t1, t2), Typed("pointer-type-def", t2, t1), Typed("pointer-type-def", t2, t2),
   [Typed("qualified-type-def", t1, t2) EXCEPT !.parts = <<"const", "volatile">>],
   Function(WithId(Element("function-type"), t2), <<t1, Variadic>>, <<t2>>)}

\* Classes and namespaces, and what may be in them.
Deep ==
  LET S == ClassElements \cup Inner \cup FewTypes \cup {Namespace}
      A == {Class(t1), [Class(t1) EXCEPT !.name = Anonymous], Namespace}
  IN  DocumentsOf(<<A, Placed(S, 2), Placed(S, 3)>>)

Deeper ==
  LET S == {Class(t1), Class(t2), Namespace, Typed("typedef-decl", t2, t1),
            [WithTypes(Element("data-member"), <<t2>>) EXCEPT !.static = TRUE, !.symbol = s1]}
  IN  Repeat(Placed(S, 4), 4)

\* Symbols before and after declarations, with every small choice of aliases.
Symbols ==
  {Symbol(s, l) : s \in {s1, s2}, l \in {<<>>, <<s1>>, <<s2>>, <<s2, s2>>}}

OneCorpus == Repeat(Symbols \cup Decls, 3)

InNamespace ==
  LET S == {Symbol(s1, << >>), Symbol(s2, <<s1>>)}
  IN  DocumentsOf(<<S \cup Decls, {Namespace}, Placed(Decls, 3), S \cup Decls, S>>)

TwoCorpora ==
  LET S == {Symbol(s1, << >>), Symbol(s1, <<s2>>), Symbol(s2, << >>), Class(t1),
            [WithTypes(Element("var-decl"), <<t1>>) EXCEPT !.symbol = s1],
            Function([Element("function-decl") EXCEPT !.symbol = s1], <<t2>>, <<t1>>)}
      T == {[e EXCEPT !.in = 4] : e \in S}
  IN  GroupsOf(<<S, S, {Corpus("p"), Corpus("q")}, T, T>>)

\* Bad attributes, also in a second definition and in corpora of a group.
BadAttributes ==
  LET S == {Class(t1), Namespace, Typed("typedef-decl", t1, t1), Typed("typedef-decl", t2, t1)}
      T == {Class(t1), Typed("typedef-decl", t1, t1), Symbol(s1, << >>), Symbol(s2, <<s1>>),
            WithTypes(Element("data-member"), <<t1>>),
            [WithTypes(Element("var-decl"), <<t1>>) EXCEPT !.symbol = s1]}
  IN  DocumentsOf(<<Flawed(S), Flawed(Placed(T, 2)), Flawed(Placed(T, 3))>>)
      \cup GroupsOf(<<{Symbol(s1, << >>)}, Flawed({Corpus("p"), Corpus("q")}),
                     Flawed({[Symbol(s1, << >>) EXCEPT !.in = 3]})>>)

MCDocuments ==
  Shallow \cup Deep \cup OneCorpus \cup Deeper \cup InNamespace \cup TwoCorpora
  \cup BadAttributes
================================================================================
