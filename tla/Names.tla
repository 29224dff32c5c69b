---------------------------------- MODULE Names ----------------------------------
(***************************************************************************)
(* Names and descriptions of nodes (stg.cc): C declarations put together   *)
(* from the inside out, by a recursion along a graph that may have cycles. *)
(* What has been described is kept in a cache, where a node has a          *)
(* placeholder for as long as it is being described.                       *)
(*                                                                         *)
(* A text is a sequence of tokens, without the white space between them.   *)
(* The recursion is a stack of frames, one for each MakeDescription that   *)
(* has not returned.                                                       *)
(***************************************************************************)
EXTENDS Nodes

CONSTANTS NamedGraphs,  \* the graphs described
          Idle          \* nothing has been asked for

ASSUME NamesAssumption == \A g \in NamedGraphs : IsGraph(g)

VARIABLES graph,
          names,  \* the NameCache
          stack,
          asked   \* the call of GetDescription or GetResolvedDescription, if any

vars == <<graph, names, stack, asked>>

NIL == 0
POINTER == 1
ARRAY_FUNCTION == 2
ATOMIC == 3

Name(left, precedence, right) == [left |-> left, precedence |-> precedence, right |-> right]
Plain(text) == Name(text, NIL, << >>)
Placeholder == Plain(<<"#">>)
Printed(name) == name.left \o name.right

----------------------------------------------------------------------------
(* Class Name.                                                             *)

Bracketed(name, left, precedence, right) ==
  Name(name.left \o <<"(">> \o left, precedence, right \o <<")">> \o name.right)

\* Mutant: an array of arrays is taken for an array of pointers to them.
AddLoosely(name, left, precedence, right) ==
  IF precedence <= name.precedence THEN Bracketed(name, left, precedence, right)
  ELSE Name(name.left \o left, precedence, right \o name.right)

\* Text to the left or to the right, which binds as strongly as precedence says.
Add(name, left, precedence, right) ==
  IF precedence < name.precedence THEN Bracketed(name, left, precedence, right)
  ELSE Name(name.left \o left, precedence, right \o name.right)

QualifierText == <<"const", "volatile", "restrict">>
QualifierTexts(qualifiers) ==
  LET ordered == SetToSortSeq(qualifiers, <)
  IN  [i \in DOMAIN ordered |-> QualifierText[ordered[i] + 1]]

\* Arrays, functions and names have no qualifiers.
Qualifiable(name, qualifiers) == qualifiers = {} \/ name.precedence \in {NIL, POINTER}

Qualify(name, qualifiers) ==
  [name EXCEPT !.left = IF name.precedence = NIL THEN QualifierTexts(qualifiers) \o @
                        ELSE @ \o QualifierTexts(qualifiers)]

----------------------------------------------------------------------------
(* MakeDescription of each kind of node, given the names it asks for.      *)

Text(name) == IF name = 0 THEN << >> ELSE <<ToString(name)>>

Sign(n) == <<"*", "&", "&&">>[n.kind + 1]
Keyword(n) == <<"class", "struct", "union">>[n.kind + 1]
Dimension(n) == <<"[", ToString(n.attributes[1]), "]">>
BitSize(n) == IF n.attributes[2] = 0 THEN << >> ELSE <<":", ToString(n.attributes[2])>>

IsAnonymous(n) == n.type = "StructUnion" /\ n.name = 0 /\ n.definition # Nothing

\* The nodes whose descriptions a node asks for, in this order.  For a qualified
\* node it is the one below all qualifiers, which has to be found first.
Asks(n) ==
  CASE n.type \in {"PointerReference", "Array", "Member"} -> <<n.to>>
    [] n.type = "Function"  -> Append(n.parameters, n.return)
    [] n.type = "ElfSymbol" -> n.to
    [] IsAnonymous(n)       -> n.definition[1].members
    [] OTHER                -> << >>

Separated(texts, separator) ==
  FlattenSeq([i \in DOMAIN texts |-> IF i = 1 THEN texts[i] ELSE separator \o texts[i]])
Ended(texts, end) == FlattenSeq([i \in DOMAIN texts |-> texts[i] \o end])

MakePointer(n, got) == Add(got[1], <<Sign(n)>>, POINTER, << >>)
MakeArray(n, got)   == Add(got[1], << >>, ARRAY_FUNCTION, Dimension(n))

MakeFunction(n, got) ==
  LET parameters == [i \in DOMAIN n.parameters |-> Printed(got[i])]
  IN  Add(Last(got), << >>, ARRAY_FUNCTION,
          <<"(">> \o Separated(parameters, <<",">>) \o <<")">>)

MakeMember(n, got) ==
  LET named == IF n.name = 0 THEN got[1] ELSE Add(got[1], Text(n.name), ATOMIC, << >>)
  IN  IF BitSize(n) = << >> THEN named ELSE Add(named, << >>, ATOMIC, BitSize(n))

MakeElfSymbol(n, got) ==
  IF n.to = Nothing THEN Plain(Text(n.name)) ELSE Add(got[1], Text(n.name), ATOMIC, << >>)

MakeStructUnion(n, got) ==
  Plain(<<Keyword(n)>> \o
        IF IsAnonymous(n)
        THEN <<"{">> \o Ended([i \in DOMAIN got |-> Printed(got[i])], <<";">>) \o <<"}">>
        ELSE Text(n.name))

MakeEnumeration(n) ==
  LET Enumerator(e) == Text(e[1]) \o <<"=", ToString(e[2])>>
      listed(d)     == [i \in DOMAIN d.enumerators |-> Enumerator(d.enumerators[i])]
  IN  Plain(<<"enum">> \o
            IF n.name = 0 /\ n.definition # Nothing
            THEN <<"{">> \o Ended(listed(n.definition[1]), <<",">>) \o <<"}">>
            ELSE Text(n.name))

MakeMethod(n) ==
  Plain(IF n.mangled = n.name THEN Text(n.name)
        ELSE Text(n.name) \o <<"{">> \o Text(n.mangled) \o <<"}">>)

MakeDescription(id, got, qualifiers) ==
  LET n == graph[id]
  IN  CASE n.type = "Void"                  -> Plain(<<"void">>)
        [] n.type = "Variadic"              -> Plain(<<"...">>)
        [] n.type = "Symbols"               -> Plain(<<"symbols">>)
        [] n.type \in {"Typedef", "Integer"} -> Plain(Text(n.name))
        [] n.type = "BaseClass"             -> Plain(Text(MatchingKey(graph, id)))
        [] n.type = "Method"                -> MakeMethod(n)
        [] n.type = "Enumeration"           -> MakeEnumeration(n)
        [] n.type = "StructUnion"           -> MakeStructUnion(n, got)
        [] n.type = "PointerReference"      -> MakePointer(n, got)
        [] n.type = "Array"                 -> MakeArray(n, got)
        [] n.type = "Function"              -> MakeFunction(n, got)
        [] n.type = "Member"                -> MakeMember(n, got)
        [] n.type = "ElfSymbol"             -> MakeElfSymbol(n, got)
        [] n.type = "Qualified"             -> Qualify(got[1], qualifiers)

----------------------------------------------------------------------------
(* GetDescription, GetResolvedDescription.                                 *)

Init ==
  /\ graph \in NamedGraphs
  /\ names = [id \in {} |-> Placeholder]
  /\ stack = << >>
  /\ asked = Idle

\* A frame still has to describe todo and has got the names of what came before.
\* Of a qualified node it first collects the qualifiers.
Frame(id) ==
  LET n == graph[id]
  IN  [node |-> id, todo |-> Asks(n), got |-> << >>,
       under      |-> IF n.type = "Qualified" THEN <<n.to>> ELSE Nothing,
       qualifiers |-> IF n.type = "Qualified" THEN {n.qualifier} ELSE {}]

Top == Last(stack)
WithTop(frame) == Append(Front(stack), frame)
Collecting == stack # << >> /\ Top.under # Nothing

Ask(id, resolve) ==
  /\ asked = Idle
  /\ asked' = [node |-> id, resolve |-> resolve]
  /\ UNCHANGED <<graph, names, stack>>

Resolving ==
  asked # Idle /\ stack = << >> /\ asked.resolve /\ graph[asked.node].type = "Typedef"

\* The names of the typedefs on the way are only printed, and not kept here.
ResolveTypedefs ==
  /\ Resolving
  /\ asked' = [asked EXCEPT !.node = ResolveTypedef(graph[@], << >>).to[1]]
  /\ UNCHANGED <<graph, names, stack>>

\* Mutant: looks at the same node again.
CollectInPlace(frame) ==
  LET resolved == ResolveQualifier(graph[frame.under[1]], frame.qualifiers)
  IN  [frame EXCEPT !.qualifiers = resolved.qualifiers,
                    !.under = IF resolved.to = Nothing THEN Nothing ELSE @,
                    !.todo  = IF resolved.to = Nothing THEN frame.under ELSE @]

Collect(frame) ==
  LET resolved == ResolveQualifier(graph[frame.under[1]], frame.qualifiers)
  IN  [frame EXCEPT !.qualifiers = resolved.qualifiers, !.under = resolved.to,
                    !.todo = IF resolved.to = Nothing THEN frame.under ELSE @]

CollectQualifier ==
  /\ Collecting
  /\ stack' = WithTop(Collect(Top))
  /\ UNCHANGED <<graph, names, asked>>

\* The node GetDescription is being called for.
Called ==
  CASE asked = Idle \/ Resolving \/ Collecting -> Nothing
    [] asked # Idle /\ ~Resolving /\ stack = << >> -> <<asked.node>>
    [] stack # << >> /\ ~Collecting -> IF Top.todo = << >> THEN Nothing ELSE <<Head(Top.todo)>>

\* Mutant: the placeholder replaces what is in the cache.
InsertAlways(id) == (id :> Placeholder) @@ names

\* A node gets its placeholder at most once.
Insert(id) == IF id \in DOMAIN names THEN names ELSE (id :> Placeholder) @@ names

GetDescription ==
  /\ Called # Nothing
  /\ LET id == Called[1]
     IN  /\ names' = Insert(id)
         /\ CASE id \notin DOMAIN names -> stack' = Append(stack, Frame(id)) /\ UNCHANGED asked
              [] id \in DOMAIN names /\ stack = << >> -> asked' = Idle /\ UNCHANGED stack
              [] id \in DOMAIN names /\ stack # << >> ->
                   /\ stack' = WithTop([Top EXCEPT !.todo = Tail(@), !.got = Append(@, names[id])])
                   /\ UNCHANGED asked
  /\ UNCHANGED graph

\* The description replaces the placeholder.
Return ==
  /\ asked # Idle /\ stack # << >> /\ ~Collecting /\ Top.todo = << >>
  /\ Top.qualifiers # {} => Qualifiable(Top.got[1], Top.qualifiers)
  /\ names' = [names EXCEPT ![Top.node] = MakeDescription(Top.node, Top.got, Top.qualifiers)]
  /\ stack' = Front(stack)
  /\ UNCHANGED <<graph, asked>>

Step == ResolveTypedefs \/ CollectQualifier \/ GetDescription \/ Return

Next == Step \/ \E id \in DOMAIN graph, resolve \in BOOLEAN : Ask(id, resolve)

\* A description that has been asked for is worked on.
Spec == Init /\ [][Next]_vars /\ WF_vars(Step)
==================================================================================
