-------------------------------- MODULE NamesSpec --------------------------------
(***************************************************************************)
(* What descriptions are to be: the C declaration of the node, written     *)
(* from the outside in as its grammar has it, with no cache and no         *)
(* precedences to compare.                                                 *)
(***************************************************************************)
EXTENDS Names

\* The largest set of nodes that each lead to another one of the set.
Unending(S, Leads(_, _)) == UNION {T \in SUBSET S : \A id \in T : \E to \in T : Leads(id, to)}

OfType(type) == {id \in DOMAIN graph : graph[id].type = type}
ToNext(id, to) == to = graph[id].to

\* The nodes from which following qualifiers, or typedefs, never ends.
QualifierLoops == Unending(OfType("Qualified"), ToNext)
TypedefLoops   == Unending(OfType("Typedef"), ToNext)

RECURSIVE Below(_)
Below(id) == IF graph[id].type = "Qualified" THEN Below(graph[id].to) ELSE id

\* The nodes a description is made of.
Uses(id) == IF graph[id].type = "Qualified" THEN {Below(id)} ELSE Range(Asks(graph[id]))

DescriptionUses(id, to) == id \notin QualifierLoops /\ to \in Uses(id)

\* The nodes whose declarations would be endless.
Recursive == Unending(DOMAIN graph, DescriptionUses)

\* The nodes whose descriptions can be made: the largest set that only uses its own.
Describable ==
  UNION {T \in SUBSET (DOMAIN graph \ QualifierLoops) : \A id \in T : Uses(id) \subseteq T}

Parens(d, needed) == IF needed THEN <<"(">> \o d \o <<")">> ELSE d

\* The declaration of declarator d with the type of a node; low if d starts with
\* a pointer, which an array or a function may not follow without parentheses.
RECURSIVE Declare(_, _, _, _)
Declare(id, d, low, qualifiers) ==
  LET n    == graph[id]
      Of(p) == Declare(p, << >>, FALSE, {})
      texts == QualifierTexts(qualifiers)
  IN  CASE n.type = "Qualified" -> Declare(n.to, d, low, qualifiers \cup {n.qualifier})
        [] n.type = "PointerReference" ->
             Declare(n.to, <<Sign(n)>> \o texts \o d, TRUE, {})
        [] n.type = "Array" -> Declare(n.to, Parens(d, low) \o Dimension(n), FALSE, {})
        [] n.type = "Function" ->
             LET parameters == [i \in DOMAIN n.parameters |-> Of(n.parameters[i])]
             IN  Declare(n.return,
                         Parens(d, low) \o <<"(">> \o Separated(parameters, <<",">>) \o <<")">>,
                         FALSE, {})
        [] n.type = "Member" -> Declare(n.to, Text(n.name), FALSE, {}) \o BitSize(n)
        [] n.type = "ElfSymbol" /\ n.to # Nothing -> Declare(n.to[1], Text(n.name), FALSE, {})
        [] IsAnonymous(n) ->
             LET members == n.definition[1].members
             IN  texts \o <<Keyword(n), "{">>
                   \o Ended([i \in DOMAIN members |-> Of(members[i])], <<";">>) \o <<"}">> \o d
        [] OTHER -> texts \o MakeDescription(id, << >>, {}).left \o d

InProgress == {stack[i].node : i \in DOMAIN stack}

\* Whatever was described before and in which order, the cache has for every node
\* whose type is finite its C declaration, parentheses and qualifiers in the right
\* places; only names of nodes that lead into a cycle have the placeholder in
\* them, and all of these do.
NamesExact ==
  \A id \in DOMAIN names \ InProgress :
    IF id \in Recursive THEN "#" \in ToSet(Printed(names[id]))
    ELSE Printed(names[id]) = Declare(id, << >>, FALSE, {})

\* A name that has been made is never made again, nor lost: references to it are
\* held while others are made.  Only a node being described has the placeholder,
\* and no node is described inside its own description.
CacheFinal ==
  [][ /\ \A id \in DOMAIN names \ InProgress : id \in DOMAIN names' /\ names'[id] = names[id]
      /\ \A id \in InProgress : names[id] = Placeholder
      /\ Cardinality(InProgress) = Len(stack) ]_vars

RECURSIVE Aliased(_)
Aliased(id) == IF graph[id].type = "Typedef" THEN Aliased(graph[id].to) ELSE id

CanEnd ==
  IF asked.resolve THEN asked.node \notin TypedefLoops /\ Aliased(asked.node) \in Describable
  ELSE asked.node \in Describable

\* A description ends, although the graph has cycles, unless it leads to a
\* qualifier or typedef that qualifies or names itself, which nothing refuses:
\* then it never ends.
Ends ==
  /\ asked # Idle /\ CanEnd ~> asked = Idle
  /\ [][asked # Idle /\ ~CanEnd => asked' # Idle]_vars
==================================================================================
