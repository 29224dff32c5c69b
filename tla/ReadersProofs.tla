------------------------------ MODULE ReadersProofs ------------------------------
(***************************************************************************)
(* For every set of arguments and files: stginfo and stgdiff refuse what is *)
(* bad and nothing else, and the graph has for every entry of a BTF section *)
(* the node that the entry says.                                           *)
(***************************************************************************)
EXTENDS ReadersSpec, PositionsProofs

--------------------------------------------------------------------------------
(***************************************************************************)
(* Nodes and maps.                                                         *)
(***************************************************************************)

\* A node is not the lack of one.
LEMMA NodesAreSet ==
  ASSUME NEW kind, NEW label, NEW edges
  PROVE  Node(kind, label, edges) # Null
BY DEF Node, Null

\* A reader of types as a record of its parts.
Reader(nodes, ids, void, variadic, symbols) ==
  [nodes |-> nodes, ids |-> ids, void |-> void, variadic |-> variadic, symbols |-> symbols]

IsReader(s) == s = Reader(s.nodes, s.ids, s.void, s.variadic, s.symbols)

\* The parts of a reader are what it was made of.
LEMMA ReaderParts ==
  ASSUME NEW n, NEW i, NEW v, NEW w, NEW y, NEW s, s = Reader(n, i, v, w, y)
  PROVE  /\ IsReader(s)
         /\ s.nodes = n /\ s.ids = i /\ s.void = v /\ s.variadic = w /\ s.symbols = y
BY DEF Reader, IsReader

\* A reader of which one part is another.
LEMMA ReaderExcept ==
  ASSUME NEW s, IsReader(s), NEW x
  PROVE  /\ [s EXCEPT !.nodes = x] = Reader(x, s.ids, s.void, s.variadic, s.symbols)
         /\ [s EXCEPT !.ids = x] = Reader(s.nodes, x, s.void, s.variadic, s.symbols)
         /\ [s EXCEPT !.void = x] = Reader(s.nodes, s.ids, x, s.variadic, s.symbols)
         /\ [s EXCEPT !.variadic = x] = Reader(s.nodes, s.ids, s.void, x, s.symbols)
         /\ [s EXCEPT !.symbols = x] = Reader(s.nodes, s.ids, s.void, s.variadic, x)
BY DEF Reader, IsReader

\* A builder of nodes, and what a reader keeps.
Builder(s) ==
  /\ IsReader(s)
  /\ IsSequence(s.nodes)
  /\ s.ids = [t \in DOMAIN s.ids |-> s.ids[t]]
  /\ \A t \in DOMAIN s.ids : s.ids[t] \in 1 .. Len(s.nodes)
  /\ s.void \in 0 .. Len(s.nodes) /\ s.variadic \in 0 .. Len(s.nodes)

\* The ids have slots of their own, after base; those in D have nodes and the
\* others have none; Void and Variadic are nodes if there are such.
Slots(s, base, D) ==
  /\ Builder(s)
  /\ base \in 0 .. Len(s.nodes)
  /\ \A t \in DOMAIN s.ids : s.ids[t] > base
  /\ \A t, u \in DOMAIN s.ids : s.ids[t] = s.ids[u] => t = u
  /\ D \subseteq DOMAIN s.ids
  /\ \A t \in DOMAIN s.ids : s.nodes[s.ids[t]] = Null <=> t \notin D
  /\ s.void # 0 => s.nodes[s.void] = Node("Void", << >>, << >>)
  /\ s.variadic # 0 => s.nodes[s.variadic] = Node("Variadic", << >>, << >>)

\* The ids, and Void and Variadic, keep their slots.
KeepsIds(s, u) ==
  /\ DOMAIN s.ids \subseteq DOMAIN u.ids
  /\ \A t \in DOMAIN s.ids : u.ids[t] = s.ids[t]
  /\ s.void # 0 => u.void = s.void
  /\ s.variadic # 0 => u.variadic = s.variadic

\* Slots have been added.
Extends(s, u) ==
  /\ Len(s.nodes) <= Len(u.nodes)
  /\ \A k \in 1 .. Len(s.nodes) : u.nodes[k] = s.nodes[k]
  /\ KeepsIds(s, u)
  /\ u.symbols = s.symbols

\* Slots have been added or set, those up to base left as they are.
Grows(s, u, base) ==
  /\ Len(s.nodes) <= Len(u.nodes)
  /\ \A k \in 1 .. Len(s.nodes) : k <= base \/ s.nodes[k] # Null => u.nodes[k] = s.nodes[k]
  /\ KeepsIds(s, u)

\* Adding slots adds up, and is a way to grow.
LEMMA ExtendsFacts ==
  /\ \A s : Builder(s) => Extends(s, s)
  /\ \A s, u, v : Builder(s) /\ Builder(u) /\ Builder(v) /\ Extends(s, u) /\ Extends(u, v)
                    => Extends(s, v)
  /\ \A s, u, b : Extends(s, u) => Grows(s, u, b)
<1>1. \A s : Builder(s) => Extends(s, s)
  <2> TAKE s
  <2> QED BY SequenceFacts DEF Builder, Extends, KeepsIds
<1>2. ASSUME NEW s, NEW u, NEW v, Builder(s), Builder(u), Builder(v), Extends(s, u), Extends(u, v)
      PROVE  Extends(s, v)
  <2>1. Len(s.nodes) \in Nat /\ Len(u.nodes) \in Nat /\ Len(v.nodes) \in Nat
    BY <1>2, SequenceFacts DEF Builder
  <2> QED BY <1>2, <2>1 DEF Builder, Extends, KeepsIds
<1> QED BY <1>1, <1>2 DEF Extends, Grows

\* So does growing.
LEMMA GrowsTransitive ==
  ASSUME NEW s, NEW u, NEW v, NEW b, Builder(s), Builder(u), Builder(v),
         Grows(s, u, b), Grows(u, v, b)
  PROVE  Grows(s, v, b)
<1>1. Len(s.nodes) \in Nat /\ Len(u.nodes) \in Nat /\ Len(v.nodes) \in Nat
  BY SequenceFacts DEF Builder
<1> QED BY <1>1 DEF Builder, Grows, KeepsIds

--------------------------------------------------------------------------------
(***************************************************************************)
(* The builder's own steps.                                                *)
(***************************************************************************)

\* What the builder is with a slot more.
LEMMA AddFields ==
  ASSUME NEW s, Builder(s), NEW node
  PROVE  /\ Builder(Add(s, node))
         /\ Len(s.nodes) \in Nat
         /\ Len(Add(s, node).nodes) = Len(s.nodes) + 1
         /\ Add(s, node).nodes[Len(s.nodes) + 1] = node
         /\ \A k \in 1 .. Len(s.nodes) : Add(s, node).nodes[k] = s.nodes[k]
         /\ Add(s, node).ids = s.ids /\ Add(s, node).symbols = s.symbols
         /\ Add(s, node).void = s.void /\ Add(s, node).variadic = s.variadic
<1> DEFINE u == Add(s, node)
<1>0. u = Reader(Append(s.nodes, node), s.ids, s.void, s.variadic, s.symbols)
  BY ReaderExcept DEF Builder, Add
<1>1. /\ IsReader(u) /\ u.nodes = Append(s.nodes, node)
      /\ u.ids = s.ids /\ u.void = s.void /\ u.variadic = s.variadic /\ u.symbols = s.symbols
  <2> DEFINE q == Append(s.nodes, node)
  <2>1. u = Reader(q, s.ids, s.void, s.variadic, s.symbols)
    BY <1>0
  <2> HIDE DEF u, q
  <2>2. IsReader(u) /\ u.nodes = q /\ u.ids = s.ids /\ u.void = s.void
        /\ u.variadic = s.variadic /\ u.symbols = s.symbols
    BY <2>1, ReaderParts
  <2> QED BY <2>2 DEF q
<1>2. /\ IsSequence(u.nodes) /\ Len(s.nodes) \in Nat /\ Len(u.nodes) = Len(s.nodes) + 1
      /\ u.nodes[Len(s.nodes) + 1] = node
      /\ \A k \in 1 .. Len(s.nodes) : u.nodes[k] = s.nodes[k]
  BY <1>1, AppendAny DEF Builder
<1> HIDE DEF u
<1>3. Builder(u)
  BY <1>1, <1>2 DEF Builder
<1> QED BY <1>1, <1>2, <1>3 DEF u

\* A node that is added has a slot of its own.
LEMMA AddKeeps ==
  ASSUME NEW s, NEW base, NEW D, Slots(s, base, D), NEW node
  PROVE  /\ Slots(Add(s, node), base, D)
         /\ Extends(s, Add(s, node))
         /\ Add(s, node).nodes[LastSlot(Add(s, node))] = node
         /\ LastSlot(Add(s, node)) \in 1 .. Len(Add(s, node).nodes)
         /\ LastSlot(Add(s, node)) = LastSlot(s) + 1
<1> DEFINE u == Add(s, node)
<1>1. Builder(s)
  BY DEF Slots
<1>2. /\ Builder(u) /\ Len(s.nodes) \in Nat /\ Len(u.nodes) = Len(s.nodes) + 1
      /\ u.nodes[Len(s.nodes) + 1] = node
      /\ \A k \in 1 .. Len(s.nodes) : u.nodes[k] = s.nodes[k]
      /\ u.ids = s.ids /\ u.symbols = s.symbols /\ u.void = s.void /\ u.variadic = s.variadic
  BY <1>1, AddFields
<1> HIDE DEF u
<1>3. Slots(u, base, D)
  BY <1>2 DEF Slots, Builder
<1>4. Extends(s, u)
  BY <1>2 DEF Extends, KeepsIds
<1> QED BY <1>2, <1>3, <1>4 DEF u, LastSlot

\* A type id gets a slot of its own when it is first seen.
LEMMA GetNodeKeeps ==
  ASSUME NEW s, NEW base, NEW D, Slots(s, base, D), NEW t
  PROVE  /\ Slots(GetNode(s, t), base, D)
         /\ Extends(s, GetNode(s, t))
         /\ t \in DOMAIN GetNode(s, t).ids
<1>1. CASE t \in DOMAIN s.ids
  BY <1>1, ExtendsFacts DEF GetNode, Slots
<1>2. CASE t \notin DOMAIN s.ids
  <2> DEFINE a == Allocate(s)
             u == [a EXCEPT !.ids = Insert(@, t, LastSlot(s) + 1)]
  <2>1. Builder(s)
    BY DEF Slots
  <2>2. /\ Builder(a) /\ Len(s.nodes) \in Nat /\ Len(a.nodes) = Len(s.nodes) + 1
        /\ a.nodes[Len(s.nodes) + 1] = Null
        /\ \A k \in 1 .. Len(s.nodes) : a.nodes[k] = s.nodes[k]
        /\ a.ids = s.ids /\ a.symbols = s.symbols /\ a.void = s.void /\ a.variadic = s.variadic
    BY <2>1, AddFields DEF Allocate
  <2> HIDE DEF a
  <2>9. u = Reader(a.nodes, Insert(s.ids, t, Len(s.nodes) + 1), a.void, a.variadic, a.symbols)
    <3>1. IsReader(a)
      BY <2>2 DEF Builder
    <3>2. u = [a EXCEPT !.ids = Insert(s.ids, t, Len(s.nodes) + 1)]
      BY <2>2 DEF LastSlot
    <3> HIDE DEF u
    <3> QED BY <2>2, <3>1, <3>2, ReaderExcept
  <2>3. /\ IsReader(u) /\ u.nodes = a.nodes
        /\ u.ids = [k \in DOMAIN s.ids \cup {t} |-> IF k = t THEN Len(s.nodes) + 1 ELSE s.ids[k]]
        /\ u.void = a.void /\ u.variadic = a.variadic /\ u.symbols = a.symbols
    <3>1. Insert(s.ids, t, Len(s.nodes) + 1)
            = [k \in DOMAIN s.ids \cup {t} |-> IF k = t THEN Len(s.nodes) + 1 ELSE s.ids[k]]
      BY <1>2 DEF Insert
    <3> HIDE DEF u
    <3> QED BY <2>9, <3>1, ReaderParts
  <2> HIDE DEF u
  <2>4. /\ DOMAIN u.ids = DOMAIN s.ids \cup {t} /\ u.ids[t] = Len(s.nodes) + 1
        /\ \A k \in DOMAIN s.ids : u.ids[k] = s.ids[k]
        /\ u.ids = [k \in DOMAIN u.ids |-> u.ids[k]]
    BY <1>2, <2>3
  <2>5. /\ u.nodes = a.nodes /\ u.void = s.void /\ u.variadic = s.variadic /\ u.symbols = s.symbols
    BY <2>2, <2>3
  <2>6. Builder(u)
    BY <2>1, <2>2, <2>3, <2>4, <2>5 DEF Builder
  <2>7. Slots(u, base, D)
    <3>1. ASSUME NEW k \in DOMAIN s.ids
          PROVE  /\ u.ids[k] = s.ids[k] /\ u.ids[k] \in 1 .. Len(s.nodes)
                 /\ u.nodes[u.ids[k]] = s.nodes[s.ids[k]]
      BY <2>1, <2>2, <2>4, <2>5 DEF Builder
    <3>2. u.nodes[u.ids[t]] = Null /\ t \notin D
      BY <1>2, <2>2, <2>4, <2>5 DEF Slots
    <3>3. \A k \in DOMAIN u.ids : u.ids[k] > base
      BY <2>2, <2>4, <3>1 DEF Slots
    <3>4. \A k, l \in DOMAIN u.ids : u.ids[k] = u.ids[l] => k = l
      BY <2>2, <2>4, <3>1 DEF Slots
    <3>5. \A k \in DOMAIN u.ids : u.nodes[u.ids[k]] = Null <=> k \notin D
      BY <2>4, <3>1, <3>2 DEF Slots
    <3>6. /\ u.void # 0 => u.nodes[u.void] = Node("Void", << >>, << >>)
          /\ u.variadic # 0 => u.nodes[u.variadic] = Node("Variadic", << >>, << >>)
      BY SMTT(30), <2>1, <2>2, <2>5 DEF Slots, Builder
    <3>7. base \in 0 .. Len(u.nodes)
      BY <2>2, <2>5 DEF Slots
    <3> QED BY <2>4, <2>6, <3>7, <3>3, <3>4, <3>5, <3>6 DEF Slots
  <2>8. Extends(s, u)
    BY <2>2, <2>4, <2>5 DEF Extends, KeepsIds
  <2> QED BY <1>2, <2>4, <2>7, <2>8 DEF GetNode, u, a
<1> QED BY <1>1, <1>2

\* Void and Variadic get a slot when they are first asked for.
LEMMA GetVoidKeeps ==
  ASSUME NEW s, NEW base, NEW D, Slots(s, base, D)
  PROVE  /\ Slots(GetVoid(s), base, D)
         /\ Extends(s, GetVoid(s))
         /\ GetVoid(s).void \in 1 .. Len(GetVoid(s).nodes)
<1> DEFINE node == Node("Void", << >>, << >>)
           a == Add(s, node)
           u == [a EXCEPT !.void = LastSlot(s) + 1]
<1>1. CASE s.void # 0
  BY <1>1, ExtendsFacts DEF GetVoid, Slots, Builder
<1>2. CASE s.void = 0
  <2>1. /\ Slots(a, base, D) /\ Extends(s, a)
        /\ a.nodes[LastSlot(s) + 1] = node /\ LastSlot(s) + 1 \in 1 .. Len(a.nodes)
    BY AddKeeps
  <2> HIDE DEF a
  <2>2. u = Reader(a.nodes, a.ids, LastSlot(s) + 1, a.variadic, a.symbols)
    BY <2>1, ReaderExcept DEF Slots, Builder
  <2> HIDE DEF u
  <2>3. /\ IsReader(u) /\ u.nodes = a.nodes /\ u.ids = a.ids /\ u.void = LastSlot(s) + 1
        /\ u.variadic = a.variadic /\ u.symbols = a.symbols
    BY <2>2, ReaderParts
  <2>4. Slots(u, base, D)
    BY <2>1, <2>3 DEF Slots, Builder
  <2>5. Extends(s, u)
    BY <1>2, <2>1, <2>3 DEF Extends, KeepsIds
  <2> QED BY <1>2, <2>1, <2>3, <2>4, <2>5 DEF GetVoid, u, a
<1> QED BY <1>1, <1>2

\* Likewise Variadic.
LEMMA GetVariadicKeeps ==
  ASSUME NEW s, NEW base, NEW D, Slots(s, base, D)
  PROVE  /\ Slots(GetVariadic(s), base, D)
         /\ Extends(s, GetVariadic(s))
         /\ GetVariadic(s).variadic \in 1 .. Len(GetVariadic(s).nodes)
<1> DEFINE node == Node("Variadic", << >>, << >>)
           a == Add(s, node)
           u == [a EXCEPT !.variadic = LastSlot(s) + 1]
<1>1. CASE s.variadic # 0
  BY <1>1, ExtendsFacts DEF GetVariadic, Slots, Builder
<1>2. CASE s.variadic = 0
  <2>1. /\ Slots(a, base, D) /\ Extends(s, a)
        /\ a.nodes[LastSlot(s) + 1] = node /\ LastSlot(s) + 1 \in 1 .. Len(a.nodes)
    BY AddKeeps
  <2> HIDE DEF a
  <2>2. u = Reader(a.nodes, a.ids, a.void, LastSlot(s) + 1, a.symbols)
    BY <2>1, ReaderExcept DEF Slots, Builder
  <2> HIDE DEF u
  <2>3. /\ IsReader(u) /\ u.nodes = a.nodes /\ u.ids = a.ids /\ u.variadic = LastSlot(s) + 1
        /\ u.void = a.void /\ u.symbols = a.symbols
    BY <2>2, ReaderParts
  <2>4. Slots(u, base, D)
    BY <2>1, <2>3 DEF Slots, Builder
  <2>5. Extends(s, u)
    BY <1>2, <2>1, <2>3 DEF Extends, KeepsIds
  <2> QED BY <1>2, <2>1, <2>3, <2>4, <2>5 DEF GetVariadic, u, a
<1> QED BY <1>1, <1>2

\* The slot of a type, once asked for, is what the type means.
LEMMA GetIdKeeps ==
  ASSUME NEW s, NEW base, NEW D, Slots(s, base, D), NEW t
  PROVE  /\ Slots(GetId(s, t), base, D)
         /\ Extends(s, GetId(s, t))
         /\ Means(GetId(s, t), Id(GetId(s, t), t), t, "Void")
<1>1. CASE t = 0
  <2> DEFINE u == GetVoid(s)
  <2>1. Slots(u, base, D) /\ Extends(s, u) /\ u.void \in 1 .. Len(u.nodes)
    BY GetVoidKeeps
  <2> HIDE DEF u
  <2>2. u.nodes[u.void] = Node("Void", << >>, << >>) /\ u.void \in DOMAIN u.nodes
    BY <2>1, SequenceFacts DEF Slots, Builder
  <2>3. Means(u, u.void, 0, "Void")
    BY <2>2 DEF Means, Holds, Node
  <2> QED BY <1>1, <2>1, <2>3 DEF GetId, Id, u
<1>2. CASE t # 0
  <2>1. GetId(s, t) = GetNode(s, t) /\ \A u : Id(u, t) = u.ids[t]
    BY <1>2 DEF GetId, Id
  <2> QED BY <1>2, <2>1, GetNodeKeeps DEF Means
<1> QED BY <1>1, <1>2

\* What GetParameterId makes of a type id is there, and what there was stays.
LEMMA GetParameterIdKeeps ==
  ASSUME NEW s, NEW base, NEW D, Slots(s, base, D), NEW t
  PROVE  /\ Slots(GetParameterId(s, t), base, D)
         /\ Extends(s, GetParameterId(s, t))
         /\ t = 0 => GetParameterId(s, t).variadic # 0
         /\ t # 0 => t \in DOMAIN GetParameterId(s, t).ids
<1>1. CASE t = 0
  BY <1>1, GetVariadicKeeps DEF GetParameterId
<1>2. CASE t # 0
  BY <1>2, GetNodeKeeps DEF GetParameterId
<1> QED BY <1>1, <1>2

\* A parameter's slot means its type, in any reader that has it.
LEMMA ParameterMeans ==
  ASSUME NEW s, NEW base, NEW D, Slots(s, base, D), NEW t,
         t = 0 => s.variadic # 0, t # 0 => t \in DOMAIN s.ids
  PROVE  Means(s, ParameterId(s, t), t, "Variadic")
<1>1. CASE t = 0
  <2>1. s.nodes[s.variadic] = Node("Variadic", << >>, << >>) /\ s.variadic \in DOMAIN s.nodes
    BY <1>1, SequenceFacts DEF Slots, Builder
  <2> QED BY <1>1, <2>1 DEF Means, Holds, Node, ParameterId
<1>2. CASE t # 0
  BY <1>2 DEF Means, ParameterId
<1> QED BY <1>1, <1>2

\* The node of a type that has none is set, in a slot that had none, and nothing
\* else is changed.
LEMMA DefineKeeps ==
  ASSUME NEW s, NEW base, NEW D, Slots(s, base, D), NEW i, i \notin D, NEW node, node # Null
  PROVE  /\ Slots(Define(s, i, node), base, D \cup {i})
         /\ Grows(s, Define(s, i, node), base)
         /\ i \in DOMAIN Define(s, i, node).ids
         /\ Define(s, i, node).nodes[Define(s, i, node).ids[i]] = node
         /\ Define(s, i, node).symbols = s.symbols
<1> DEFINE d == GetNode(s, i)
           k == d.ids[i]
           q == [d.nodes EXCEPT ![k] = node]
           u == Set(d, k, node)
<1>1. Slots(d, base, D) /\ Extends(s, d) /\ i \in DOMAIN d.ids
  BY GetNodeKeeps
<1>2. u = [d EXCEPT !.nodes = q]
  BY DEF Set
<1> HIDE DEF d
<1>3. /\ IsReader(d) /\ IsSequence(d.nodes) /\ k \in 1 .. Len(d.nodes) /\ k > base
      /\ d.nodes[k] = Null
  BY <1>1 DEF Slots, Builder
<1>4. /\ IsSequence(q) /\ Len(q) = Len(d.nodes) /\ q[k] = node
      /\ \A j \in 1 .. Len(d.nodes) : j # k => q[j] = d.nodes[j]
  <2> HIDE DEF k
  <2>1. q = [d.nodes EXCEPT ![k] = node]
    OBVIOUS
  <2> HIDE DEF q
  <2> QED BY <1>3, <2>1, SetAny
<1> HIDE DEF q, u
<1>5. u = Reader(q, d.ids, d.void, d.variadic, d.symbols)
  BY <1>2, <1>3, ReaderExcept
<1>6. /\ IsReader(u) /\ u.nodes = q /\ u.ids = d.ids /\ u.void = d.void /\ u.variadic = d.variadic
      /\ u.symbols = d.symbols
  BY <1>5, ReaderParts
<1>7. Slots(u, base, D \cup {i})
  <2>1. Builder(u) /\ base \in 0 .. Len(u.nodes)
    BY <1>1, <1>4, <1>6 DEF Slots, Builder
  <2>2. ASSUME NEW t \in DOMAIN d.ids, t # i
        PROVE  d.ids[t] # k /\ u.nodes[u.ids[t]] = d.nodes[d.ids[t]]
    BY <1>1, <1>4, <1>6, <2>2 DEF Slots, Builder
  <2>3. \A t \in DOMAIN u.ids : u.nodes[u.ids[t]] = Null <=> t \notin D \cup {i}
    BY <1>1, <1>4, <1>6, <2>2 DEF Slots
  <2>4. /\ d.void # 0 => d.void # k /\ d.void \in 1 .. Len(d.nodes)
        /\ d.variadic # 0 => d.variadic # k /\ d.variadic \in 1 .. Len(d.nodes)
    BY <1>1, <1>3, NodesAreSet DEF Slots, Builder
  <2>5. /\ u.void # 0 => u.nodes[u.void] = Node("Void", << >>, << >>)
        /\ u.variadic # 0 => u.nodes[u.variadic] = Node("Variadic", << >>, << >>)
    BY <1>1, <1>4, <1>6, <2>4 DEF Slots
  <2>6. /\ \A t \in DOMAIN u.ids : u.ids[t] > base
        /\ \A t, v \in DOMAIN u.ids : u.ids[t] = u.ids[v] => t = v
        /\ D \cup {i} \subseteq DOMAIN u.ids
    BY <1>1, <1>6 DEF Slots
  <2> QED BY <2>1, <2>3, <2>5, <2>6 DEF Slots
<1>8. Grows(d, u, base)
  BY <1>3, <1>4, <1>6 DEF Grows, KeepsIds, Slots, Builder
<1>9. Grows(s, u, base) /\ u.symbols = s.symbols
  <2>1. Grows(s, d, base) /\ Builder(s) /\ Builder(d) /\ Builder(u)
    BY <1>1, <1>7, ExtendsFacts DEF Slots
  <2> QED BY <1>1, <1>6, <1>8, <2>1, GrowsTransitive DEF Extends
<1> QED BY <1>1, <1>4, <1>6, <1>7, <1>9 DEF Define, d, u

--------------------------------------------------------------------------------
(***************************************************************************)
(* What the slots mean lasts.                                              *)
(***************************************************************************)

\* A node that has been set stays, with its edges.
LEMMA HoldsLasts ==
  ASSUME NEW s, NEW u, NEW b, Builder(s), Builder(u), Grows(s, u, b),
         NEW slot, NEW kind, NEW label, NEW edges, Holds(s, slot, kind, label, edges)
  PROVE  /\ Holds(u, slot, kind, label, edges)
         /\ Edges(s, slot) = edges /\ Edges(u, slot) = edges
<1>1. /\ DOMAIN s.nodes = 1 .. Len(s.nodes) /\ DOMAIN u.nodes = 1 .. Len(u.nodes)
      /\ Len(s.nodes) \in Nat /\ Len(u.nodes) \in Nat
  BY SequenceFacts DEF Builder
<1>2. /\ slot \in DOMAIN s.nodes /\ s.nodes[slot] = Node(kind, label, edges)
      /\ s.nodes[slot] # Null
  BY NodesAreSet DEF Holds
<1>3. slot \in DOMAIN u.nodes /\ u.nodes[slot] = s.nodes[slot]
  BY <1>1, <1>2 DEF Grows
<1>4. Node(kind, label, edges).edges = edges
  BY DEF Node
<1> QED BY <1>2, <1>3, <1>4 DEF Holds, Edges, Is

\* A slot of a type stays one,
LEMMA MeansLasts ==
  ASSUME NEW s, NEW u, NEW b, Builder(s), Builder(u), Grows(s, u, b),
         NEW slot, NEW t, NEW zero, Means(s, slot, t, zero)
  PROVE  Means(u, slot, t, zero)
BY HoldsLasts DEF Means, Grows, KeepsIds

\* a node that refers to a type goes on to,
LEMMA LinksLasts ==
  ASSUME NEW s, NEW u, NEW b, Builder(s), Builder(u), Grows(s, u, b),
         NEW slot, NEW kind, NEW label, NEW t, Links(s, slot, kind, label, t)
  PROVE  Links(u, slot, kind, label, t)
<1>1. PICK to \in Range(Edges(s, slot)) :
        Holds(s, slot, kind, label, <<to>>) /\ Means(s, to, t, "Void")
  BY DEF Links
<1>2. /\ Holds(u, slot, kind, label, <<to>>) /\ Edges(u, slot) = Edges(s, slot)
      /\ Means(u, to, t, "Void")
  BY <1>1, HoldsLasts, MeansLasts
<1> QED BY <1>1, <1>2 DEF Links

\* a member is still that of its entry,
LEMMA MemberLasts ==
  ASSUME NEW s, NEW u, NEW b, Builder(s), Builder(u), Grows(s, u, b),
         NEW slot, NEW kflag, NEW m, MemberAt(s, slot, kflag, m)
  PROVE  MemberAt(u, slot, kflag, m)
<1>1. PICK offset, size \in {m.offset, m.offset % 2^24, m.offset \div 2^24, 0} :
        /\ IF kflag THEN m.offset = offset + 2^24 * size /\ offset < 2^24
           ELSE offset = m.offset /\ size = 0
        /\ Links(s, slot, "Member", <<m.name, offset, size>>, m.type)
  BY DEF MemberAt
<1>2. Links(u, slot, "Member", <<m.name, offset, size>>, m.type)
  BY <1>1, LinksLasts
<1> QED BY <1>1, <1>2 DEF MemberAt

\* as is a struct or a union,
LEMMA CompositeLasts ==
  ASSUME NEW s, NEW u, NEW b, Builder(s), Builder(u), Grows(s, u, b),
         NEW slot, NEW e, CompositeAt(s, slot, e)
  PROVE  CompositeAt(u, slot, e)
<1> DEFINE edges == Edges(s, slot)
<1>1. Holds(s, slot, "StructUnion", <<e.kind, e.name, <<e.size>>>>, edges)
  BY DEF CompositeAt
<1>2. Holds(u, slot, "StructUnion", <<e.kind, e.name, <<e.size>>>>, edges) /\ Edges(u, slot) = edges
  BY <1>1, HoldsLasts
<1>3. \A i \in DOMAIN edges : MemberAt(u, edges[i], e.kflag, e.parts[i])
  BY MemberLasts DEF CompositeAt
<1> HIDE DEF edges
<1> QED BY <1>2, <1>3 DEF CompositeAt, edges

\* and a function.
LEMMA FunctionLasts ==
  ASSUME NEW s, NEW u, NEW b, Builder(s), Builder(u), Grows(s, u, b),
         NEW slot, NEW e, FunctionAt(s, slot, e)
  PROVE  FunctionAt(u, slot, e)
<1> DEFINE edges == Edges(s, slot)
           n     == Len(e.parts)
<1>1. /\ Holds(s, slot, "Function", << >>, edges) /\ Len(edges) = n + 1
      /\ \A i \in 1 .. n : Means(s, edges[i], e.parts[i].type, "Variadic")
      /\ Means(s, edges[n + 1], e.type, "Void")
  BY DEF FunctionAt
<1> HIDE DEF edges, n
<1>2. Holds(u, slot, "Function", << >>, edges) /\ Edges(u, slot) = edges
  BY <1>1, HoldsLasts DEF edges
<1>3. \A i \in 1 .. n : Means(u, edges[i], e.parts[i].type, "Variadic")
  BY <1>1, MeansLasts
<1>4. Means(u, edges[n + 1], e.type, "Void")
  BY <1>1, MeansLasts
<1> QED BY <1>1, <1>2, <1>3, <1>4 DEF FunctionAt, n

\* The kinds of entries that define a type.
Defining == Kinds \ {"DATASEC"}

EnumLabel(e) == <<e.name, IF e.parts = << >> THEN << >> ELSE <<e.size, e.parts>>>>
ForwardLabel(e) == <<IF e.kflag THEN "UNION" ELSE "STRUCT", e.name, << >>>>

\* What an enumeration or a forward declaration is realised by.
LEMMA RealisesDeclared ==
  ASSUME NEW s, NEW slot, NEW e
  PROVE  /\ e.kind = "ENUM" =>
              (Realises(s, slot, e) <=> Holds(s, slot, "Enumeration", EnumLabel(e), << >>))
         /\ e.kind = "FWD" =>
              (Realises(s, slot, e) <=> Holds(s, slot, "StructUnion", ForwardLabel(e), << >>))
<1>1. CASE e.kind = "ENUM"
  BY <1>1 DEF Realises, EnumLabel, Qualifiers, Composites, SymbolKinds
<1>2. CASE e.kind = "FWD"
  BY <1>2 DEF Realises, ForwardLabel, Qualifiers, Composites, SymbolKinds
<1> QED BY <1>1, <1>2

\* Slots that have the nodes of their entries keep them.
LEMMA RealisesLasts ==
  ASSUME NEW s, NEW u, NEW b, Builder(s), Builder(u), Grows(s, u, b),
         NEW slot, NEW e, e.kind \in Defining, Realises(s, slot, e)
  PROVE  Realises(u, slot, e)
<1>1. CASE e.kind = "INT"
  BY <1>1, HoldsLasts DEF Realises, Qualifiers, Composites, SymbolKinds
<1>2. CASE e.kind \in {"ENUM", "FWD"}
  BY <1>2, RealisesDeclared, HoldsLasts
<1>3. CASE e.kind \in {"PTR", "TYPEDEF", "ARRAY"} \cup Qualifiers \cup SymbolKinds
  BY <1>3, LinksLasts DEF Realises, Qualifiers, Composites, SymbolKinds
<1>4. CASE e.kind \in Composites
  BY <1>4, CompositeLasts DEF Realises, Qualifiers, Composites, SymbolKinds
<1>5. CASE e.kind = "FUNC_PROTO"
  BY <1>5, FunctionLasts DEF Realises, Qualifiers, Composites, SymbolKinds
<1> QED BY <1>1, <1>2, <1>3, <1>4, <1>5 DEF Defining, Kinds

--------------------------------------------------------------------------------
(***************************************************************************)
(* The recursive functions of prefixes: there are such functions.          *)
(***************************************************************************)

\* The readers that have built the first members, one after another.
LEMMA BuildMembersPrefixes ==
  ASSUME NEW s, NEW e, IsSequence(e.parts)
  PROVE  LET built == BuildMembers(s, e)
         IN  /\ built[0] = s
             /\ \A n \in 1 .. Len(e.parts) : built[n] = BuildMember(e.kflag, built[n - 1], e.parts[n])
<1> DEFINE Prefix(f, m) ==
             f = [n \in 0 .. m |-> IF n = 0 THEN s ELSE BuildMember(e.kflag, f[n - 1], e.parts[n])]
           S == {m \in Nat : \E f : Prefix(f, m)}
<1>1. 0 \in S
  <2>1. Prefix([n \in 0 .. 0 |-> s], 0)
    OBVIOUS
  <2> QED BY <2>1
<1>2. ASSUME NEW m \in Nat, m \in S PROVE m + 1 \in S
  <2>1. PICK f : Prefix(f, m)
    BY <1>2
  <2> DEFINE g == [n \in 0 .. m + 1 |->
                     IF n = m + 1 THEN BuildMember(e.kflag, f[m], e.parts[m + 1]) ELSE f[n]]
  <2>2. \A n \in 0 .. m :
          /\ g[n] = f[n]
          /\ f[n] = IF n = 0 THEN s ELSE BuildMember(e.kflag, f[n - 1], e.parts[n])
    BY <2>1
  <2>3. g[m + 1] = BuildMember(e.kflag, g[m], e.parts[m + 1])
    BY <2>2
  <2>4. \A n \in 0 .. m + 1 : g[n] = IF n = 0 THEN s ELSE BuildMember(e.kflag, g[n - 1], e.parts[n])
    <3> SUFFICES ASSUME NEW n \in 0 .. m + 1
                 PROVE  g[n] = IF n = 0 THEN s ELSE BuildMember(e.kflag, g[n - 1], e.parts[n])
      OBVIOUS
    <3>1. CASE n = m + 1
      BY <2>3, <3>1
    <3>2. CASE n # m + 1
      <4>1. n \in 0 .. m /\ (n # 0 => n - 1 \in 0 .. m)
        BY <3>2
      <4> HIDE DEF g
      <4> QED BY <2>2, <4>1
    <3> QED BY <3>1, <3>2
  <2>5. Prefix(g, m + 1)
    BY <2>4
  <2>6. m + 1 \in Nat
    OBVIOUS
  <2> HIDE DEF Prefix, g
  <2> QED BY <2>5, <2>6
<1>3. Nat \subseteq S
  <2> HIDE DEF S
  <2> QED BY <1>1, <1>2, NatSet
<1>4. Len(e.parts) \in Nat
  BY SequenceFacts
<1> DEFINE built == BuildMembers(s, e)
<1>5. Prefix(built, Len(e.parts))
  <2>1. \E f : Prefix(f, Len(e.parts))
    BY <1>3, <1>4
  <2>2. built = CHOOSE f : Prefix(f, Len(e.parts))
    BY DEF BuildMembers
  <2> HIDE DEF built, Prefix
  <2> QED BY <2>1, <2>2
<1> HIDE DEF built
<1> QED BY <1>4, <1>5 DEF built

\* The readers that have looked at the first parameters, one after another.
LEMMA BuildParametersPrefixes ==
  ASSUME NEW s, NEW e, IsSequence(e.parts)
  PROVE  LET built == BuildParameters(s, e)
         IN  /\ built[0] = s
             /\ \A n \in 1 .. Len(e.parts) : built[n] = GetParameterId(built[n - 1], e.parts[n].type)
<1> DEFINE Prefix(f, m) ==
             f = [n \in 0 .. m |-> IF n = 0 THEN s ELSE GetParameterId(f[n - 1], e.parts[n].type)]
           S == {m \in Nat : \E f : Prefix(f, m)}
<1>1. 0 \in S
  <2>1. Prefix([n \in 0 .. 0 |-> s], 0)
    OBVIOUS
  <2> QED BY <2>1
<1>2. ASSUME NEW m \in Nat, m \in S PROVE m + 1 \in S
  <2>1. PICK f : Prefix(f, m)
    BY <1>2
  <2> DEFINE g == [n \in 0 .. m + 1 |->
                     IF n = m + 1 THEN GetParameterId(f[m], e.parts[m + 1].type) ELSE f[n]]
  <2>2. \A n \in 0 .. m :
          /\ g[n] = f[n]
          /\ f[n] = IF n = 0 THEN s ELSE GetParameterId(f[n - 1], e.parts[n].type)
    BY <2>1
  <2>3. g[m + 1] = GetParameterId(g[m], e.parts[m + 1].type)
    BY <2>2
  <2>4. \A n \in 0 .. m + 1 : g[n] = IF n = 0 THEN s ELSE GetParameterId(g[n - 1], e.parts[n].type)
    <3> SUFFICES ASSUME NEW n \in 0 .. m + 1
                 PROVE  g[n] = IF n = 0 THEN s ELSE GetParameterId(g[n - 1], e.parts[n].type)
      OBVIOUS
    <3>1. CASE n = m + 1
      BY <2>3, <3>1
    <3>2. CASE n # m + 1
      <4>1. n \in 0 .. m /\ (n # 0 => n - 1 \in 0 .. m)
        BY <3>2
      <4> HIDE DEF g
      <4> QED BY <2>2, <4>1
    <3> QED BY <3>1, <3>2
  <2>5. Prefix(g, m + 1)
    BY <2>4
  <2>6. m + 1 \in Nat
    OBVIOUS
  <2> HIDE DEF Prefix, g
  <2> QED BY <2>5, <2>6
<1>3. Nat \subseteq S
  <2> HIDE DEF S
  <2> QED BY <1>1, <1>2, NatSet
<1>4. Len(e.parts) \in Nat
  BY SequenceFacts
<1> DEFINE built == BuildParameters(s, e)
<1>5. Prefix(built, Len(e.parts))
  <2>1. \E f : Prefix(f, Len(e.parts))
    BY <1>3, <1>4
  <2>2. built = CHOOSE f : Prefix(f, Len(e.parts))
    BY DEF BuildParameters
  <2> HIDE DEF built, Prefix
  <2> QED BY <2>1, <2>2
<1> HIDE DEF built
<1> QED BY <1>4, <1>5 DEF built

\* The bytes of the first entries, one more after another.
LEMMA SizePrefixes ==
  ASSUME NEW types, IsSequence(types)
  PROVE  LET built == Size(types)
         IN  /\ built[0] = 0
             /\ \A n \in 1 .. Len(types) : built[n] = built[n - 1] + Bytes(types[n])
<1> DEFINE Prefix(f, m) ==
             f = [n \in 0 .. m |-> IF n = 0 THEN 0 ELSE f[n - 1] + Bytes(types[n])]
           S == {m \in Nat : \E f : Prefix(f, m)}
<1>1. 0 \in S
  <2>1. Prefix([n \in 0 .. 0 |-> 0], 0)
    OBVIOUS
  <2> QED BY <2>1
<1>2. ASSUME NEW m \in Nat, m \in S PROVE m + 1 \in S
  <2>1. PICK f : Prefix(f, m)
    BY <1>2
  <2> DEFINE g == [n \in 0 .. m + 1 |-> IF n = m + 1 THEN f[m] + Bytes(types[m + 1]) ELSE f[n]]
  <2>2. \A n \in 0 .. m : g[n] = f[n] /\ f[n] = IF n = 0 THEN 0 ELSE f[n - 1] + Bytes(types[n])
    BY <2>1
  <2>3. g[m + 1] = g[m] + Bytes(types[m + 1])
    BY <2>2
  <2>4. \A n \in 0 .. m + 1 : g[n] = IF n = 0 THEN 0 ELSE g[n - 1] + Bytes(types[n])
    <3> SUFFICES ASSUME NEW n \in 0 .. m + 1
                 PROVE  g[n] = IF n = 0 THEN 0 ELSE g[n - 1] + Bytes(types[n])
      OBVIOUS
    <3>1. CASE n = m + 1
      BY <2>3, <3>1
    <3>2. CASE n # m + 1
      <4>1. n \in 0 .. m /\ (n # 0 => n - 1 \in 0 .. m)
        BY <3>2
      <4> HIDE DEF g
      <4> QED BY <2>2, <4>1
    <3> QED BY <3>1, <3>2
  <2>5. Prefix(g, m + 1)
    BY <2>4
  <2>6. m + 1 \in Nat
    OBVIOUS
  <2> HIDE DEF Prefix, g
  <2> QED BY <2>5, <2>6
<1>3. Nat \subseteq S
  <2> HIDE DEF S
  <2> QED BY <1>1, <1>2, NatSet
<1>4. Len(types) \in Nat
  BY SequenceFacts
<1> DEFINE built == Size(types)
<1>5. Prefix(built, Len(types))
  <2>1. \E f : Prefix(f, Len(types))
    BY <1>3, <1>4
  <2>2. built = CHOOSE f : Prefix(f, Len(types))
    BY DEF Size
  <2> HIDE DEF built, Prefix
  <2> QED BY <2>1, <2>2
<1> HIDE DEF built
<1> QED BY <1>4, <1>5 DEF built

--------------------------------------------------------------------------------
(***************************************************************************)
(* One entry.                                                              *)
(***************************************************************************)

\* What an entry that defines type i has done: the type has the entry's node.
Builds(s, u, i, e, base, D) ==
  /\ Slots(u, base, D \cup {i})
  /\ Grows(s, u, base)
  /\ Realises(u, u.ids[i], e)
  /\ u.symbols = s.symbols

\* The defined type has the node, and the node's edges.
LEMMA DefineHolds ==
  ASSUME NEW s, NEW base, NEW D, Slots(s, base, D), NEW i, i \notin D,
         NEW kind, NEW label, NEW edges,
         NEW u, u = Define(s, i, Node(kind, label, edges))
  PROVE  /\ Slots(u, base, D \cup {i}) /\ Grows(s, u, base) /\ u.symbols = s.symbols
         /\ Holds(u, u.ids[i], kind, label, edges) /\ Edges(u, u.ids[i]) = edges
<1> DEFINE node == Node(kind, label, edges)
<1>1. node # Null
  BY NodesAreSet
<1>2. node.kind = kind /\ node.edges = edges
  BY DEF Node
<1>3. u = Define(s, i, node)
  OBVIOUS
<1> HIDE DEF node
<1>4. /\ Slots(u, base, D \cup {i}) /\ Grows(s, u, base) /\ u.symbols = s.symbols
      /\ i \in DOMAIN u.ids /\ u.nodes[u.ids[i]] = node
  BY <1>1, <1>3, DefineKeeps
<1>5. u.ids[i] \in DOMAIN u.nodes
  BY <1>4, SequenceFacts DEF Slots, Builder
<1> QED BY <1>1, <1>2, <1>4, <1>5 DEF Holds, Edges, Is, node

\* An entry that refers to its type.
LEMMA ReferBuilds ==
  ASSUME NEW s, NEW base, NEW D, Slots(s, base, D), NEW i, i \notin D, NEW e,
         NEW kind, NEW label, NEW u, u = Refer(s, i, e, kind, label)
  PROVE  /\ Slots(u, base, D \cup {i}) /\ Grows(s, u, base) /\ u.symbols = s.symbols
         /\ Links(u, u.ids[i], kind, label, e.type)
<1> DEFINE r  == GetId(s, e.type)
           to == Id(r, e.type)
<1>1. Slots(r, base, D) /\ Extends(s, r) /\ Means(r, to, e.type, "Void")
  BY GetIdKeeps
<1>2. u = Define(r, i, Node(kind, label, <<to>>))
  BY DEF Refer
<1> HIDE DEF r, to
<1>3. /\ Slots(u, base, D \cup {i}) /\ Grows(r, u, base) /\ u.symbols = r.symbols
      /\ Holds(u, u.ids[i], kind, label, <<to>>) /\ Edges(u, u.ids[i]) = <<to>>
  <2> DEFINE edges == <<to>>
  <2>1. u = Define(r, i, Node(kind, label, edges))
    BY <1>2
  <2> HIDE DEF edges
  <2>2. /\ Slots(u, base, D \cup {i}) /\ Grows(r, u, base) /\ u.symbols = r.symbols
        /\ Holds(u, u.ids[i], kind, label, edges) /\ Edges(u, u.ids[i]) = edges
    BY <1>1, <2>1, DefineHolds
  <2> QED BY <2>2 DEF edges
<1>4. Builder(s) /\ Builder(r) /\ Builder(u)
  BY <1>1, <1>3 DEF Slots
<1>5. Grows(s, u, base)
  BY <1>1, <1>3, <1>4, ExtendsFacts, GrowsTransitive
<1>6. Means(u, to, e.type, "Void")
  BY <1>1, <1>3, <1>4, MeansLasts
<1>7. to \in Range(<<to>>)
  BY DEF Range
<1> QED BY <1>1, <1>3, <1>5, <1>6, <1>7 DEF Links, Extends

\* Pointers, typedefs, arrays and qualifiers are built.
LEMMA ReferencesBuild ==
  ASSUME NEW s, NEW base, NEW D, Slots(s, base, D), NEW i, i \notin D, NEW e,
         e.kind \in {"PTR", "TYPEDEF", "ARRAY"} \cup Qualifiers
  PROVE  Builds(s, BuildOneType(s, i, e), i, e, base, D)
<1> DEFINE u == BuildOneType(s, i, e)
           For(kind, label) ==
             /\ u = Refer(s, i, e, kind, label)
             /\ \A v : Links(v, v.ids[i], kind, label, e.type) => Realises(v, v.ids[i], e)
<1>1. \E kind, label : For(kind, label)
  <2>1. CASE e.kind = "PTR"
    <3> DEFINE label == << >>
    <3>1. For("PointerReference", label)
      BY <2>1 DEF BuildOneType, Realises, Qualifiers, Composites, SymbolKinds
    <3> HIDE DEF For, label
    <3> QED BY <3>1
  <2>2. CASE e.kind = "TYPEDEF"
    <3> DEFINE label == <<e.name>>
    <3>1. For("Typedef", label)
      BY <2>2 DEF BuildOneType, Realises, Qualifiers, Composites, SymbolKinds
    <3> HIDE DEF For, label
    <3> QED BY <3>1
  <2>3. CASE e.kind = "ARRAY"
    <3> DEFINE label == <<e.size>>
    <3>1. For("Array", label)
      BY <2>3 DEF BuildOneType, Realises, Qualifiers, Composites, SymbolKinds
    <3> HIDE DEF For, label
    <3> QED BY <3>1
  <2>4. CASE e.kind \in Qualifiers
    <3> DEFINE label == <<e.kind>>
    <3>1. For("Qualified", label)
      BY <2>4 DEF BuildOneType, Realises, Qualifiers, Composites, SymbolKinds
    <3> HIDE DEF For, label
    <3> QED BY <3>1
  <2> QED BY <2>1, <2>2, <2>3, <2>4
<1>2. PICK kind, label : For(kind, label)
  BY <1>1
<1> HIDE DEF u
<1>3. u = Refer(s, i, e, kind, label)
  BY <1>2
<1>4. /\ Slots(u, base, D \cup {i}) /\ Grows(s, u, base) /\ u.symbols = s.symbols
      /\ Links(u, u.ids[i], kind, label, e.type)
  BY <1>3, ReferBuilds
<1> QED BY <1>2, <1>4 DEF Builds, u

\* Integers, enumerations and forward declarations are built.
LEMMA DeclaredBuild ==
  ASSUME NEW s, NEW base, NEW D, Slots(s, base, D), NEW i, i \notin D, NEW e,
         e.kind \in {"INT", "ENUM", "FWD"}
  PROVE  Builds(s, BuildOneType(s, i, e), i, e, base, D)
<1> DEFINE u == BuildOneType(s, i, e)
<1>1. CASE e.kind = "INT"
  <2> DEFINE label == <<e.name, Encoding(e.info), e.info.bits, e.size>>
  <2>1. u = Define(s, i, Node("Integer", label, << >>))
    BY <1>1 DEF BuildOneType, BuildInt, Qualifiers, Composites, SymbolKinds
  <2>2. \A v : Holds(v, v.ids[i], "Integer", label, << >>) => Realises(v, v.ids[i], e)
    <3> TAKE v
    <3>1. /\ Encoding(e.info) \in {{"bool"}, e.info.encoding}
          /\ "bool" \in e.info.encoding => Encoding(e.info) = {"bool"}
      BY DEF Encoding
    <3> QED BY <1>1, <3>1 DEF Realises, Qualifiers, Composites, SymbolKinds
  <2> HIDE DEF u, label
  <2> QED BY <2>1, <2>2, DefineHolds DEF Builds, u
<1>2. CASE e.kind = "ENUM"
  <2>1. u = Define(s, i, Node("Enumeration", EnumLabel(e), << >>))
    BY <1>2 DEF BuildOneType, BuildEnum, EnumLabel, Qualifiers, Composites, SymbolKinds
  <2> HIDE DEF u
  <2> QED BY <1>2, <2>1, DefineHolds, RealisesDeclared DEF Builds, u
<1>3. CASE e.kind = "FWD"
  <2>1. u = Define(s, i, Node("StructUnion", ForwardLabel(e), << >>))
    BY <1>3 DEF BuildOneType, BuildForward, ForwardLabel, Qualifiers, Composites, SymbolKinds
  <2> HIDE DEF u
  <2> QED BY <1>3, <2>1, DefineHolds, RealisesDeclared DEF Builds, u
<1> QED BY <1>1, <1>2, <1>3

\* A member gets a slot of its own, and its label says where it is and how wide.
LEMMA MemberBuilds ==
  ASSUME NEW s, NEW base, NEW D, Slots(s, base, D), NEW kflag \in BOOLEAN, NEW m, m.offset \in Nat,
         NEW u, u = BuildMember(kflag, s, m)
  PROVE  /\ Slots(u, base, D) /\ Extends(s, u)
         /\ MemberAt(u, LastSlot(u), kflag, m)
<1> DEFINE r  == GetId(s, m.type)
           to == Id(r, m.type)
           node == Node("Member", MemberLabel(kflag, m), <<to>>)
<1>1. Slots(r, base, D) /\ Extends(s, r) /\ Means(r, to, m.type, "Void")
  BY GetIdKeeps
<1>2. u = Add(r, node)
  BY DEF BuildMember
<1>3. node.kind = "Member" /\ node.edges = <<to>> /\ node # Null
  BY NodesAreSet DEF Node
<1> HIDE DEF r, to, node
<1>4. /\ Slots(u, base, D) /\ Extends(r, u) /\ u.nodes[LastSlot(u)] = node
      /\ LastSlot(u) \in 1 .. Len(u.nodes)
  BY <1>1, <1>2, AddKeeps
<1>5. Builder(s) /\ Builder(r) /\ Builder(u)
  BY <1>1, <1>4 DEF Slots
<1>6. Extends(s, u) /\ Means(u, to, m.type, "Void")
  BY <1>1, <1>4, <1>5, ExtendsFacts, MeansLasts
<1>7. /\ Holds(u, LastSlot(u), "Member", MemberLabel(kflag, m), <<to>>)
      /\ Edges(u, LastSlot(u)) = <<to>>
  <2>1. LastSlot(u) \in DOMAIN u.nodes
    BY <1>4, <1>5, SequenceFacts DEF Builder
  <2> QED BY <1>3, <1>4, <2>1 DEF Holds, Edges, Is, node
<1>8. to \in Range(<<to>>)
  BY DEF Range
<1>9. Links(u, LastSlot(u), "Member", MemberLabel(kflag, m), m.type)
  BY <1>6, <1>7, <1>8 DEF Links
<1>10. /\ m.offset = (m.offset % 2^24) + 2^24 * (m.offset \div 2^24)
       /\ m.offset % 2^24 < 2^24
  OBVIOUS
<1>11. MemberAt(u, LastSlot(u), kflag, m)
  <2>1. CASE kflag
    <3>1. MemberLabel(kflag, m) = <<m.name, m.offset % 2^24, m.offset \div 2^24>>
      BY <2>1 DEF MemberLabel
    <3> QED BY <1>9, <1>10, <2>1, <3>1 DEF MemberAt
  <2>2. CASE ~kflag
    <3>1. MemberLabel(kflag, m) = <<m.name, m.offset, 0>>
      BY <2>2 DEF MemberLabel
    <3> QED BY <1>9, <2>2, <3>1 DEF MemberAt
  <2> QED BY <2>1, <2>2
<1> QED BY <1>4, <1>6, <1>11

\* The members that have been built are what their parts say.
LEMMA MembersBuild ==
  ASSUME NEW s, NEW base, NEW D, Slots(s, base, D), NEW e, IsEntry(e), e.kind \in Composites
  PROVE  LET built == BuildMembers(s, e)
         IN  \A n \in 0 .. Len(e.parts) :
               /\ Slots(built[n], base, D) /\ Extends(s, built[n])
               /\ \A k \in 1 .. n : MemberAt(built[n], LastSlot(built[k]), e.kflag, e.parts[k])
<1> DEFINE built == BuildMembers(s, e)
           N == Len(e.parts)
           Right(n) ==
             /\ Slots(built[n], base, D) /\ Extends(s, built[n])
             /\ \A k \in 1 .. n : MemberAt(built[n], LastSlot(built[k]), e.kflag, e.parts[k])
           S == {n \in Nat : n <= N => Right(n)}
<1>1. /\ N \in Nat /\ DOMAIN e.parts = 1 .. N /\ e.kflag \in BOOLEAN
      /\ \A k \in 1 .. N : e.parts[k].offset \in Nat
  BY SequenceFacts DEF IsEntry
<1>2. /\ built[0] = s
      /\ \A n \in 1 .. N : built[n] = BuildMember(e.kflag, built[n - 1], e.parts[n])
  BY BuildMembersPrefixes DEF IsEntry
<1> HIDE DEF built, N
<1>3. 0 \in S
  BY <1>2, ExtendsFacts DEF Slots
<1>4. ASSUME NEW n \in Nat, n \in S PROVE n + 1 \in S
  <2> SUFFICES ASSUME n + 1 <= N PROVE Right(n + 1)
    OBVIOUS
  <2>1. Right(n) /\ n + 1 \in 1 .. N
    BY <1>1, <1>4
  <2> DEFINE r == built[n]
             u == built[n + 1]
             m == e.parts[n + 1]
  <2>2. u = BuildMember(e.kflag, r, m)
    BY <1>2, <2>1
  <2> HIDE DEF u, r, m
  <2>3. /\ Slots(u, base, D) /\ Extends(r, u) /\ MemberAt(u, LastSlot(u), e.kflag, m)
    BY <1>1, <2>1, <2>2, MemberBuilds DEF r, m
  <2>4. Builder(s) /\ Builder(r) /\ Builder(u) /\ Extends(s, r)
    BY <2>1, <2>3 DEF Slots, r
  <2>5. Extends(s, u) /\ Grows(r, u, 0)
    BY <2>3, <2>4, ExtendsFacts
  <2>6. ASSUME NEW k \in 1 .. n PROVE MemberAt(u, LastSlot(built[k]), e.kflag, e.parts[k])
    <3>1. MemberAt(r, LastSlot(built[k]), e.kflag, e.parts[k])
      BY <2>1 DEF r
    <3> QED BY <2>4, <2>5, <3>1, MemberLasts
  <2> QED BY <2>3, <2>5, <2>6 DEF u, m
<1>5. Nat \subseteq S
  <2> HIDE DEF S
  <2> QED BY <1>3, <1>4, NatSet
<1> QED BY <1>1, <1>5 DEF built, N

\* Structs and unions are built, with their members.
LEMMA StructUnionBuilds ==
  ASSUME NEW s, NEW base, NEW D, Slots(s, base, D), NEW i, i \notin D, NEW e, IsEntry(e),
         e.kind \in Composites
  PROVE  Builds(s, BuildOneType(s, i, e), i, e, base, D)
<1> DEFINE u       == BuildOneType(s, i, e)
           built   == BuildMembers(s, e)
           N       == Len(e.parts)
           r       == built[N]
           members == [n \in DOMAIN e.parts |-> LastSlot(built[n])]
           label   == <<e.kind, e.name, <<e.size>>>>
<1>1. N \in Nat /\ DOMAIN e.parts = 1 .. N
  BY SequenceFacts DEF IsEntry
<1>2. u = Define(r, i, Node("StructUnion", label, members))
  BY DEF BuildOneType, BuildStructUnion, Qualifiers, Composites, SymbolKinds
<1>3. /\ Slots(r, base, D) /\ Extends(s, r)
      /\ \A k \in 1 .. N : MemberAt(r, LastSlot(built[k]), e.kflag, e.parts[k])
  BY <1>1, MembersBuild
<1>4. DOMAIN members = DOMAIN e.parts /\ \A k \in 1 .. N : members[k] = LastSlot(built[k])
  BY <1>1
<1> HIDE DEF u, r, built, N, members, label
<1>5. /\ Slots(u, base, D \cup {i}) /\ Grows(r, u, base) /\ u.symbols = r.symbols
      /\ Holds(u, u.ids[i], "StructUnion", label, members) /\ Edges(u, u.ids[i]) = members
  BY <1>2, <1>3, DefineHolds
<1>6. Builder(s) /\ Builder(r) /\ Builder(u)
  BY <1>3, <1>5 DEF Slots
<1>7. Grows(s, u, base) /\ u.symbols = s.symbols
  <2>1. Grows(s, r, base)
    BY <1>3, ExtendsFacts
  <2> QED BY <1>3, <1>5, <1>6, <2>1, GrowsTransitive DEF Extends
<1>8. \A k \in DOMAIN members : MemberAt(u, members[k], e.kflag, e.parts[k])
  <2> SUFFICES ASSUME NEW k \in DOMAIN members
               PROVE  MemberAt(u, members[k], e.kflag, e.parts[k])
    OBVIOUS
  <2>1. MemberAt(r, members[k], e.kflag, e.parts[k])
    BY <1>1, <1>3, <1>4
  <2> QED BY <1>5, <1>6, <2>1, MemberLasts
<1>9. CompositeAt(u, u.ids[i], e)
  BY <1>4, <1>5, <1>8 DEF CompositeAt, label
<1>10. Realises(u, u.ids[i], e)
  BY <1>9 DEF Realises, Qualifiers, Composites, SymbolKinds
<1> QED BY <1>5, <1>7, <1>10 DEF Builds, u

\* The parameters that have been looked at have slots.
LEMMA ParametersBuild ==
  ASSUME NEW s, NEW base, NEW D, Slots(s, base, D), NEW e, IsEntry(e)
  PROVE  LET built == BuildParameters(s, e)
         IN  \A n \in 0 .. Len(e.parts) :
               /\ Slots(built[n], base, D) /\ Extends(s, built[n])
               /\ \A k \in 1 .. n : LET t == e.parts[k].type IN
                    /\ t = 0 => built[n].variadic # 0
                    /\ t # 0 => t \in DOMAIN built[n].ids
<1> DEFINE built == BuildParameters(s, e)
           N == Len(e.parts)
           Seen(r, t) == (t = 0 => r.variadic # 0) /\ (t # 0 => t \in DOMAIN r.ids)
           Right(n) ==
             /\ Slots(built[n], base, D) /\ Extends(s, built[n])
             /\ \A k \in 1 .. n : Seen(built[n], e.parts[k].type)
           S == {n \in Nat : n <= N => Right(n)}
<1>1. N \in Nat
  BY SequenceFacts DEF IsEntry
<1>2. /\ built[0] = s
      /\ \A n \in 1 .. N : built[n] = GetParameterId(built[n - 1], e.parts[n].type)
  BY BuildParametersPrefixes DEF IsEntry
<1> HIDE DEF built, N
<1>3. 0 \in S
  BY <1>2, ExtendsFacts DEF Slots
<1>4. ASSUME NEW n \in Nat, n \in S PROVE n + 1 \in S
  <2> SUFFICES ASSUME n + 1 <= N PROVE Right(n + 1)
    OBVIOUS
  <2>1. Right(n) /\ n + 1 \in 1 .. N
    BY <1>1, <1>4
  <2> DEFINE r == built[n]
             u == built[n + 1]
             t == e.parts[n + 1].type
  <2>2. u = GetParameterId(r, t)
    BY <1>2, <2>1
  <2> HIDE DEF u, r, t
  <2>3. Slots(u, base, D) /\ Extends(r, u) /\ Seen(u, t)
    BY <2>1, <2>2, GetParameterIdKeeps DEF r
  <2>4. Builder(s) /\ Builder(r) /\ Builder(u) /\ Extends(s, r)
    BY <2>1, <2>3 DEF Slots, r
  <2>5. Extends(s, u)
    BY <2>3, <2>4, ExtendsFacts
  <2>6. ASSUME NEW k \in 1 .. n PROVE Seen(u, e.parts[k].type)
    <3>1. Seen(r, e.parts[k].type)
      BY <2>1 DEF r
    <3> QED BY <2>3, <3>1 DEF Extends, KeepsIds
  <2> QED BY <2>3, <2>5, <2>6 DEF u, t
<1>5. Nat \subseteq S
  <2> HIDE DEF S
  <2> QED BY <1>3, <1>4, NatSet
<1> QED BY <1>1, <1>5 DEF built, N

\* Functions are built, with their parameters and their result.
LEMMA FunctionBuilds ==
  ASSUME NEW s, NEW base, NEW D, Slots(s, base, D), NEW i, i \notin D, NEW e, IsEntry(e),
         e.kind = "FUNC_PROTO"
  PROVE  Builds(s, BuildOneType(s, i, e), i, e, base, D)
<1> DEFINE u     == BuildOneType(s, i, e)
           N     == Len(e.parts)
           q     == BuildParameters(s, e)[N]
           r     == GetId(q, e.type)
           parameters == [n \in DOMAIN e.parts |-> ParameterId(r, e.parts[n].type)]
           edges == Append(parameters, Id(r, e.type))
<1>1. N \in Nat /\ DOMAIN e.parts = 1 .. N
  BY SequenceFacts DEF IsEntry
<1>2. u = Define(r, i, Node("Function", << >>, edges))
  BY DEF BuildOneType, BuildFunction, Qualifiers, Composites, SymbolKinds
<1>3. /\ Slots(q, base, D) /\ Extends(s, q)
      /\ \A k \in 1 .. N : LET t == e.parts[k].type IN
           (t = 0 => q.variadic # 0) /\ (t # 0 => t \in DOMAIN q.ids)
  BY <1>1, ParametersBuild
<1>4. /\ Len(edges) = N + 1 /\ edges[N + 1] = Id(r, e.type)
      /\ \A k \in 1 .. N : edges[k] = ParameterId(r, e.parts[k].type)
  <2> DEFINE V == {ParameterId(r, e.parts[n].type) : n \in 1 .. N}
  <2>1. parameters \in [1 .. N -> V]
    BY <1>1
  <2>2. \A k \in 1 .. N : parameters[k] = ParameterId(r, e.parts[k].type)
    BY <1>1
  <2> HIDE DEF V, parameters, r
  <2>3. parameters \in Seq(V) /\ Len(parameters) = N
    BY <1>1, <2>1
  <2>4. IsSequence(parameters)
    BY <2>3, OwnElements
  <2> QED BY <2>2, <2>3, <2>4, AppendAny
<1> HIDE DEF q
<1>5. /\ Slots(r, base, D) /\ Extends(q, r) /\ Means(r, Id(r, e.type), e.type, "Void")
  BY <1>3, GetIdKeeps
<1> HIDE DEF u, r, edges
<1>6. /\ Slots(u, base, D \cup {i}) /\ Grows(r, u, base) /\ u.symbols = r.symbols
      /\ Holds(u, u.ids[i], "Function", << >>, edges) /\ Edges(u, u.ids[i]) = edges
  <2> DEFINE label == << >>
  <2>1. u = Define(r, i, Node("Function", label, edges))
    BY <1>2
  <2> HIDE DEF label
  <2>2. /\ Slots(u, base, D \cup {i}) /\ Grows(r, u, base) /\ u.symbols = r.symbols
        /\ Holds(u, u.ids[i], "Function", label, edges) /\ Edges(u, u.ids[i]) = edges
    BY <2>1, <1>5, DefineHolds
  <2> QED BY <2>2 DEF label
<1>7. Builder(s) /\ Builder(q) /\ Builder(r) /\ Builder(u)
  BY <1>3, <1>5, <1>6 DEF Slots
<1>8. Grows(s, u, base) /\ u.symbols = s.symbols
  <2>1. Extends(s, r) /\ Grows(s, r, base)
    BY <1>3, <1>5, <1>7, ExtendsFacts
  <2> QED BY <1>6, <1>7, <2>1, GrowsTransitive DEF Extends
<1>9. ASSUME NEW k \in 1 .. N PROVE Means(u, edges[k], e.parts[k].type, "Variadic")
  <2> DEFINE t == e.parts[k].type
  <2>1. (t = 0 => q.variadic # 0) /\ (t # 0 => t \in DOMAIN q.ids)
    BY <1>3
  <2> HIDE DEF t
  <2>2. (t = 0 => r.variadic # 0) /\ (t # 0 => t \in DOMAIN r.ids)
    BY <1>5, <2>1 DEF Extends, KeepsIds
  <2>3. Means(r, ParameterId(r, t), t, "Variadic")
    BY <1>5, <2>2, ParameterMeans
  <2>4. edges[k] = ParameterId(r, t)
    BY <1>4 DEF t
  <2>5. Means(u, edges[k], t, "Variadic")
    BY <1>6, <1>7, <2>3, <2>4, MeansLasts
  <2> QED BY <2>5 DEF t
<1>10. Means(u, edges[N + 1], e.type, "Void")
  BY <1>4, <1>5, <1>6, <1>7, MeansLasts
<1>11. FunctionAt(u, u.ids[i], e)
  BY <1>4, <1>6, <1>9, <1>10 DEF FunctionAt
<1>12. Realises(u, u.ids[i], e)
  BY <1>11 DEF Realises, Qualifiers, Composites, SymbolKinds
<1> QED BY <1>6, <1>8, <1>12 DEF Builds, u

\* What an entry of a symbol has done besides.
BuildsSymbol(s, u, i, e, base, D) ==
  /\ Slots(u, base, D \cup {i})
  /\ Grows(s, u, base)
  /\ Realises(u, u.ids[i], e)
  /\ u.symbols = Insert(s.symbols, e.name, u.ids[i])

\* A function or variable is a type and a symbol.
LEMMA SymbolBuilds ==
  ASSUME NEW s, NEW base, NEW D, Slots(s, base, D), NEW i, i \notin D, NEW e,
         e.kind \in SymbolKinds
  PROVE  BuildsSymbol(s, BuildOneType(s, i, e), i, e, base, D)
<1> DEFINE u     == BuildOneType(s, i, e)
           label == <<e.name, e.kind>>
           r     == Refer(s, i, e, "ElfSymbol", label)
           v     == [r EXCEPT !.symbols = Insert(@, e.name, r.ids[i])]
<1>1. u = v
  BY DEF BuildOneType, BuildSymbol, Qualifiers, Composites, SymbolKinds
<1>2. \A w : Links(w, w.ids[i], "ElfSymbol", label, e.type) => Realises(w, w.ids[i], e)
  BY DEF Realises, Qualifiers, Composites, SymbolKinds
<1> HIDE DEF u, label
<1>3. /\ Slots(r, base, D \cup {i}) /\ Grows(s, r, base) /\ r.symbols = s.symbols
      /\ Links(r, r.ids[i], "ElfSymbol", label, e.type)
  BY ReferBuilds
<1> HIDE DEF r
<1>4. IsReader(r)
  BY <1>3 DEF Slots, Builder
<1> DEFINE y == Insert(s.symbols, e.name, r.ids[i])
<1>5. v = [r EXCEPT !.symbols = y]
  BY <1>3
<1> HIDE DEF v, y
<1>6. v = Reader(r.nodes, r.ids, r.void, r.variadic, y)
  BY <1>4, <1>5, ReaderExcept
<1>7. /\ IsReader(v) /\ v.nodes = r.nodes /\ v.ids = r.ids /\ v.void = r.void
      /\ v.variadic = r.variadic /\ v.symbols = y
  BY <1>6, ReaderParts
<1>8. Slots(v, base, D \cup {i})
  BY <1>3, <1>7 DEF Slots, Builder
<1>9. Grows(s, v, base)
  BY <1>3, <1>7 DEF Grows, KeepsIds
<1>10. Links(v, v.ids[i], "ElfSymbol", label, e.type)
  BY <1>3, <1>7 DEF Links, Edges, Holds, Means, Is
<1> QED BY <1>1, <1>2, <1>7, <1>8, <1>9, <1>10 DEF y, u, BuildsSymbol

\* The reader u has the type of entry e, whose id is i, besides those of s.
BuildsEntry(s, u, i, e, base, D) ==
  /\ Slots(u, base, D \cup {i})
  /\ Grows(s, u, base)
  /\ Realises(u, u.ids[i], e)
  /\ u.symbols = IF e.kind \in SymbolKinds THEN Insert(s.symbols, e.name, u.ids[i])
                 ELSE s.symbols

\* Every entry that is good defines its type, and leaves what there was.
LEMMA EntryBuilds ==
  ASSUME NEW s, NEW base, NEW D, Slots(s, base, D), NEW i, i \notin D, NEW e, IsEntry(e),
         e.kind \in Defining
  PROVE  BuildsEntry(s, BuildOneType(s, i, e), i, e, base, D)
<1>1. CASE e.kind \in SymbolKinds
  <2>1. BuildsSymbol(s, BuildOneType(s, i, e), i, e, base, D)
    BY <1>1, SymbolBuilds
  <2> QED BY <1>1, <2>1 DEF BuildsSymbol, BuildsEntry
<1>2. CASE e.kind \notin SymbolKinds
  <2>1. Builds(s, BuildOneType(s, i, e), i, e, base, D)
    <3>1. \/ e.kind \in {"PTR", "TYPEDEF", "ARRAY"} \cup Qualifiers
          \/ e.kind \in {"INT", "ENUM", "FWD"}
          \/ e.kind \in Composites
          \/ e.kind = "FUNC_PROTO"
      BY <1>2 DEF Defining, Kinds
    <3> QED BY <3>1, ReferencesBuild, DeclaredBuild, StructUnionBuilds, FunctionBuilds
  <2> QED BY <1>2, <2>1 DEF Builds, BuildsEntry
<1> QED BY <1>1, <1>2

--------------------------------------------------------------------------------
(***************************************************************************)
(* A section.                                                              *)
(***************************************************************************)

Defined(types, n)   == {i \in 1 .. n : types[i].kind # "DATASEC"}
SymbolsTo(types, n) == {i \in 1 .. n : types[i].kind \in SymbolKinds}

\* The first n entries have been read, with this reader.
SectionTo(s, base, types, n) ==
  /\ Slots(s, base, Defined(types, n))
  /\ \A i \in 1 .. n : types[i].kind \in Kinds
  /\ \A i \in Defined(types, n) : Realises(s, s.ids[i], types[i])
  /\ DOMAIN s.symbols = {types[i].name : i \in SymbolsTo(types, n)}
  /\ \A i \in SymbolsTo(types, n) : s.symbols[types[i].name] = s.ids[i]
  /\ \A i, j \in SymbolsTo(types, n) : types[i].name = types[j].name => i = j

\* A new reader has nothing to know.
LEMMA SectionStarts ==
  ASSUME NEW nodes, IsSequence(nodes), NEW types, NEW s, s = Structs(nodes)
  PROVE  SectionTo(s, Len(nodes), types, 0) /\ s.nodes = nodes /\ s.ids = NoMap
<1>1. s = Reader(nodes, NoMap, 0, 0, NoMap)
  BY DEF Structs, Reader
<1>2. /\ IsReader(s) /\ s.nodes = nodes /\ s.ids = NoMap /\ s.void = 0 /\ s.variadic = 0
      /\ s.symbols = NoMap
  BY <1>1, ReaderParts
<1>3. Len(nodes) \in Nat
  BY SequenceFacts
<1>4. DOMAIN NoMap = {} /\ NoMap = [t \in DOMAIN NoMap |-> NoMap[t]]
  BY DEF NoMap
<1>5. Defined(types, 0) = {} /\ SymbolsTo(types, 0) = {}
  BY DEF Defined, SymbolsTo
<1>6. Builder(s)
  BY <1>2, <1>3, <1>4 DEF Builder
<1>7. Slots(s, Len(nodes), {})
  BY <1>2, <1>3, <1>4, <1>6 DEF Slots
<1> QED BY SMTT(30), <1>2, <1>4, <1>5, <1>7 DEF SectionTo

\* One entry more.
LEMMA SectionGoesOn ==
  ASSUME NEW s, NEW base, NEW types, NEW n \in Nat, SectionTo(s, base, types, n),
         IsEntry(types[n + 1]), types[n + 1].kind \in Kinds,
         ~IsDuplicateSymbol(s, types[n + 1]),
         NEW u, u = BuildOneType(s, n + 1, types[n + 1])
  PROVE  SectionTo(u, base, types, n + 1) /\ Grows(s, u, base)
<1> DEFINE e == types[n + 1]
           D == Defined(types, n)
           E == SymbolsTo(types, n)
<1>1. Slots(s, base, D) /\ \A i \in 1 .. n + 1 : types[i].kind \in Kinds
  BY DEF SectionTo
<1>2. CASE e.kind = "DATASEC"
  <2>1. u = s
    BY <1>2 DEF BuildOneType, Qualifiers, Composites, SymbolKinds
  <2>2. Defined(types, n + 1) = D /\ SymbolsTo(types, n + 1) = E
    BY <1>2 DEF Defined, SymbolsTo, SymbolKinds
  <2> QED BY <1>1, <2>1, <2>2, ExtendsFacts DEF SectionTo, Slots
<1>3. CASE e.kind # "DATASEC"
  <2>1. /\ Defined(types, n + 1) = D \cup {n + 1} /\ n + 1 \notin D /\ e.kind \in Defining
        /\ SymbolsTo(types, n + 1) = IF e.kind \in SymbolKinds THEN E \cup {n + 1} ELSE E
        /\ n + 1 \notin E
    BY <1>3 DEF Defined, Defining, SymbolsTo
  <2>2. /\ E \subseteq D
        /\ \A i \in D : types[i].kind \in Defining
    BY <1>1 DEF Defined, Defining, SymbolsTo, SymbolKinds
  <2>3. u = BuildOneType(s, n + 1, e) /\ IsEntry(e)
    OBVIOUS
  <2>4. /\ \A i \in D : Realises(s, s.ids[i], types[i])
        /\ DOMAIN s.symbols = {types[i].name : i \in E}
        /\ \A i \in E : s.symbols[types[i].name] = s.ids[i]
        /\ \A i, j \in E : types[i].name = types[j].name => i = j
        /\ e.kind \in SymbolKinds => e.name \notin DOMAIN s.symbols
    BY DEF SectionTo, IsDuplicateSymbol
  <2>5. e = types[n + 1]
    OBVIOUS
  <2> HIDE DEF e, D, E
  <2>6. /\ Slots(u, base, D \cup {n + 1}) /\ Grows(s, u, base) /\ Realises(u, u.ids[n + 1], e)
        /\ u.symbols = IF e.kind \in SymbolKinds THEN Insert(s.symbols, e.name, u.ids[n + 1])
                       ELSE s.symbols
    <3> DEFINE m == n + 1
    <3>1. m \notin D /\ IsEntry(e) /\ u = BuildOneType(s, m, e) /\ e.kind \in Defining
      BY <2>1, <2>3
    <3> HIDE DEF m
    <3>2. BuildsEntry(s, u, m, e, base, D)
      BY <1>1, <3>1, EntryBuilds
    <3> QED BY <3>2 DEF m, BuildsEntry
  <2>7. \A i \in D : u.ids[i] = s.ids[i]
    BY <1>1, <2>6 DEF Grows, KeepsIds, Slots
  <2>8. ASSUME NEW i \in D PROVE Realises(u, u.ids[i], types[i])
    <3>1. Realises(s, u.ids[i], types[i]) /\ types[i].kind \in Defining
      BY <2>2, <2>4, <2>7
    <3>2. Builder(s) /\ Builder(u)
      BY <1>1, <2>6 DEF Slots
    <3> QED BY <2>6, <3>1, <3>2, RealisesLasts
  <2>9. \A i \in Defined(types, n + 1) : Realises(u, u.ids[i], types[i])
    BY <2>1, <2>5, <2>6, <2>8
  <2>10. /\ DOMAIN u.symbols = {types[i].name : i \in SymbolsTo(types, n + 1)}
         /\ \A i \in SymbolsTo(types, n + 1) : u.symbols[types[i].name] = u.ids[i]
         /\ \A i, j \in SymbolsTo(types, n + 1) : types[i].name = types[j].name => i = j
    <3>1. CASE e.kind \in SymbolKinds
      <4> DEFINE y == u.symbols
      <4>1. y = [k \in DOMAIN s.symbols \cup {e.name} |->
                    IF k = e.name THEN u.ids[n + 1] ELSE s.symbols[k]]
        BY <2>4, <2>6, <3>1 DEF Insert
      <4> HIDE DEF y
      <4>2. DOMAIN y = DOMAIN s.symbols \cup {e.name} /\ y[e.name] = u.ids[n + 1]
        BY <4>1
      <4>3. \A i \in E : types[i].name # e.name /\ y[types[i].name] = u.ids[i]
        BY <2>2, <2>4, <2>7, <3>1, <4>1
      <4>4. SymbolsTo(types, n + 1) = E \cup {n + 1}
        BY <2>1, <3>1
      <4>5. DOMAIN y = {types[i].name : i \in E \cup {n + 1}}
        BY <2>4, <2>5, <4>2
      <4> QED BY <2>4, <2>5, <4>2, <4>3, <4>4, <4>5 DEF y
    <3>2. CASE e.kind \notin SymbolKinds
      BY <2>1, <2>2, <2>4, <2>6, <2>7, <3>2
    <3> QED BY <3>1, <3>2
  <2> QED BY <1>1, <2>1, <2>6, <2>9, <2>10 DEF SectionTo
<1> QED BY <1>2, <1>3

\* All entries: the section is what it should be.
LEMMA SectionEnds ==
  ASSUME NEW s, NEW base, NEW types, IsSequence(types), SectionTo(s, base, types, Len(types))
  PROVE  /\ SectionAt(s, types) /\ Builder(s)
         /\ \A t \in DOMAIN s.ids : s.ids[t] > base
<1>1. DOMAIN types = 1 .. Len(types)
  BY SequenceFacts
<1>2. /\ {i \in DOMAIN types : types[i].kind # "DATASEC"} = Defined(types, Len(types))
      /\ SymbolEntries(types) = SymbolsTo(types, Len(types))
  BY <1>1 DEF Defined, SymbolsTo, SymbolEntries, SymbolKinds
<1> QED BY <1>2 DEF SectionTo, SectionAt, Slots, Is

\* A reader whose section is right in the graph it has built is so in any graph that
\* starts with it.
LEMMA SectionLasts ==
  ASSUME NEW s, Builder(s), NEW types, \A i \in DOMAIN types : types[i].kind \in Kinds,
         SectionAt(s, types), NEW nodes, IsSequence(nodes),
         Len(s.nodes) <= Len(nodes), \A k \in 1 .. Len(s.nodes) : nodes[k] = s.nodes[k],
         NEW u, u = [s EXCEPT !.nodes = nodes]
  PROVE  SectionAt(u, types)
<1>1. u = Reader(nodes, s.ids, s.void, s.variadic, s.symbols)
  BY ReaderExcept DEF Builder
<1>2. /\ IsReader(u) /\ u.nodes = nodes /\ u.ids = s.ids /\ u.void = s.void /\ u.variadic = s.variadic
      /\ u.symbols = s.symbols
  BY <1>1, ReaderParts
<1>3. Len(s.nodes) \in Nat /\ Len(nodes) \in Nat
  BY SequenceFacts DEF Builder
<1>4. Builder(u)
  BY <1>2, <1>3 DEF Builder
<1>5. Grows(s, u, 0)
  BY <1>2, <1>3 DEF Grows, KeepsIds
<1> DEFINE D == {i \in DOMAIN types : types[i].kind # "DATASEC"}
           E == SymbolEntries(types)
<1>6. /\ D \subseteq DOMAIN s.ids
      /\ \A i \in D : Realises(s, s.ids[i], types[i])
      /\ \A t \in DOMAIN s.ids \ D : ~Is(s, s.ids[t])
      /\ DOMAIN s.symbols = {types[i].name : i \in E}
      /\ \A i \in E : s.symbols[types[i].name] = s.ids[i]
  BY DEF SectionAt
<1>7. \A i \in D : types[i].kind \in Defining
  BY DEF Defining
<1> HIDE DEF D, E
<1>8. ASSUME NEW i \in D PROVE Realises(u, u.ids[i], types[i])
  <2>1. Realises(s, u.ids[i], types[i]) /\ types[i].kind \in Defining
    BY <1>2, <1>6, <1>7
  <2> QED BY <1>4, <1>5, <2>1, RealisesLasts
<1>9. \A t \in DOMAIN u.ids \ D : ~Is(u, u.ids[t])
  BY <1>2, <1>6 DEF Is, Builder
<1> QED BY <1>2, <1>6, <1>8, <1>9 DEF SectionAt, D, E

--------------------------------------------------------------------------------
(***************************************************************************)
(* What is bad in a file.                                                  *)
(***************************************************************************)

\* What the reader looks for in an entry, and what it may find there already.
LEMMA BadEntries ==
  ASSUME NEW s, NEW e, NEW bytes, NEW terminated \in BOOLEAN
  PROVE  IsBad(s, e, bytes, terminated) <=>
           BadEntry(e, terminated) \/ Bytes(e) > bytes \/ IsDuplicateSymbol(s, e)
<1>1. ASSUME NEW name PROVE ~Named(name, terminated) <=> BadString(name, terminated)
  BY DEF Named, BadString
<1>2. Unnamed = Qualifiers \cup {"PTR", "ARRAY", "FUNC_PROTO", "DATASEC"}
  BY DEF Unnamed, Qualifiers
<1>3. (\E name \in NamesIn(e) : ~Named(name, terminated)) <=>
        \/ e.kind \notin Unnamed /\ BadString(e.name, terminated)
        \/ e.kind # "DATASEC" /\ \E i \in DOMAIN e.parts : BadString(e.parts[i].name, terminated)
  <2>1. NamesIn(e) = (IF e.kind \in Unnamed THEN {} ELSE {e.name})
                     \cup (IF e.kind = "DATASEC" THEN {} ELSE {e.parts[i].name : i \in DOMAIN e.parts})
    BY <1>2 DEF NamesIn
  <2> DEFINE N == NamesIn(e)
             B == {e.parts[i].name : i \in DOMAIN e.parts}
  <2>2. (\E name \in B : BadString(name, terminated))
          <=> \E i \in DOMAIN e.parts : BadString(e.parts[i].name, terminated)
    OBVIOUS
  <2>3. (\E name \in N : ~Named(name, terminated)) <=> \E name \in N : BadString(name, terminated)
    BY <1>1
  <2>4. N = (IF e.kind \in Unnamed THEN {} ELSE {e.name}) \cup (IF e.kind = "DATASEC" THEN {} ELSE B)
    BY <2>1
  <2> HIDE DEF N, B
  <2>5. (\E name \in N : BadString(name, terminated)) <=>
          \/ e.kind \notin Unnamed /\ BadString(e.name, terminated)
          \/ e.kind # "DATASEC" /\ \E name \in B : BadString(name, terminated)
    BY <2>4
  <2> QED BY <2>2, <2>3, <2>5 DEF N
<1> QED BY <1>3 DEF IsBad, BadEntry

\* The only section of some that there may be.
LEMMA OnlySection ==
  ASSUME NEW file, IsSequence(file.sections), NEW S \in SUBSET DOMAIN file.sections
  PROVE  /\ OnlyOne(S) <=> Cardinality(S) = 1
         /\ \A i : S = {i} => i \in DOMAIN file.sections /\ Only(file, S) = file.sections[i]
<1>1. Len(file.sections) \in Nat /\ S \in SUBSET (1 .. Len(file.sections))
  BY SequenceFacts
<1>2. IsFiniteSet(S)
  BY <1>1, FinitePositions
<1>3. OnlyOne(S) <=> \E i : S = {i}
  BY DEF OnlyOne
<1> QED BY <1>2, <1>3, FS_Singleton DEF Only

\* A file's BTF section can be found, or the file is bad.
LEMMA BtfFound ==
  ASSUME NEW file, IsFile(file)
  PROVE  \/ /\ ~HasBtf(file)
            /\ \A verbose : ~file.opens \/ ~file.elf \/ BadBtfFile(file, verbose)
         \/ /\ HasBtf(file) /\ IsBtf(Btf(file)) /\ file.opens /\ file.elf
            /\ \A verbose \in BOOLEAN : BadBtfFile(file, verbose) <=> BadBtf(Btf(file), verbose)
<1> DEFINE S == BtfAt(file)
<1>1. /\ SectionsByName(file, ".BTF") = S /\ S \in SUBSET DOMAIN file.sections
      /\ IsSequence(file.sections) /\ file.opens \in BOOLEAN /\ file.elf \in BOOLEAN
      /\ \A i \in S : IsBtf(file.sections[i].contents) /\ file.sections[i].data \in BOOLEAN
  BY DEF SectionsByName, BtfAt, IsFile
<1>2. OnlyOne(S) <=> Cardinality(S) = 1
  BY <1>1, OnlySection
<1>3. HasBtf(file) <=> file.opens /\ file.elf /\ OnlyOne(S) /\ Only(file, S).data
  BY <1>1 DEF HasBtf, Opens
<1>4. CASE ~OnlyOne(S)
  BY <1>2, <1>3, <1>4 DEF BadBtfFile
<1>5. CASE OnlyOne(S)
  <2>1. PICK i \in S : S = {i}
    BY <1>5 DEF OnlyOne
  <2>2. Only(file, S) = file.sections[i]
    BY <1>1, <2>1, OnlySection
  <2>3. /\ Btf(file) = file.sections[i].contents
        /\ IsBtf(file.sections[i].contents) /\ file.sections[i].data \in BOOLEAN
    BY <1>1, <2>2 DEF Btf
  <2>4. \A verbose : BadBtfFile(file, verbose) <=>
                       ~file.sections[i].data \/ BadBtf(file.sections[i].contents, verbose)
    BY <1>2, <1>5, <2>1 DEF BadBtfFile
  <2> HIDE DEF S
  <2> QED BY <1>1, <1>3, <1>5, <2>2, <2>3, <2>4
<1> QED BY <1>4, <1>5

\* A section that is good has a header that is, no bytes missing, and the strings that
\* are wanted; and its entries are good and no two of the same symbol.
LEMMA GoodBtf ==
  ASSUME NEW btf, IsBtf(btf), NEW verbose \in BOOLEAN
  PROVE  ~BadBtf(btf, verbose) <=>
           /\ HeaderOK(btf.header)
           /\ btf.missing = 0
           /\ \A i \in DOMAIN btf.types : ~BadEntry(btf.types[i], btf.terminated)
           /\ \A i, j \in SymbolEntries(btf.types) : btf.types[i].name = btf.types[j].name => i = j
           /\ verbose => btf.terminated
<1> DEFINE h == btf.header
<1>1. /\ {h.size, h.hdr_len, h.type_off, h.type_len, h.str_off, h.str_len} \subseteq Nat
      /\ h.magic \in BOOLEAN /\ btf.missing \in Nat /\ btf.terminated \in BOOLEAN
  BY DEF IsBtf, IsHeader
<1>2. HeaderOK(h) <=> ~(\/ ~h.magic \/ h.size < 24
                        \/ h.hdr_len < 24 \/ h.type_off % 4 # 0
                        \/ h.type_off + h.type_len > h.str_off
                        \/ h.size < h.hdr_len + h.str_off + h.str_len)
  BY <1>1 DEF HeaderOK
<1> QED BY <1>1, <1>2 DEF BadBtf

\* How many entries a table has, of a size.
LEMMA Quotient ==
  ASSUME NEW a \in Nat, NEW b \in Nat \ {0}, NEW i \in Nat
  PROVE  i <= a \div b <=> i * b <= a
OBVIOUS

\* A symbol table can be read, or the file is bad.
LEMMA SymbolsFound ==
  ASSUME NEW file, IsFile(file)
  PROVE  HasElfSymbols(file) <=> file.opens /\ file.elf /\ ~BadElfFile(file)
<1> DEFINE S == TablesAt(file)
<1>1. SymbolTables(file) = S
  <2>1. CASE file.type = "REL"
    BY <2>1 DEF SymbolTables, TableTypes, SectionsByType, TablesAt
  <2>2. CASE file.type \in {"DYN", "EXEC"}
    BY <2>2 DEF SymbolTables, TableTypes, SectionsByType, TablesAt
  <2>3. CASE file.type \notin {"REL", "DYN", "EXEC"}
    BY <2>3 DEF SymbolTables, TableTypes, SectionsByType, TablesAt
  <2> QED BY <2>1, <2>2, <2>3
<1>2. /\ S \in SUBSET DOMAIN file.sections /\ IsSequence(file.sections)
      /\ file.opens \in BOOLEAN /\ file.elf \in BOOLEAN
      /\ \A i \in S : IsTable(file.sections[i]) /\ file.sections[i].data \in BOOLEAN
  BY DEF TablesAt, IsFile
<1>3. OnlyOne(S) <=> Cardinality(S) = 1
  BY <1>2, OnlySection
<1>4. CASE ~OnlyOne(S)
  BY <1>1, <1>3, <1>4 DEF HasElfSymbols, BadElfFile
<1>5. CASE OnlyOne(S)
  <2>1. PICK i \in S : S = {i}
    BY <1>5 DEF OnlyOne
  <2> DEFINE table == file.sections[i]
             n == Len(table.contents)
  <2>2. Only(file, S) = table
    BY <1>2, <2>1, OnlySection
  <2>3. table.entsize \in Nat /\ n \in Nat /\ DOMAIN table.contents = 1 .. n
    BY <1>2, SequenceFacts DEF IsTable
  <2>4. HasElfSymbols(file) <=>
          /\ Opens(file) /\ table.data /\ table.entsize # 0
          /\ \A k \in 1 .. NumberOfEntries(table) :
               k \in DOMAIN table.contents /\ KnownEntry(table.contents[k])
    BY <1>1, <1>5, <2>2 DEF HasElfSymbols
  <2>5. BadElfFile(file) <=> ~table.data \/ BadTable(table)
    BY <1>3, <1>5, <2>1 DEF BadElfFile
  <2> HIDE DEF table
  <2>6. ASSUME table.entsize # 0
        PROVE  BadTable(table) <=>
                 \E k \in 1 .. NumberOfEntries(table) :
                   ~(k \in DOMAIN table.contents /\ KnownEntry(table.contents[k]))
    <3> DEFINE b == table.entsize
    <3>1. 24 * n \in Nat /\ b \in Nat \ {0} /\ NumberOfEntries(table) = (24 * n) \div b
      BY <2>3, <2>6 DEF NumberOfEntries
    <3>2. \A k \in Nat : k <= NumberOfEntries(table) <=> k * b <= 24 * n
      BY <3>1, Quotient
    <3>3. NumberOfEntries(table) \in Nat /\ \A k \in Nat \ {0} : k * b <= 24 * n => k <= 24 * n
      BY <3>1
    <3>4. \A k : k \in 1 .. NumberOfEntries(table) <=> k \in 1 .. 24 * n /\ k * b <= 24 * n
      BY <3>1, <3>2, <3>3
    <3>5. \A k \in 1 .. 24 * n : k > n <=> k \notin DOMAIN table.contents
      BY <2>3, <3>1
    <3>6. BadTable(table) <=>
            \E k \in 1 .. 24 * n : k * b <= 24 * n /\ (k > n \/ ~KnownEntry(table.contents[k]))
      BY <2>6 DEF BadTable
    <3> HIDE DEF b, n
    <3> QED BY <3>4, <3>5, <3>6
  <2>7. table.entsize = 0 => BadTable(table)
    BY DEF BadTable
  <2> QED BY <2>4, <2>5, <2>6, <2>7 DEF Opens
<1> QED BY <1>4, <1>5

\* What is read further is not less.
LEMMA SizeGrows ==
  ASSUME NEW types, IsSequence(types), \A i \in DOMAIN types : IsEntry(types[i]),
         NEW n \in 0 .. Len(types)
  PROVE  /\ Size(types)[n] \in Nat /\ Size(types)[Len(types)] \in Nat
         /\ \A i \in 1 .. Len(types) : Bytes(types[i]) \in Nat \ {0}
         /\ n < Len(types) =>
              /\ Size(types)[n + 1] = Size(types)[n] + Bytes(types[n + 1])
              /\ Size(types)[n + 1] <= Size(types)[Len(types)]
              /\ Size(types)[n] + Bytes(types[Len(types)]) <= Size(types)[Len(types)]
<1> DEFINE L == Len(types)
           z == Size(types)
<1>1. L \in Nat /\ DOMAIN types = 1 .. L
  BY SequenceFacts
<1>2. \A i \in 1 .. L : Bytes(types[i]) \in Nat \ {0}
  <2> SUFFICES ASSUME NEW i \in 1 .. L PROVE Bytes(types[i]) \in Nat \ {0}
    OBVIOUS
  <2> DEFINE e == types[i]
  <2>1. Len(e.parts) \in Nat
    BY <1>1, SequenceFacts DEF IsEntry
  <2> HIDE DEF e
  <2>2. Extra(e) \in Nat
    BY <2>1 DEF Extra, Composites
  <2> QED BY <2>2 DEF Bytes, e
<1>3. z[0] = 0 /\ \A i \in 1 .. L : z[i] = z[i - 1] + Bytes(types[i])
  BY SizePrefixes
<1> HIDE DEF z, L
<1>4. \A m \in Nat : m <= L => z[m] \in Nat
  <2> DEFINE S == {m \in Nat : m <= L => z[m] \in Nat}
  <2>1. 0 \in S
    BY <1>3
  <2>2. ASSUME NEW m \in Nat, m \in S PROVE m + 1 \in S
    <3> SUFFICES ASSUME m + 1 <= L PROVE z[m + 1] \in Nat
      OBVIOUS
    <3>1. z[m + 1] = z[m] + Bytes(types[m + 1])
      <4>1. m + 1 \in 1 .. L /\ (m + 1) - 1 = m
        BY <1>1
      <4> QED BY <1>3, <4>1
    <3> QED BY <1>1, <1>2, <2>2, <3>1
  <2> HIDE DEF S
  <2>3. Nat \subseteq S
    BY <2>1, <2>2, NatSet
  <2> QED BY <2>3 DEF S
<1>5. \A m, k \in 0 .. L : m <= k => z[m] <= z[k]
  <2> DEFINE S == {d \in Nat : \A m \in Nat : m + d <= L => z[m] <= z[m + d]}
  <2>1. 0 \in S
    BY <1>1, <1>4
  <2>2. ASSUME NEW d \in Nat, d \in S PROVE d + 1 \in S
    <3> SUFFICES ASSUME NEW m \in Nat, m + (d + 1) <= L PROVE z[m] <= z[m + (d + 1)]
      OBVIOUS
    <3> DEFINE k == m + (d + 1)
    <3>1. k \in 1 .. L /\ k - 1 = m + d /\ m + d <= L /\ m + d \in Nat /\ m <= L
      BY <1>1
    <3>2. /\ z[k] = z[m + d] + Bytes(types[k]) /\ Bytes(types[k]) \in Nat
          /\ z[m + d] \in Nat /\ z[m] \in Nat
      BY <1>2, <1>3, <1>4, <3>1
    <3>3. z[m] <= z[m + d]
      BY <2>2, <3>1
    <3> QED BY <3>2, <3>3
  <2> HIDE DEF S
  <2>3. Nat \subseteq S
    BY <2>1, <2>2, NatSet
  <2> SUFFICES ASSUME NEW m \in 0 .. L, NEW k \in 0 .. L, m <= k PROVE z[m] <= z[k]
    OBVIOUS
  <2>4. k - m \in S /\ m + (k - m) = k /\ m \in Nat
    BY <1>1, <2>3
  <2> QED BY <1>1, <2>4 DEF S
<1>6. n \in Nat /\ n <= L
  BY <1>1 DEF L
<1>7. ASSUME n < L
      PROVE  /\ z[n + 1] = z[n] + Bytes(types[n + 1])
             /\ z[n + 1] <= z[L]
             /\ z[n] + Bytes(types[L]) <= z[L]
  <2>1. n + 1 \in 1 .. L /\ L \in 1 .. L /\ L - 1 \in 0 .. L /\ n <= L - 1 /\ (n + 1) - 1 = n
    BY <1>1, <1>6, <1>7
  <2>2. z[n + 1] = z[n] + Bytes(types[n + 1]) /\ Bytes(types[n + 1]) \in Nat
    BY <1>2, <1>3, <2>1
  <2>3. z[n + 1] <= z[L] /\ z[n] <= z[L - 1]
    BY <1>1, <1>5, <1>6, <2>1
  <2>4. z[L] = z[L - 1] + Bytes(types[L]) /\ Bytes(types[L]) \in Nat
    BY <1>2, <1>3, <2>1
  <2>5. z[n] \in Nat /\ z[L - 1] \in Nat
    BY <1>1, <1>4, <1>6, <2>1
  <2> QED BY <2>2, <2>3, <2>4, <2>5
<1>8. z[n] \in Nat /\ z[L] \in Nat
  BY <1>1, <1>4, <1>6
<1> QED BY <1>2, <1>7, <1>8 DEF z, L

--------------------------------------------------------------------------------
(***************************************************************************)
(* The inductive invariant.                                                *)
(***************************************************************************)

\* What is run does not change, and is as CallsAssumption says.
CallInv ==
  /\ program \in {"stginfo", "stgdiff"}
  /\ IsSequence(arguments) /\ \A i \in DOMAIN arguments : IsFile(arguments[i].file)

\* The inputs are the arguments, once these have been looked at and found good.
InputsInv ==
  /\ phase \in {"arguments", "read", "types", "ended"}
  /\ phase # "ended" => exit = 0
  /\ IsSequence(inputs)
  /\ phase = "arguments" =>
       /\ Verbose /\ finished = << >>
       /\ \/ inputs = << >> /\ next = 1
          \/ /\ Len(arguments) > 0 /\ arguments[1].option \in Formats
             /\ inputs = <<arguments[1]>> /\ next = 2
  /\ phase \in {"read", "types"} => inputs = arguments /\ (Verbose => ~BadArguments)

\* A graph starts with the nodes that it had before.
StartsWith(nodes, old) == Len(old) <= Len(nodes) /\ \A i \in 1 .. Len(old) : nodes[i] = old[i]

\* The input was good, and what it says is in the graph as it was then.
GoodInput(input, reader, verbose) ==
  /\ ~BadInput(input, verbose)
  /\ Builder(reader)
  /\ input.option = "btf" =>
       LET types == Btf(input.file).types
       IN  SectionAt(reader, types) /\ \A i \in DOMAIN types : types[i].kind \in Kinds

\* The types of the reader have slots that an earlier one's have not.
After(reader, earlier) == \A t \in DOMAIN reader.ids : reader.ids[t] > Len(earlier.nodes)

FinishedAt(k) ==
  /\ GoodInput(inputs[k], finished[k], Verbose)
  /\ StartsWith(graph.nodes, finished[k].nodes)
  /\ \A l \in 1 .. k - 1 : After(finished[k], finished[l])

FinishedInv ==
  /\ Builder(graph)
  /\ IsSequence(finished) /\ Len(finished) <= Len(inputs)
  /\ \A k \in 1 .. Len(finished) : FinishedAt(k)

\* The slots of the section come after all earlier ones.
SectionSoFar(g, readers, types, n) ==
  \E base \in 0 .. Len(g.nodes) :
    /\ SectionTo(g, base, types, n)
    /\ \A k \in 1 .. Len(readers) : Len(readers[k].nodes) <= base

\* The first n entries have been read and the others are what is left, in the file and
\* in the bytes that are.
ReadTo(btf, n, left, bytes) ==
  /\ n \in 0 .. Len(btf.types)
  /\ left = SubSeq(btf.types, n + 1, Len(btf.types))
  /\ bytes \in Nat /\ Size(btf.types)[n] + bytes = btf.header.type_len
  /\ \A i \in 1 .. n : ~BadEntry(btf.types[i], btf.terminated)

TypesInv ==
  phase = "types" =>
    /\ Len(finished) < Len(inputs) /\ Current.option = "btf"
    /\ HasBtf(File) /\ HeaderOK(Btf(File).header)
    /\ index \in Nat \ {0} /\ ReadTo(Btf(File), index - 1, rest, room)
    /\ SectionSoFar(graph, finished, Btf(File).types, index - 1)

IInv == CallInv /\ InputsInv /\ FinishedInv /\ TypesInv /\ RefusesExactly

--------------------------------------------------------------------------------
(***************************************************************************)
(* The steps.                                                              *)
(***************************************************************************)

\* It holds at first.
LEMMA InitInv == Init => IInv
<1> SUFFICES ASSUME Init PROVE IInv
  OBVIOUS
<1>1. PICK call \in Calls : program = call.program /\ arguments = call.arguments
  BY DEF Init
<1>2. CallInv
  BY <1>1, CallsAssumption DEF CallInv
<1>3. IsSequence(<< >>) /\ Len(<< >>) = 0
  <2> DEFINE q == << >>
  <2>1. q \in Seq({}) /\ Len(q) = 0
    OBVIOUS
  <2> HIDE DEF q
  <2>2. IsSequence(q)
    BY <2>1, OwnElements
  <2> QED BY <2>1, <2>2 DEF q
<1>4. \/ program = "stginfo" /\ inputs = << >> /\ phase = "arguments"
      \/ program # "stginfo" /\ inputs = arguments /\ phase = "read"
  BY DEF Init
<1>5. InputsInv
  BY <1>2, <1>3, <1>4 DEF Init, CallInv, InputsInv, Verbose
<1>6. FinishedInv
  <2>1. Builder(Structs(<< >>))
    BY <1>3, SectionStarts DEF SectionTo, Slots
  <2>2. Len(inputs) \in Nat
    BY <1>5, SequenceFacts DEF InputsInv
  <2> QED BY <1>3, <2>1, <2>2 DEF Init, FinishedInv
<1> QED BY <1>2, <1>4, <1>5, <1>6 DEF IInv, TypesInv, RefusesExactly

\* Something is bad, in the arguments or an input.
Bad ==
  \/ Verbose /\ BadArguments
  \/ \E i \in DOMAIN arguments : BadInput(arguments[i], Verbose)

\* Who fails has a reason.
LEMMA FailKeeps ==
  ASSUME IInv, Bad, Fail
  PROVE  IInv'
<1>1. /\ phase' = "ended" /\ exit' = 1
      /\ UNCHANGED <<program, arguments, next, inputs, graph, index, rest, room, finished>>
  BY DEF Fail
<1>2. CallInv'
  BY <1>1 DEF IInv, CallInv
<1>3. InputsInv'
  BY <1>1 DEF IInv, InputsInv
<1>4. FinishedInv'
  BY <1>1 DEF IInv, FinishedInv, FinishedAt, Verbose
<1>5. RefusesExactly'
  BY <1>1 DEF Bad, RefusesExactly, Verbose, BadArguments
<1> QED BY <1>1, <1>2, <1>3, <1>4, <1>5 DEF IInv, TypesInv

\* The input at work is bad.
LEMMA BadCurrent ==
  ASSUME IInv, phase \in {"read", "types"}, Len(finished) < Len(inputs), BadInput(Current, Verbose)
  PROVE  Bad
<1>1. inputs = arguments /\ IsSequence(finished) /\ IsSequence(arguments)
  BY DEF IInv, CallInv, InputsInv, FinishedInv
<1>2. Len(finished) \in Nat /\ Len(arguments) \in Nat /\ DOMAIN arguments = 1 .. Len(arguments)
  BY <1>1, SequenceFacts
<1>3. Len(finished) + 1 \in DOMAIN arguments
  BY <1>1, <1>2
<1> QED BY <1>1, <1>3 DEF Bad, Current

\* The argument of stginfo.
LEMMA InputKeeps == ASSUME IInv, Input PROVE IInv'
<1>1. /\ phase = "arguments" /\ next <= Len(arguments) /\ arguments[next].option \in Formats
      /\ inputs = << >> /\ inputs' = <<arguments[next]>> /\ next' = next + 1
      /\ UNCHANGED <<program, arguments, graph, index, rest, room, finished, phase, exit>>
  BY DEF Input
<1>2. next = 1 /\ finished = << >> /\ Verbose /\ Len(arguments) > 0
  <2>1. Len(arguments) \in Nat
    BY SequenceFacts DEF IInv, CallInv
  <2>2. next = 1 /\ finished = << >> /\ Verbose
    BY <1>1 DEF IInv, InputsInv
  <2> QED BY <1>1, <2>1, <2>2
<1>3. CallInv'
  BY <1>1 DEF IInv, CallInv
<1>4. IsSequence(<<arguments[1]>>) /\ Len(<<arguments[1]>>) = 1
  <2>1. <<arguments[1]>> \in Seq({arguments[1]})
    OBVIOUS
  <2> QED BY <2>1, OwnElements
<1>5. InputsInv'
  BY <1>1, <1>2, <1>4 DEF IInv, InputsInv, Verbose
<1>6. FinishedInv'
  BY <1>1, <1>2, <1>4 DEF IInv, FinishedInv
<1> QED BY <1>1, <1>3, <1>5, <1>6 DEF IInv, TypesInv, RefusesExactly

\* stginfo fails for no other reason than its arguments.
LEMMA UsageKeeps == ASSUME IInv, Usage PROVE IInv'
<1>1. /\ phase = "arguments"
      /\ IF next > Len(arguments) THEN inputs = << >>
         ELSE arguments[next].option \notin Formats \/ inputs # << >>
      /\ Fail
  BY DEF Usage
<1>2. Len(arguments) \in Nat
  BY SequenceFacts DEF IInv, CallInv
<1>3. /\ Verbose
      /\ \/ inputs = << >> /\ next = 1
         \/ Len(arguments) > 0 /\ inputs = <<arguments[1]>> /\ next = 2
  BY <1>1 DEF IInv, InputsInv
<1>4. <<arguments[1]>> # << >>
  OBVIOUS
<1>5. BadArguments
  <2>1. CASE inputs = << >>
    <3>1. next = 1
      BY <1>3, <1>4, <2>1
    <3> QED BY <1>1, <1>2, <2>1, <3>1 DEF BadArguments
  <2>2. CASE inputs # << >>
    <3>1. next = 2 /\ Len(arguments) > 0
      BY <1>3, <2>2
    <3> DEFINE n == Len(arguments)
    <3>2. n \in Nat /\ 2 <= n
      BY <1>1, <1>2, <2>2, <3>1
    <3> HIDE DEF n
    <3>3. n # 1
      BY <3>2
    <3> QED BY <3>3 DEF n, BadArguments
  <2> QED BY <2>1, <2>2
<1> QED BY <1>1, <1>3, <1>5, FailKeeps DEF Bad

\* The arguments were good.
LEMMA ReadInputKeeps == ASSUME IInv, ReadInput PROVE IInv'
<1>1. /\ phase = "arguments" /\ next > Len(arguments) /\ inputs # << >> /\ phase' = "read"
      /\ UNCHANGED <<program, arguments, next, inputs, graph, index, rest, room, finished, exit>>
  BY DEF ReadInput
<1>2. /\ Len(arguments) > 0 /\ arguments[1].option \in Formats
      /\ inputs = <<arguments[1]>> /\ next = 2 /\ exit = 0 /\ IsSequence(inputs)
  BY <1>1 DEF IInv, InputsInv
<1>3. Len(arguments) \in Nat /\ arguments = [k \in 1 .. Len(arguments) |-> arguments[k]]
  BY SequenceFacts DEF IInv, CallInv
<1>4. Len(arguments) = 1
  BY <1>1, <1>2, <1>3
<1>5. inputs = arguments
  BY <1>2, <1>3, <1>4
<1>6. ~BadArguments
  BY <1>2, <1>4 DEF BadArguments
<1>7. CallInv'
  BY <1>1 DEF IInv, CallInv
<1>8. InputsInv'
  BY <1>1, <1>2, <1>5, <1>6 DEF InputsInv, BadArguments, Verbose
<1>9. FinishedInv'
  BY <1>1 DEF IInv, FinishedInv, FinishedAt, Verbose
<1> QED BY <1>1, <1>7, <1>8, <1>9 DEF IInv, TypesInv, RefusesExactly

\* An input has been read, by reader g.
LEMMA FinishKeeps ==
  ASSUME FinishedInv, Len(inputs) \in Nat, Len(finished) < Len(inputs),
         NEW g, GoodInput(Current, g, Verbose),
         \A k \in 1 .. Len(finished) : StartsWith(g.nodes, finished[k].nodes) /\ After(g, finished[k]),
         Finish(g), UNCHANGED <<program, inputs>>
  PROVE  FinishedInv'
<1> DEFINE n == Len(finished)
           node == Node("Symbols", << >>, Range(g.symbols))
<1>1. IsSequence(finished) /\ n \in Nat /\ n < Len(inputs) /\ Builder(g)
  BY SequenceFacts DEF FinishedInv, GoodInput
<1>2. graph' = Add(g, node) /\ finished' = Append(finished, g)
  BY DEF Finish, BuildSymbols
<1> DEFINE new == Append(finished, g)
           h == Add(g, node)
<1>3. /\ IsSequence(new) /\ Len(new) = n + 1 /\ new[n + 1] = g
      /\ \A k \in 1 .. n : new[k] = finished[k]
  BY <1>1, AppendAny
<1>4. /\ Builder(h) /\ Len(g.nodes) \in Nat /\ Len(h.nodes) = Len(g.nodes) + 1
      /\ \A k \in 1 .. Len(g.nodes) : h.nodes[k] = g.nodes[k]
  BY <1>1, AddFields
<1> HIDE DEF new, h, node
<1>5. StartsWith(h.nodes, g.nodes)
  BY <1>4 DEF StartsWith
<1>6. \A k \in 1 .. n : StartsWith(h.nodes, finished[k].nodes)
  <2> SUFFICES ASSUME NEW k \in 1 .. n PROVE StartsWith(h.nodes, finished[k].nodes)
    OBVIOUS
  <2>1. Len(finished[k].nodes) \in Nat
    BY SequenceFacts DEF FinishedInv, FinishedAt, GoodInput, Builder, n
  <2>2. StartsWith(g.nodes, finished[k].nodes)
    BY DEF n
  <2> QED BY <1>4, <2>1, <2>2 DEF StartsWith
<1> DEFINE At(k) == /\ GoodInput(inputs[k], new[k], Verbose)
                    /\ StartsWith(h.nodes, new[k].nodes)
                    /\ \A l \in 1 .. k - 1 : After(new[k], new[l])
<1>7. At(n + 1)
  <2>1. GoodInput(inputs[n + 1], g, Verbose)
    BY DEF n, Current
  <2>2. \A l \in 1 .. n : After(g, finished[l])
    BY DEF n
  <2> QED BY <1>1, <1>3, <1>5, <2>1, <2>2
<1>8. \A k \in 1 .. n : At(k)
  <2> SUFFICES ASSUME NEW k \in 1 .. n PROVE At(k)
    OBVIOUS
  <2>1. /\ GoodInput(inputs[k], finished[k], Verbose)
        /\ \A l \in 1 .. k - 1 : After(finished[k], finished[l])
    BY DEF FinishedInv, FinishedAt, n
  <2>2. new[k] = finished[k] /\ \A l \in 1 .. k - 1 : new[l] = finished[l]
    BY <1>1, <1>3
  <2> QED BY <1>6, <2>1, <2>2
<1>9. \A k \in 1 .. n + 1 : At(k)
  BY <1>1, <1>7, <1>8
<1>10. graph' = h /\ finished' = new /\ program' = program /\ inputs' = inputs
  BY <1>2 DEF h, new
<1>11. \A k \in 1 .. Len(finished') : FinishedAt(k)'
  BY <1>3, <1>9, <1>10 DEF FinishedAt, Verbose
<1>12. Builder(graph') /\ IsSequence(finished') /\ Len(finished') <= Len(inputs')
  BY <1>1, <1>3, <1>4, <1>10
<1> QED BY <1>11, <1>12 DEF FinishedInv

\* What is known of the input at work.
LEMMA CurrentFacts ==
  ASSUME IInv, phase \in {"read", "types"}, Len(finished) < Len(inputs)
  PROVE  IsFile(File) /\ Len(inputs) \in Nat /\ Verbose \in BOOLEAN /\ inputs = arguments
<1>1. inputs = arguments /\ IsSequence(finished) /\ IsSequence(arguments)
  BY DEF IInv, CallInv, InputsInv, FinishedInv
<1>2. Len(finished) \in Nat /\ Len(arguments) \in Nat /\ DOMAIN arguments = 1 .. Len(arguments)
  BY <1>1, SequenceFacts
<1>3. Len(finished) + 1 \in DOMAIN arguments
  BY <1>1, <1>2
<1> QED BY <1>1, <1>2, <1>3 DEF IInv, CallInv, File, Current, Verbose

\* A reader without types, of an input without any.
LEMMA FinishOthers ==
  ASSUME IInv, Unread, Current.option # "btf", ~BadInput(Current, Verbose),
         Finish(Structs(graph.nodes)),
         UNCHANGED <<program, arguments, next, inputs, index, rest, room, phase, exit>>
  PROVE  IInv'
<1> DEFINE g == Structs(graph.nodes)
<1>1. phase = "read" /\ Len(finished) < Len(inputs) /\ Len(inputs) \in Nat
  BY CurrentFacts DEF Unread
<1>2. IsSequence(graph.nodes)
  BY DEF IInv, FinishedInv, Builder
<1>3. Builder(g) /\ g.nodes = graph.nodes /\ DOMAIN g.ids = {}
  BY <1>2, SectionStarts DEF SectionTo, Slots, NoMap
<1> HIDE DEF g
<1>4. GoodInput(Current, g, Verbose)
  BY <1>3 DEF GoodInput
<1>5. \A k \in 1 .. Len(finished) : StartsWith(g.nodes, finished[k].nodes) /\ After(g, finished[k])
  BY <1>3 DEF IInv, FinishedInv, FinishedAt, After
<1>6. FinishedInv'
  <2>1. FinishedInv /\ Finish(g)
    BY DEF IInv, g
  <2> QED BY <1>1, <1>4, <1>5, <2>1, FinishKeeps
<1>7. CallInv'
  BY DEF IInv, CallInv
<1>8. InputsInv'
  BY <1>1 DEF IInv, InputsInv, Verbose, BadArguments
<1> QED BY <1>1, <1>6, <1>7, <1>8 DEF IInv, TypesInv, RefusesExactly

\* An ABI XML document.
LEMMA ReadAbiKeeps == ASSUME IInv, ReadAbi PROVE IInv'
<1>1. Unread /\ Current.option = "abi" /\ phase = "read" /\ Len(finished) < Len(inputs)
  BY DEF ReadAbi, Unread
<1>2. IsFile(File)
  BY <1>1, CurrentFacts
<1>3. BadInput(Current, Verbose) <=> ~(File.opens /\ File.abi)
  BY <1>1 DEF BadInput, File
<1>4. CASE ~(File.opens /\ File.abi)
  BY <1>1, <1>3, <1>4, BadCurrent, FailKeeps DEF ReadAbi
<1>5. CASE File.opens /\ File.abi
  BY <1>1, <1>3, <1>5, FinishOthers DEF ReadAbi
<1> QED BY <1>4, <1>5

\* The symbols of an ELF file.
LEMMA ReadElfKeeps == ASSUME IInv, ReadElf PROVE IInv'
<1>1. Unread /\ Current.option = "elf" /\ phase = "read" /\ Len(finished) < Len(inputs)
  BY DEF ReadElf, Unread
<1>2. IsFile(File)
  BY <1>1, CurrentFacts
<1>3. HasElfSymbols(File) <=> File.opens /\ File.elf /\ ~BadElfFile(File)
  BY <1>2, SymbolsFound
<1>4. BadInput(Current, Verbose) <=> ~HasElfSymbols(File)
  BY <1>1, <1>3 DEF BadInput, File
<1>5. CASE ~HasElfSymbols(File)
  BY <1>1, <1>4, <1>5, BadCurrent, FailKeeps DEF ReadElf
<1>6. CASE HasElfSymbols(File)
  BY <1>1, <1>4, <1>6, FinishOthers DEF ReadElf
<1> QED BY <1>5, <1>6

\* What is left of a sequence: all of it, and then an element less each time.
LEMMA AllLeft ==
  ASSUME NEW q, IsSequence(q)
  PROVE  SubSeq(q, 1, Len(q)) = q
<1> DEFINE S == {q[k] : k \in DOMAIN q}
<1>1. q \in Seq(S)
  BY DEF IsSequence
<1> HIDE DEF S
<1> QED BY <1>1

\* The first that is left, and what is left then.
LEMMA OneLess ==
  ASSUME NEW q, IsSequence(q), NEW m \in 1 .. Len(q), NEW r, r = SubSeq(q, m, Len(q))
  PROVE  Head(r) = q[m] /\ Tail(r) = SubSeq(q, m + 1, Len(q))
<1> DEFINE S == {q[k] : k \in DOMAIN q}
<1>1. q \in Seq(S)
  BY DEF IsSequence
<1> HIDE DEF S
<1>2. Len(q) \in Nat /\ m \in Nat /\ 1 <= m /\ m <= Len(q)
  BY <1>1
<1>3. r \in Seq(S)
  BY <1>1, <1>2
<1> QED BY <1>1, <1>2, <1>3

\* An input with a BTF section, or without one.
LEMMA BadBtfInput ==
  ASSUME NEW input, IsFile(input.file), input.option = "btf", NEW verbose \in BOOLEAN
  PROVE  /\ ~HasBtf(input.file) => BadInput(input, verbose)
         /\ HasBtf(input.file) =>
              /\ IsBtf(Btf(input.file))
              /\ BadInput(input, verbose) <=> BadBtf(Btf(input.file), verbose)
<1>1. BadInput(input, verbose) <=>
        ~input.file.opens \/ ~input.file.elf \/ BadBtfFile(input.file, verbose)
  BY DEF BadInput
<1> QED BY <1>1, BtfFound

\* A BTF section is begun: nothing of it has been read.
LEMMA ReadBtfKeeps == ASSUME IInv, ReadBtf PROVE IInv'
<1> SUFFICES ASSUME NEW btf, btf = Btf(File), NEW types, types = btf.types,
                    NEW g, g = Structs(graph.nodes)
             PROVE  IInv'
  OBVIOUS
<1>1. Unread /\ Current.option = "btf" /\ phase = "read" /\ Len(finished) < Len(inputs)
  BY DEF ReadBtf, Unread
<1>2. IsFile(File) /\ Verbose \in BOOLEAN /\ inputs = arguments
  BY <1>1, CurrentFacts
<1>3. /\ ~HasBtf(File) => BadInput(Current, Verbose)
      /\ HasBtf(File) => IsBtf(btf) /\ (BadInput(Current, Verbose) <=> BadBtf(btf, Verbose))
  BY <1>1, <1>2, BadBtfInput DEF File
<1>4. CASE ~(HasBtf(File) /\ HeaderOK(btf.header))
  <2>1. BadInput(Current, Verbose)
    BY <1>2, <1>3, <1>4, GoodBtf
  <2> QED BY <1>1, <1>4, <2>1, BadCurrent, FailKeeps DEF ReadBtf
<1>5. CASE HasBtf(File) /\ HeaderOK(btf.header)
  <2>1. /\ graph' = g /\ index' = 1 /\ rest' = types /\ room' = btf.header.type_len
        /\ phase' = "types"
        /\ UNCHANGED <<program, arguments, next, inputs, finished, exit>>
    BY <1>5 DEF ReadBtf
  <2>2. /\ IsBtf(btf) /\ IsSequence(types) /\ btf.header.type_len \in Nat
        /\ Len(types) \in Nat
    BY <1>3, <1>5, SequenceFacts DEF IsBtf, IsHeader
  <2>3. IsSequence(graph.nodes) /\ Len(graph.nodes) \in Nat
    BY SequenceFacts DEF IInv, FinishedInv, Builder
  <2>4. SectionTo(g, Len(graph.nodes), types, 0) /\ g.nodes = graph.nodes /\ Builder(g)
    <3>1. SectionTo(g, Len(graph.nodes), types, 0) /\ g.nodes = graph.nodes
      BY <2>3, SectionStarts
    <3> QED BY <3>1 DEF SectionTo, Slots
  <2>5. SectionSoFar(g, finished, types, 0)
    <3>1. \A k \in 1 .. Len(finished) : Len(finished[k].nodes) <= Len(graph.nodes)
      BY DEF IInv, FinishedInv, FinishedAt, StartsWith
    <3> QED BY <2>3, <2>4, <3>1 DEF SectionSoFar
  <2>6. types = SubSeq(types, 1, Len(types))
    BY <2>2, AllLeft
  <2>7. Size(types)[0] = 0
    BY <2>2, SizePrefixes
  <2>8. ReadTo(btf, 0, rest', room')
    BY <2>1, <2>2, <2>6, <2>7 DEF ReadTo
  <2>9. Current' = Current /\ File' = File /\ Btf(File)' = btf
    BY <2>1 DEF Current, File
  <2>10. TypesInv'
    <3>1. index' - 1 = 0 /\ index' \in Nat \ {0}
      BY <2>1
    <3>2. SectionSoFar(graph', finished', types, 0)
      BY <2>1, <2>5
    <3> QED BY <1>1, <1>5, <2>1, <2>8, <2>9, <3>1, <3>2 DEF TypesInv
  <2>11. CallInv'
    BY <2>1 DEF IInv, CallInv
  <2>12. InputsInv'
    BY <1>1, <2>1 DEF IInv, InputsInv, Verbose, BadArguments
  <2>13. FinishedInv'
    BY <2>1, <2>4 DEF IInv, FinishedInv, FinishedAt, Verbose
  <2> QED BY <2>1, <2>10, <2>11, <2>12, <2>13 DEF IInv, RefusesExactly
<1> QED BY <1>4, <1>5

\* What is known of the section at work: there are entries left as long as there are
\* bytes, if not always all the bytes of an entry.
AtWork(btf, types, n, m, e) ==
  /\ IsBtf(btf) /\ IsSequence(types) /\ Len(types) \in Nat
  /\ Verbose \in BOOLEAN /\ Len(inputs) \in Nat /\ Len(finished) < Len(inputs)
  /\ Current.option = "btf" /\ HasBtf(File) /\ HeaderOK(btf.header)
  /\ BadInput(Current, Verbose) <=> BadBtf(btf, Verbose)
  /\ n \in 0 .. Len(types) /\ index = m /\ ReadTo(btf, n, rest, room)
  /\ SectionSoFar(graph, finished, types, n)
  /\ room = 0 => n = Len(types) /\ btf.missing = 0
  /\ room # 0 =>
       /\ n < Len(types) /\ Head(rest) = e /\ Tail(rest) = SubSeq(types, m + 1, Len(types))
       /\ IsEntry(e) /\ Bytes(e) \in Nat
       /\ Size(types)[m] = Size(types)[n] + Bytes(e)
       /\ Bytes(e) > room => btf.missing > 0

\* It follows from the invariant.
LEMMA SectionFacts ==
  ASSUME IInv, phase = "types", NEW btf, btf = Btf(File), NEW types, types = btf.types,
         NEW n, n = index - 1, NEW m, m = n + 1, NEW e, e = types[m]
  PROVE  AtWork(btf, types, n, m, e)
<1> DEFINE L == Len(types)
           z == Size(types)
<1>1. /\ Len(finished) < Len(inputs) /\ Current.option = "btf" /\ HasBtf(File)
      /\ HeaderOK(btf.header) /\ index \in Nat \ {0} /\ ReadTo(btf, n, rest, room)
      /\ SectionSoFar(graph, finished, types, n)
  BY DEF IInv, TypesInv
<1>2. IsFile(File) /\ Len(inputs) \in Nat /\ Verbose \in BOOLEAN
  BY <1>1, CurrentFacts
<1>3. IsBtf(btf) /\ (BadInput(Current, Verbose) <=> BadBtf(btf, Verbose))
  BY <1>1, <1>2, BadBtfInput DEF File
<1>4. /\ IsSequence(types) /\ L \in Nat /\ DOMAIN types = 1 .. L
      /\ \A i \in DOMAIN types : IsEntry(types[i])
  BY <1>3, SequenceFacts DEF IsBtf
<1>5. /\ n \in 0 .. L /\ rest = SubSeq(types, m, L) /\ room \in Nat
      /\ z[n] + room = btf.header.type_len
  BY <1>1 DEF ReadTo
<1>6. /\ btf.header.type_len + btf.missing = z[L] /\ btf.missing \in Nat
      /\ btf.header.type_len \in Nat
      /\ btf.missing > 0 => L > 0 /\ btf.missing < Bytes(types[L])
  BY <1>3, <1>4 DEF IsBtf, IsHeader, Last
<1> HIDE DEF z
<1>7. /\ z[n] \in Nat /\ z[L] \in Nat
      /\ \A i \in 1 .. L : Bytes(types[i]) \in Nat \ {0}
      /\ n < L => /\ z[m] = z[n] + Bytes(e)
                  /\ z[m] <= z[L]
                  /\ z[n] + Bytes(types[L]) <= z[L]
  BY ZenonT(40), <1>4, <1>5, SizeGrows DEF z
<1>8. n < L => m \in 1 .. L
  BY <1>4, <1>5
<1>9. n < L => Head(rest) = e /\ Tail(rest) = SubSeq(types, m + 1, L)
  BY <1>4, <1>5, <1>8, OneLess
<1> HIDE DEF L
<1>10. room = 0 => n = L /\ btf.missing = 0
  <2> SUFFICES ASSUME room = 0 PROVE n = L /\ btf.missing = 0
    OBVIOUS
  <2>1. CASE n = L
    <3>1. z[n] + 0 = btf.header.type_len /\ z[n] \in Nat
      BY <1>5, <1>7
    <3>2. btf.header.type_len + btf.missing = z[n] /\ btf.missing \in Nat
      BY <1>6, <2>1
    <3>3. btf.missing = 0
      BY <3>1, <3>2
    <3> QED BY <2>1, <3>3
  <2>2. CASE n < L
    <3>1. L \in 1 .. L
      BY <1>4, <1>5, <2>2
    <3>2. Bytes(types[L]) \in Nat \ {0}
      BY <1>7, <3>1
    <3> QED BY <1>5, <1>6, <1>7, <2>2, <3>2
  <2> QED BY <1>4, <1>5, <2>1, <2>2
<1>11. n < L => IsEntry(e) /\ Bytes(e) \in Nat
  BY <1>4, <1>7, <1>8
<1>12. room # 0 => n < L
  <2> SUFFICES ASSUME room # 0, n = L PROVE FALSE
    BY <1>4, <1>5
  <2> QED BY <1>5, <1>6, <1>7
<1>13. n < L /\ Bytes(e) > room => btf.missing > 0
  <2> SUFFICES ASSUME n < L, Bytes(e) > room PROVE btf.missing > 0
    OBVIOUS
  <2>1. z[n] + Bytes(e) <= btf.header.type_len + btf.missing
    BY <1>6, <1>7
  <2> QED BY <1>5, <1>6, <1>7, <1>11, <2>1
<1>14. index = m
  BY <1>1
<1> QED BY <1>1, <1>2, <1>3, <1>4, <1>5, <1>7, <1>9, <1>10, <1>11, <1>12, <1>13, <1>14 DEF z, L, AtWork

\* The next entry's symbol is that of an earlier one.
LEMMA DuplicateSymbols ==
  ASSUME NEW s, NEW base, NEW types, IsSequence(types), NEW n \in Nat, n < Len(types),
         SectionTo(s, base, types, n), IsDuplicateSymbol(s, types[n + 1])
  PROVE  \E i, j \in SymbolEntries(types) : types[i].name = types[j].name /\ i # j
<1>1. Len(types) \in Nat /\ DOMAIN types = 1 .. Len(types)
  BY SequenceFacts
<1>2. types[n + 1].kind \in SymbolKinds /\ types[n + 1].name \in DOMAIN s.symbols
  BY DEF IsDuplicateSymbol
<1>3. PICK i \in SymbolsTo(types, n) : types[i].name = types[n + 1].name
  BY <1>2 DEF SectionTo
<1>4. /\ i \in 1 .. n /\ i \in DOMAIN types /\ types[i].kind \in SymbolKinds
      /\ n + 1 \in DOMAIN types
  BY <1>1 DEF SymbolsTo
<1>5. i \in SymbolEntries(types) /\ n + 1 \in SymbolEntries(types) /\ i # n + 1
  BY <1>2, <1>4 DEF SymbolEntries, SymbolKinds
<1> QED BY <1>3, <1>5

\* The graph starts with all the nodes that there were before.
StartsWithAll(nodes, readers) ==
  \A k \in 1 .. Len(readers) : Builder(readers[k]) /\ StartsWith(nodes, readers[k].nodes)

\* A slot that has a node keeps it.
Stays(old, new) ==
  \A k \in 1 .. Len(old) : old[k] # Null => k <= Len(new) /\ new[k] = old[k]

\* One entry more of the section at work, in the graph.
LEMMA SectionSoFarGoesOn ==
  ASSUME NEW g, NEW readers, NEW types, NEW n \in Nat, NEW m, m = n + 1,
         StartsWithAll(g.nodes, readers), SectionSoFar(g, readers, types, n),
         NEW e, e = types[m], IsEntry(e), e.kind \in Kinds, ~IsDuplicateSymbol(g, e),
         NEW h, h = BuildOneType(g, m, e)
  PROVE  /\ SectionSoFar(h, readers, types, m) /\ Builder(h) /\ StartsWithAll(h.nodes, readers)
         /\ Stays(g.nodes, h.nodes)
<1>1. PICK base \in 0 .. Len(g.nodes) :
        /\ SectionTo(g, base, types, n)
        /\ \A k \in 1 .. Len(readers) : Len(readers[k].nodes) <= base
  BY DEF SectionSoFar
<1>2. SectionTo(h, base, types, m) /\ Grows(g, h, base)
  BY <1>1, SectionGoesOn
<1>3. Builder(g) /\ Builder(h)
  BY <1>1, <1>2 DEF SectionTo, Slots
<1>4. Len(g.nodes) \in Nat /\ Len(h.nodes) \in Nat /\ base \in 0 .. Len(h.nodes)
  BY <1>2, <1>3, SequenceFacts DEF Builder, Grows
<1>5. ASSUME NEW k \in 1 .. Len(readers) PROVE StartsWith(h.nodes, readers[k].nodes)
  <2>1. Len(readers[k].nodes) \in Nat
    BY SequenceFacts DEF Builder, StartsWithAll
  <2>2. Len(readers[k].nodes) <= base
    BY <1>1
  <2>3. \A i \in 1 .. Len(readers[k].nodes) : i \in 1 .. Len(g.nodes) /\ i <= base
    BY <1>4, <2>1, <2>2
  <2>4. \A i \in 1 .. Len(readers[k].nodes) : h.nodes[i] = g.nodes[i]
    BY <1>2, <2>3 DEF Grows
  <2>5. StartsWith(g.nodes, readers[k].nodes)
    BY DEF StartsWithAll
  <2>6. \A i \in 1 .. Len(readers[k].nodes) : h.nodes[i] = readers[k].nodes[i]
    BY <2>4, <2>5 DEF StartsWith
  <2>7. Len(readers[k].nodes) <= Len(h.nodes)
    BY <1>4, <2>1, <2>2
  <2> QED BY <2>6, <2>7 DEF StartsWith
<1>6. Stays(g.nodes, h.nodes)
  BY <1>2, <1>4 DEF Grows, Stays
<1> QED BY <1>1, <1>2, <1>3, <1>4, <1>5, <1>6 DEF SectionSoFar, StartsWithAll

\* Bytes that are read are no longer left.
LEMMA Taken ==
  ASSUME NEW a \in Nat, NEW b \in Nat, NEW c \in Nat, b <= c
  PROVE  c - b \in Nat /\ (a + b) + (c - b) = a + c
OBVIOUS

\* An entry is bad for one of the reasons of the specification, or is built.
LEMMA BuildTypeKeeps == ASSUME IInv, BuildType PROVE IInv'
<1> SUFFICES ASSUME NEW btf, btf = Btf(File), NEW types, types = btf.types,
                    NEW n, n = index - 1, NEW m, m = n + 1, NEW e, e = types[m]
             PROVE  IInv'
  OBVIOUS
<1>1. phase = "types" /\ room # 0 /\ AtWork(btf, types, n, m, e)
  BY SectionFacts DEF BuildType
<1>2. /\ IsBtf(btf) /\ IsSequence(types) /\ Len(types) \in Nat
      /\ Verbose \in BOOLEAN /\ Len(inputs) \in Nat /\ Len(finished) < Len(inputs)
      /\ Current.option = "btf" /\ HasBtf(File) /\ HeaderOK(btf.header)
      /\ BadInput(Current, Verbose) <=> BadBtf(btf, Verbose)
      /\ n \in 0 .. Len(types) /\ index = m /\ ReadTo(btf, n, rest, room)
      /\ SectionSoFar(graph, finished, types, n)
  BY <1>1 DEF AtWork
<1>3. /\ n < Len(types) /\ Head(rest) = e
      /\ Tail(rest) = SubSeq(types, m + 1, Len(types))
      /\ IsEntry(e) /\ Bytes(e) \in Nat
      /\ Size(types)[m] = Size(types)[n] + Bytes(e)
      /\ Bytes(e) > room => btf.missing > 0
  BY <1>1 DEF AtWork
<1>4. /\ room \in Nat /\ Size(types)[n] + room = btf.header.type_len
      /\ \A i \in 1 .. n : ~BadEntry(types[i], btf.terminated)
  BY <1>2 DEF ReadTo
<1>5. IsBad(graph, e, room, Terminated) <=>
        BadEntry(e, btf.terminated) \/ Bytes(e) > room \/ IsDuplicateSymbol(graph, e)
  <2>1. btf.terminated \in BOOLEAN /\ Terminated = btf.terminated
    BY <1>2 DEF IsBtf, Terminated
  <2> QED BY <2>1, BadEntries
<1>6. n \in Nat /\ m \in DOMAIN types
  BY <1>2, <1>3, SequenceFacts
<1>7. CASE IsBad(graph, e, room, Terminated)
  <2>1. BadBtf(btf, Verbose)
    <3>1. CASE BadEntry(e, btf.terminated)
      BY <1>2, <1>6, <3>1, GoodBtf
    <3>2. CASE Bytes(e) > room
      <4>1. btf.missing # 0
        BY <1>2, <1>3, <3>2 DEF IsBtf
      <4> QED BY <1>2, <4>1, GoodBtf
    <3>3. CASE IsDuplicateSymbol(graph, e)
      <4>1. \E i, j \in SymbolEntries(types) : types[i].name = types[j].name /\ i # j
        BY ZenonT(40), <1>2, <1>3, <1>4, <1>6, <3>3, DuplicateSymbols DEF SectionSoFar
      <4> QED BY <1>2, <4>1, GoodBtf
    <3> QED BY <1>5, <1>7, <3>1, <3>2, <3>3
  <2>2. Bad
    BY <1>1, <1>2, <2>1, BadCurrent
  <2>3. Fail
    BY <1>3, <1>7 DEF BuildType
  <2> QED BY <2>2, <2>3, FailKeeps
<1>8. CASE ~IsBad(graph, e, room, Terminated)
  <2> SUFFICES ASSUME NEW h, h = BuildOneType(graph, m, e) PROVE IInv'
    OBVIOUS
  <2>1. /\ graph' = h /\ index' = m + 1 /\ rest' = SubSeq(types, m + 1, Len(types))
        /\ room' = room - Bytes(e)
        /\ UNCHANGED <<program, arguments, next, inputs, finished, phase, exit>>
    BY <1>2, <1>3, <1>8 DEF BuildType, NextIndex
  <2>2. ~BadEntry(e, btf.terminated) /\ ~(Bytes(e) > room) /\ ~IsDuplicateSymbol(graph, e)
    BY <1>5, <1>8
  <2>3. e.kind \in Kinds
    BY <2>2 DEF BadEntry
  <2>4. StartsWithAll(graph.nodes, finished)
    BY DEF IInv, FinishedInv, FinishedAt, GoodInput, StartsWithAll
  <2>5. SectionSoFar(h, finished, types, m) /\ Builder(h) /\ StartsWithAll(h.nodes, finished)
    BY <1>2, <1>4, <1>3, <1>6, <2>2, <2>3, <2>4, SectionSoFarGoesOn
  <2>6. Current' = Current /\ File' = File /\ Btf(File)' = btf
    BY <2>1 DEF Current, File
  <2>7. \A i \in 1 .. m : ~BadEntry(types[i], btf.terminated)
    BY <1>4, <1>6, <2>2
  <2>8. m \in 0 .. Len(types) /\ room' \in Nat /\ Size(types)[m] + room' = btf.header.type_len
    <3>1. Size(types)[n] \in Nat
      BY <1>2, SizeGrows DEF IsBtf
    <3>2. room' = room - Bytes(e) /\ Bytes(e) \in Nat /\ Bytes(e) <= room
      BY <1>3, <1>4, <2>1, <2>2
    <3>3. Size(types)[m] = Size(types)[n] + Bytes(e) /\ Size(types)[n] + room = btf.header.type_len
      BY <1>3, <1>4
    <3>4. room' \in Nat /\ Size(types)[m] + room' = btf.header.type_len
      BY <1>4, <3>1, <3>2, <3>3, Taken
    <3> QED BY <1>2, <1>3, <3>4
  <2>9. TypesInv'
    <3>1. ReadTo(btf, m, rest', room')
      BY <2>1, <2>7, <2>8 DEF ReadTo
    <3>2. index' \in Nat \ {0} /\ index' - 1 = m
      BY <1>6, <2>1
    <3>3. SectionSoFar(graph', finished', types, m)
      BY <2>1, <2>5
    <3> QED BY <1>2, <2>1, <2>6, <3>1, <3>2, <3>3 DEF TypesInv
  <2>10. CallInv'
    BY <2>1 DEF IInv, CallInv
  <2>11. InputsInv'
    BY <1>1, <2>1 DEF IInv, InputsInv, Verbose, BadArguments
  <2>12. FinishedInv'
    BY <2>1, <2>5 DEF IInv, FinishedInv, FinishedAt, StartsWithAll, Verbose
  <2> QED BY <1>1, <2>1, <2>9, <2>10, <2>11, <2>12 DEF IInv, RefusesExactly
<1> QED BY <1>7, <1>8

\* A section whose bytes have been read was good, unless strings lack their end.
LEMMA FinishBtfKeeps == ASSUME IInv, FinishBtf PROVE IInv'
<1> SUFFICES ASSUME NEW btf, btf = Btf(File), NEW types, types = btf.types,
                    NEW n, n = index - 1
             PROVE  IInv'
  OBVIOUS
<1>1. phase = "types" /\ room = 0
  BY DEF FinishBtf
<1>2. AtWork(btf, types, n, n + 1, types[n + 1])
  BY <1>1, SectionFacts
<1>3. /\ IsBtf(btf) /\ IsSequence(types) /\ Len(types) \in Nat
      /\ Verbose \in BOOLEAN /\ Len(inputs) \in Nat /\ Len(finished) < Len(inputs)
      /\ Current.option = "btf" /\ HasBtf(File) /\ HeaderOK(btf.header)
      /\ BadInput(Current, Verbose) <=> BadBtf(btf, Verbose)
      /\ n = Len(types) /\ btf.missing = 0
  BY <1>1, <1>2 DEF AtWork
<1>4. \A i \in 1 .. Len(types) : ~BadEntry(types[i], btf.terminated)
  BY <1>2, <1>3 DEF AtWork, ReadTo
<1>5. PICK base \in 0 .. Len(graph.nodes) :
        /\ SectionTo(graph, base, types, Len(types))
        /\ \A k \in 1 .. Len(finished) : Len(finished[k].nodes) <= base
  BY <1>2, <1>3 DEF AtWork, SectionSoFar
<1>6. DOMAIN types = 1 .. Len(types) /\ Terminated = btf.terminated /\ btf.terminated \in BOOLEAN
  BY <1>3, SequenceFacts DEF Terminated, IsBtf
<1>7. CASE Verbose /\ ~Terminated
  <2>1. BadBtf(btf, Verbose)
    BY <1>3, <1>6, <1>7, GoodBtf
  <2>2. Bad
    BY <1>1, <1>3, <2>1, BadCurrent
  <2>3. Fail
    BY <1>7 DEF FinishBtf
  <2> QED BY <2>2, <2>3, FailKeeps
<1>8. CASE ~(Verbose /\ ~Terminated)
  <2>1. /\ Finish(graph) /\ phase' = "read"
        /\ UNCHANGED <<program, arguments, next, inputs, index, rest, room, exit>>
    BY <1>8 DEF FinishBtf
  <2>2. ~BadBtf(btf, Verbose)
    <3>1. SymbolEntries(types) = SymbolsTo(types, Len(types))
      BY <1>6 DEF SymbolEntries, SymbolsTo, SymbolKinds
    <3>2. \A i, j \in SymbolEntries(types) : types[i].name = types[j].name => i = j
      BY <1>5, <3>1 DEF SectionTo
    <3>3. \A i \in DOMAIN types : ~BadEntry(types[i], btf.terminated)
      BY <1>4, <1>6
    <3>4. Verbose => btf.terminated
      BY <1>6, <1>8
    <3> QED BY <1>3, <3>2, <3>3, <3>4, GoodBtf
  <2>3. /\ SectionAt(graph, types) /\ Builder(graph)
        /\ \A t \in DOMAIN graph.ids : graph.ids[t] > base
    BY <1>3, <1>5, SectionEnds
  <2>4. GoodInput(Current, graph, Verbose)
    <3>1. \A i \in DOMAIN types : types[i].kind \in Kinds
      BY <1>5, <1>6 DEF SectionTo
    <3>2. Btf(Current.file).types = types
      BY DEF File
    <3> QED BY <1>3, <2>2, <2>3, <3>1, <3>2 DEF GoodInput
  <2>5. \A k \in 1 .. Len(finished) :
          StartsWith(graph.nodes, finished[k].nodes) /\ After(graph, finished[k])
    <3> SUFFICES ASSUME NEW k \in 1 .. Len(finished)
                 PROVE  StartsWith(graph.nodes, finished[k].nodes) /\ After(graph, finished[k])
      OBVIOUS
    <3>1. StartsWith(graph.nodes, finished[k].nodes) /\ Builder(finished[k])
      BY DEF IInv, FinishedInv, FinishedAt, GoodInput
    <3>2. Len(finished[k].nodes) \in Nat /\ Len(finished[k].nodes) <= base /\ Len(graph.nodes) \in Nat
      BY <1>5, <2>3, <3>1, SequenceFacts DEF Builder
    <3> QED BY <2>3, <3>1, <3>2 DEF After, Builder
  <2>6. FinishedInv'
    <3>1. FinishedInv
      BY DEF IInv
    <3> QED BY <1>3, <2>1, <2>4, <2>5, <3>1, FinishKeeps
  <2>7. CallInv'
    BY <2>1 DEF IInv, CallInv
  <2>8. InputsInv'
    BY <1>1, <2>1 DEF IInv, InputsInv, Verbose, BadArguments
  <2> QED BY <2>1, <2>6, <2>7, <2>8 DEF IInv, TypesInv, RefusesExactly
<1> QED BY <1>7, <1>8

\* When all inputs have been read, none was bad.
LEMMA EndKeeps == ASSUME IInv, End PROVE IInv'
<1>1. /\ phase = "read" /\ ~Unread /\ phase' = "ended"
      /\ UNCHANGED <<program, arguments, next, inputs, graph, index, rest, room, finished, exit>>
  BY DEF End
<1>2. /\ inputs = arguments /\ (Verbose => ~BadArguments) /\ exit = 0
      /\ IsSequence(finished) /\ IsSequence(arguments) /\ Len(finished) <= Len(inputs)
  BY <1>1 DEF IInv, CallInv, InputsInv, FinishedInv
<1>3. Len(finished) \in Nat /\ Len(arguments) \in Nat /\ DOMAIN arguments = 1 .. Len(arguments)
  BY <1>2, SequenceFacts
<1>4. Len(finished) = Len(arguments)
  BY <1>1, <1>2, <1>3 DEF Unread
<1>5. \A i \in DOMAIN arguments : ~BadInput(arguments[i], Verbose)
  BY <1>2, <1>3, <1>4 DEF IInv, FinishedInv, FinishedAt, GoodInput
<1>6. RefusesExactly'
  BY <1>1, <1>2, <1>5 DEF RefusesExactly, Verbose, BadArguments
<1>7. CallInv'
  BY <1>1 DEF IInv, CallInv
<1>8. InputsInv'
  BY <1>1 DEF IInv, InputsInv
<1>9. FinishedInv'
  BY <1>1 DEF IInv, FinishedInv, FinishedAt, Verbose
<1> QED BY <1>1, <1>6, <1>7, <1>8, <1>9 DEF IInv, TypesInv

\* Nothing happens.
LEMMA StutterKeeps == ASSUME IInv, UNCHANGED vars PROVE IInv'
<1>1. UNCHANGED <<program, arguments, next, inputs, graph, index, rest, room, finished, phase, exit>>
  BY DEF vars
<1>2. CallInv' /\ InputsInv' /\ FinishedInv' /\ RefusesExactly'
  BY <1>1 DEF IInv, CallInv, InputsInv, FinishedInv, FinishedAt, RefusesExactly, Verbose,
              BadArguments
<1>3. TypesInv'
  BY <1>1 DEF IInv, TypesInv, Current, File
<1> QED BY <1>2, <1>3 DEF IInv

\* The invariant is inductive.
LEMMA IInvHolds == Spec => []IInv
<1>1. ASSUME IInv, [Next]_vars PROVE IInv'
  <2>1. CASE Input
    BY <1>1, <2>1, InputKeeps
  <2>2. CASE Usage
    BY <1>1, <2>2, UsageKeeps
  <2>3. CASE ReadInput
    BY <1>1, <2>3, ReadInputKeeps
  <2>4. CASE ReadAbi
    BY <1>1, <2>4, ReadAbiKeeps
  <2>5. CASE ReadElf
    BY <1>1, <2>5, ReadElfKeeps
  <2>6. CASE ReadBtf
    BY <1>1, <2>6, ReadBtfKeeps
  <2>7. CASE BuildType
    BY <1>1, <2>7, BuildTypeKeeps
  <2>8. CASE FinishBtf
    BY <1>1, <2>8, FinishBtfKeeps
  <2>9. CASE End
    BY <1>1, <2>9, EndKeeps
  <2>10. CASE UNCHANGED vars
    BY <1>1, <2>10, StutterKeeps
  <2> QED BY <1>1, <2>1, <2>2, <2>3, <2>4, <2>5, <2>6, <2>7, <2>8, <2>9, <2>10 DEF Next, Done
<1> QED BY <1>1, InitInv, PTL DEF Spec

--------------------------------------------------------------------------------
(***************************************************************************)
(* The results.                                                            *)
(***************************************************************************)

\* Both programs refuse what is bad, in the arguments or in any input, and nothing
\* else: main's result, with the checks of elf_loader.cc and btf_reader.cc.
THEOREM ReadersRefuseExactly == Spec => []RefusesExactly
<1>1. IInv => RefusesExactly
  BY DEF IInv
<1> QED BY <1>1, IInvHolds, PTL

\* The invariant says that the graph has the nodes of all sections read.
LEMMA TypesExact == IInv => BtfTypesExact
<1> SUFFICES ASSUME IInv PROVE BtfTypesExact
  OBVIOUS
<1>1. /\ IsSequence(finished) /\ Builder(graph) /\ \A k \in 1 .. Len(finished) : FinishedAt(k)
  BY DEF IInv, FinishedInv
<1>2. Len(finished) \in Nat /\ DOMAIN finished = 1 .. Len(finished)
  BY <1>1, SequenceFacts
<1>3. ASSUME NEW k \in DOMAIN finished, inputs[k].option = "btf"
      PROVE  SectionAt([finished[k] EXCEPT !.nodes = graph.nodes], Btf(inputs[k].file).types)
  <2> SUFFICES ASSUME NEW s, s = finished[k], NEW types, types = Btf(inputs[k].file).types,
                      NEW nodes, nodes = graph.nodes, NEW u, u = [s EXCEPT !.nodes = nodes]
               PROVE  SectionAt(u, types)
    OBVIOUS
  <2>1. FinishedAt(k)
    BY <1>1, <1>2
  <2>2. /\ Builder(s) /\ SectionAt(s, types) /\ \A i \in DOMAIN types : types[i].kind \in Kinds
        /\ StartsWith(nodes, s.nodes)
    BY <1>3, <2>1 DEF FinishedAt, GoodInput
  <2>3. /\ IsSequence(nodes) /\ Len(s.nodes) <= Len(nodes)
        /\ \A i \in 1 .. Len(s.nodes) : nodes[i] = s.nodes[i]
    BY <1>1, <2>2 DEF Builder, StartsWith
  <2> QED BY <2>2, <2>3, SectionLasts
<1>4. ASSUME NEW k \in DOMAIN finished, NEW l \in DOMAIN finished, l < k
      PROVE  Range(finished[k].ids) \cap Range(finished[l].ids) = {}
  <2>1. FinishedAt(k) /\ FinishedAt(l) /\ l \in 1 .. k - 1
    BY <1>1, <1>2, <1>4
  <2>2. /\ Builder(finished[l]) /\ Builder(finished[k])
        /\ \A t \in DOMAIN finished[k].ids : finished[k].ids[t] > Len(finished[l].nodes)
    BY <2>1 DEF FinishedAt, GoodInput, After
  <2>3. Len(finished[l].nodes) \in Nat /\ Len(finished[k].nodes) \in Nat
    BY <2>2, SequenceFacts DEF Builder
  <2>4. /\ \A t \in DOMAIN finished[l].ids : finished[l].ids[t] \in 1 .. Len(finished[l].nodes)
        /\ \A t \in DOMAIN finished[k].ids : finished[k].ids[t] \in 1 .. Len(finished[k].nodes)
    BY <2>2 DEF Builder
  <2>5. \A slot \in Range(finished[l].ids) : slot \in Nat /\ slot <= Len(finished[l].nodes)
    BY <2>3, <2>4 DEF Range
  <2>6. \A slot \in Range(finished[k].ids) : slot \in Nat /\ slot > Len(finished[l].nodes)
    BY <2>2, <2>3, <2>4 DEF Range
  <2> QED BY <2>3, <2>5, <2>6
<1>5. \A k, l \in DOMAIN finished : k # l => k < l \/ l < k
  BY <1>2
<1> QED BY <1>3, <1>4, <1>5 DEF BtfTypesExact

\* What has been read of a BTF section is in the graph, also after other inputs have
\* been read, and no slot is that of two inputs' types (Structs, in btf_reader.cc).
THEOREM ReadersBtfTypesExact == Spec => []BtfTypesExact
BY TypesExact, IInvHolds, PTL

\* No slot loses its node, or has it set once more.
NodesStay == Stays(graph.nodes, graph'.nodes)

\* The nodes stay when an input has been read.
LEMMA FinishStays ==
  ASSUME NEW g, Builder(g), g.nodes = graph.nodes, Finish(g)
  PROVE  NodesStay
<1> DEFINE node == Node("Symbols", << >>, Range(g.symbols))
<1>1. graph' = Add(g, node)
  BY DEF Finish, BuildSymbols
<1> SUFFICES ASSUME NEW h, h = Add(g, node) PROVE Stays(g.nodes, h.nodes)
  BY <1>1 DEF NodesStay
<1> HIDE DEF node
<1>2. /\ Len(g.nodes) \in Nat /\ Len(h.nodes) = Len(g.nodes) + 1
      /\ \A k \in 1 .. Len(g.nodes) : h.nodes[k] = g.nodes[k]
  BY AddFields
<1> QED BY <1>2 DEF Stays

\* A node that is in the graph stays there, in its slot, when types that are referred to
\* before they are defined get theirs, and when a second input is read: Graph::Set does
\* not replace what there is.
THEOREM ReadersNodesStay == Spec => [][NodesStay]_vars
<1>1. ASSUME IInv, [Next]_vars PROVE NodesStay
  <2>1. Builder(graph) /\ IsSequence(graph.nodes) /\ Len(graph.nodes) \in Nat
    BY <1>1, SequenceFacts DEF IInv, FinishedInv, Builder
  <2>2. Stays(graph.nodes, graph.nodes)
    BY <2>1 DEF Stays
  <2>3. Builder(Structs(graph.nodes)) /\ Structs(graph.nodes).nodes = graph.nodes
    BY <2>1, SectionStarts DEF SectionTo, Slots
  <2>4. CASE UNCHANGED graph
    BY <2>2, <2>4 DEF NodesStay
  <2>5. ASSUME Finish(Structs(graph.nodes)) PROVE NodesStay
    BY <2>3, <2>5, FinishStays
  <2>6. CASE Input \/ Usage \/ ReadInput \/ End \/ Done \/ UNCHANGED vars
    BY <2>4, <2>6 DEF Input, Usage, Fail, ReadInput, End, Done, vars
  <2>7. CASE ReadAbi \/ ReadElf
    BY <2>4, <2>5, <2>7 DEF ReadAbi, ReadElf, Fail
  <2>8. CASE ReadBtf
    <3>1. UNCHANGED graph \/ graph' = Structs(graph.nodes)
      BY <2>8 DEF ReadBtf, Fail
    <3> QED BY <2>2, <2>3, <2>4, <3>1 DEF NodesStay
  <2>9. CASE FinishBtf
    <3>1. UNCHANGED graph \/ Finish(graph)
      BY <2>9 DEF FinishBtf, Fail
    <3> QED BY <2>1, <2>4, <3>1, FinishStays
  <2>10. CASE BuildType
    <3> SUFFICES ASSUME NEW btf, btf = Btf(File), NEW types, types = btf.types,
                        NEW n, n = index - 1, NEW m, m = n + 1, NEW e, e = types[m],
                        NEW h, h = BuildOneType(graph, m, e), graph' = h,
                        ~IsBad(graph, e, room, Terminated)
                 PROVE  Stays(graph.nodes, h.nodes)
      <4>1. AtWork(Btf(File), Btf(File).types, index - 1, (index - 1) + 1,
                   Btf(File).types[(index - 1) + 1])
        BY <1>1, <2>10, SectionFacts DEF BuildType
      <4>2. index = (index - 1) + 1 /\ Head(rest) = Btf(File).types[(index - 1) + 1]
        BY <2>10, <4>1 DEF AtWork, BuildType
      <4> QED BY <2>4, <2>10, <4>2 DEF BuildType, Fail, NodesStay
    <3>1. AtWork(btf, types, n, m, e) /\ room # 0
      BY <1>1, <2>10, SectionFacts DEF BuildType
    <3>2. /\ n \in Nat /\ IsEntry(e) /\ SectionSoFar(graph, finished, types, n)
          /\ e.kind \in Kinds /\ ~IsDuplicateSymbol(graph, e)
      BY <3>1 DEF AtWork, IsBad
    <3>3. StartsWithAll(graph.nodes, finished)
      BY <1>1 DEF IInv, FinishedInv, FinishedAt, GoodInput, StartsWithAll
    <3> QED BY <3>2, <3>3, SectionSoFarGoesOn
  <2> QED BY <1>1, <2>6, <2>7, <2>8, <2>9, <2>10 DEF Next
<1> QED BY <1>1, IInvHolds, PTL DEF Spec

\* The types of the section that have not been read yet have no node.
OpenTypes ==
  phase = "types" =>
    \A t \in DOMAIN graph.ids : t \notin 1 .. index - 1 => ~Is(graph, graph.ids[t])

\* The slot of an entry is still to be set when the entry is reached, however often it
\* has been referred to: the check in Graph::Set that a slot is set once does not fail.
THEOREM ReadersOpenTypes == Spec => []OpenTypes
<1>1. IInv => OpenTypes
  <2> SUFFICES ASSUME IInv, phase = "types", NEW t \in DOMAIN graph.ids, t \notin 1 .. index - 1
               PROVE  ~Is(graph, graph.ids[t])
    BY DEF OpenTypes
  <2>1. SectionSoFar(graph, finished, Btf(File).types, index - 1)
    BY DEF IInv, TypesInv
  <2> SUFFICES ASSUME NEW n, n = index - 1, NEW types, types = Btf(File).types
               PROVE  ~Is(graph, graph.ids[t])
    OBVIOUS
  <2>2. PICK base : SectionTo(graph, base, types, n)
    BY <2>1 DEF SectionSoFar
  <2>3. t \notin Defined(types, n)
    BY DEF Defined
  <2> QED BY <2>2, <2>3 DEF SectionTo, Slots, Is
<1> QED BY <1>1, IInvHolds, PTL
================================================================================
