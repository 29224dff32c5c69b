# STG: a verification project

STG ("symbol-type graph") compares the ABIs of two builds. `stgdiff` reads two
descriptions of an ABI into one graph of types and symbols, compares them from
their symbol tables down, and writes reports of the differences. The program is
sequential and keeps nothing between runs; what makes it hard is that the graph
is cyclic. Equality is decided while parts of a cycle are still open, differences
are recorded before it is known whether they are any, and reports unfold a graph
with cycles into a tree of lines.

This directory holds TLA+ models of the parts that carry that logic, the TLC
configurations that check them on small instances, and machine-checked proofs
about the core. `PROJECT.json` maps every definition to the lines it models, and
lists runs, mutants, hazards, findings and theorems.

## The system

| Part | Source | State | Operations | Hard because | Correct when |
|---|---|---|---|---|---|
| SCC finder | `scc.h` | open nodes, their indices, candidate roots | `Open`, `Close`, `Empty` | a protocol of many interleaved opens and closes; handles are bare indices | it hands out exactly the strongly-connected components, leaves first, and examines nothing twice |
| Comparison | `stg.h` (`Result`, `State`), `stg.cc` (`Compare`, `Removed`, `Added`) | known verdicts, outcomes, provisional differences, the finder | `Compare` | tentative verdicts and edges inside cycles | every verdict is right for the whole graph; outcomes are exactly the differences of unequal comparisons |
| Type graph | `stg.h`, `stg.cc` (`Equals`, `MatchingKey`, `PairUp`, ...) | the graph (read-only) | `Equals` of each kind of node | many asymmetric merges; qualifiers and typedefs | equal means the same but for names of typedefs and orders that do not matter |
| Ordering | `order.h` | two index sequences, a permutation | `Reorder`, `ExtendOrder`, `Permute` | insertion point, in-place cycles | no item lost; one order, independent of the input's |
| Names | `stg.cc` (`Name`, `GetDescription`, `MakeDescription`) | the cache of names | `GetDescription`, `GetResolvedDescription`, `Name::Add`, `Name::Qualify` | recursion on a cyclic graph through a cache; declarators grow on both sides | every finite type has its C declaration, whatever was described before |
| Reporting | `reporting.cc` | what has been met, sections queued, Graphviz ids | `Print`, `FlatPrint`, `VizPrint`, `Report*` | recursion along a cyclic graph, four notions of "seen" | ends; every change has its line; references are true |
| Post-processing | `post_processing.cc` | lines held back | three passes | look-ahead and pending lines | no line lost, repeated or miscounted |
| ABI XML reader | `abigail_reader.cc` | graph slots, type ids, scope name, symbols, aliases, declarations | one handler per element | forward references, duplicates, nesting, aliases known late, several corpora | refuses exactly the defective documents; every id and symbol is what the document says |
| BTF reader | `btf_reader.cc` | graph slots, type ids, void and variadic, symbols | `Process`, one case per kind of entry | ids are places in the section; forward references; 0 has two meanings; skipped entries | refuses exactly the bad sections; every id is what its entry says |
| ELF loader and reader | `elf_loader.cc`, `elf_reader.cc` | none between calls | `GetBtfRawData`, `GetElfSymbols` | one check after another on a file from elsewhere | takes the one section that is meant, or refuses |
| `stginfo` | `stginfo.cc` | the one input | `main` | reads more strictly than `stgdiff` | exit status |
| `stgdiff` | `stgdiff.cc` | flags in force, inputs, outputs, exit status | `main`, `Run` | sticky flags; failing half-way | exit status and outputs are what the command line asks for |

They interact by calls only. `stgdiff` has the readers add nodes to one graph,
starts a comparison of the two roots with a fresh `State`, and passes its
outcomes to reporting; `Compare` and the `Equals` of the nodes call each other;
`Compare` drives the SCC finder; `StructUnion::Equals` and `Enumeration::Equals`
order what they have matched with `Reorder`; the short report is the small one
after post-processing. Errors are exceptions (`Check`, `Die`) that end the
program with exit status 1.

**Not modelled.** The value types and the exception of `error.h`, `id.h` and
`crc.h` have no behaviour of their own: a failing `Check` or `Die` is a guard or a
step where it is called. The fuzz targets and the test driver only call the
readers. libxml2 and libelf are external: a document is its elements, a file its
sections. Verbose logging and the wording of reports are left out, as is what the
timing of `stgdiff` prints.

## Modules

    Reachability     paths and components of a finite graph, by closed sets
    SCC              the finder: Open, Close, Empty as operators
    SCCSpec          abstract: components are handed out, leaves first
    SCCSearch        a depth-first search that uses the finder (scc_test.cc)
    SCCProofs        theorems about SCCSearch
    OrderProofs      theorems about Order
    CompareProofs    theorems about Compare and its outcomes; uses SCCProofs, PositionsProofs
    PositionsProofs  lemmas about Positions
    Positions        sequences of anything; sets of positions of a sequence, in order
    Differences      plans, differences, and what is equal, by reachability
    Compare          Compare over plans; uses SCC; implements SCCSearch
    OrderSpec        abstract: the order Reorder promises
    Order            Reorder, ExtendOrder, Permute, step by step
    Nodes            the nodes of the type graph; qualifiers, typedefs, matching keys
    TypeGraph        the plan of each comparison of two nodes; uses Compare, OrderSpec
    Names            descriptions, step by step, with the cache of names
    NamesSpec        what descriptions are to be: C declarations, from the outside in
    Reporting        plain, flat, small and Graphviz reports of a difference graph
    ReportingProofs  theorems about Reporting
    PostProcess      from the small report to the short one
    PostProcessProofs  theorems about PostProcess; uses PositionsProofs
    GraphBuilder     slots and type ids while a reader builds the graph
    AbigailReader    from a document to a graph
    AbigailSpec      what the reader promises, without an order of reading
    BtfReader        from the entries of a BTF section to a graph, as operators
    ElfLoader        what is found in an ELF file
    Readers          stginfo, and stgdiff as it reads its inputs; uses the two above
    ReadersSpec      which inputs are refused, and what the types of the others are
    ReadersProofs    theorems about Readers; uses PositionsProofs
    StgDiff          the command line and its files
    StgDiffProofs    theorems about StgDiff
    MC*              the instances TLC checks

**SCC, SCCSearch.** `open_`, `is_open_` and `root_index_` are the fields of the
class; indices start at 1, not 0. `dfs` of `scc_test.cc` is the documented use of
the finder: its recursion is a stack of frames (node, handle, next edge), and its
branches are the actions `Descend`, `SkipVisited`, `MeetOpen`, `CloseSCC` and
`CloseNothing`. The test makes a new finder for every top-level call; the model
keeps one, as `Compare` does, which is the stronger claim (`EmptyBetweenSearches`
says that they are the same). `examined` is a history variable. The abstract
`SCCSpec` has only the graph and the components handed out so far.

**Differences, Compare.** What a comparison of two nodes does to its `Result` is a
*plan*: a sequence of node differences, removed or added nodes, and recursive
comparisons. `Compare` runs any plans: one action per item and one each for the
known, open, new, closing and not-closing case; a frame holds the partial
`Result`. `known`, `outcomes`, `provisional` and the finder are `State`.
`returned` is what the top-level caller got. `Differences` says, without
recursion or order, which comparisons are equal: those from which no difference
can be reached. `Search` maps the state onto `SCCSearch` (the nodes are
comparisons, visited is what is known, and an item decided on the spot is an edge
of the comparison to itself, which is met while it is open), so what is proved of
the search holds of `Compare`.

**TypeGraph.** `PlanFor` is steps 3 to 5 of `Compare` and the `Equals` of every kind
of node: qualifiers, typedefs, incomparable types, matching of members, methods and
base classes by key, `PairUp`, declared or defined types, parameters, symbols, which
are compared by name too, although keys have brought them together. A name is a
number and 0 the empty one; what is only compared with its like is an attribute.
`Reorder` is used by what module `Order` shows of it. A run is the one call
`stgdiff` makes: `Compare` of two roots in a fresh state.

`Nodes` has the data of each class of node and what does not need a comparison:
`ResolveQualifier`, `ResolveTypedef`, `MatchingKey`. `TypeGraph` and `Names` share it.

**Names, NamesSpec.** A `Name` is its left and right side, as sequences of tokens,
and the precedence of what was added last. `GetDescription` recurses along the
graph, so its calls are a stack; a frame asks for the descriptions of some nodes in
turn (`Asks`), after collecting qualifiers if it is a qualifier's, and puts them
together (`MakeDescription`). `names` is the cache, kept from one description to the
next, as a report does, and anything may be described in any order. `NamesSpec`
writes declarations the way C's grammar has them, from the outside in, without
precedences to compare or a cache to consult. A description of a type whose
declaration would be endless has the placeholder `#` somewhere; where depends on what
was described first, and the code promises no more.

**Order.** Positions are as in the code, counted from 1. `merged` (history) is the
permutation `Permute` is called with. The invariant `IInv` says what the merge
has kept so far and that following the permutation from the current data gives
the data asked for, although both are being overwritten.

**Reporting.** A line says which comparison is described and how; the recursion is
a stack of frames that gather lines, as the string streams of `FlatPrint` do. For
Graphviz, `drawn` is what is written: nodes, edges and attributes under the ids that
`VizId` gives out. What is reported is any difference graph that has the form
`WellFormed` states; that `Compare` makes only such graphs is what `OutcomesExact`, `HoldersCutCycles` and
`DifferencesExplained` check at the other end.

**PostProcess.** A line is what the regular expressions of the passes tell apart.
The three passes run one after the other; each action is one turn of a loop. What is
processed is any report of the form `IsReport` states, which is what `ReportFlat`
makes of it: a symbol follows the empty line that ends what is said of the one before,
the symbols come before the types, and none of its lines is one that the passes make.

**AbigailReader, AbigailSpec.** A document is the sequence of its elements, each
with the number of the element it is in. `graph` is the slots (`Null` until they
are set) and the `Typing` of the document; `scope` is `scope_name_`; `open` is the
stack of scopes and classes being read. One action per kind of element that is
entered, left or processed; a failing check is a step to outcome "died". An element
may have an attribute that cannot be read, at once (`flaw` "own") or, for symbols,
when the corpus ends ("late"). Printing the key of a duplicate symbol that has a
path ends in outcome "overflowed" (see Findings).
`AbigailSpec` states, from the document alone, which documents are defective and
which node each type id and symbol must have.

**BtfReader, ElfLoader, Readers, ReadersSpec.** `BtfReader` has an operator for each
function of class `Structs`, from a reader to the reader after it; `Readers` runs
them, one action per entry, for `stginfo` or for the two inputs of `stgdiff`, which
share one graph. What matters of an entry's layout is its length: `room` is what is
left of the type section. What libelf finds in a file is its sections.
`CallsAssumption` says what may be read: any headers, tables and sections, where the
entries of a BTF section are those its bytes say, and only the last of them may go on
after the section's end. `ReadersSpec`
says of the arguments and files which are refused (`BadInput`), and of a section
which node each of its ids has in the final graph (`SectionAt`), without an order of
reading. `finished` (history) has the reader of each input as it was left.

**StgDiff.** One action per argument, input read, output written. The comparison has
either verdict; which files cannot be opened is chosen at the start. What the command
line asks for is said of the arguments by their positions: what is in force at one is
what the last switch before it says (`FormatOf`, `InputFormatOf`). `Stdout` is a
standard output that keeps what it was given, a terminal or a pipe; when it is
redirected to a regular file, `-o -` opens `/dev/stdout` and so empties that file each
time, and it is one of the other files of the model. Two paths that lead to one file
are not modelled.

## Runs

| Run | Instance | What it shows |
|---|---|---|
| `scc` | all graphs of 3 nodes, out-degree at most 2, edges in all orders, loops and repeats | components, order, refinement of `SCCSpec`, the inductive invariant `IInv` (with it single examination and valid handles), termination |
| `compare` | 3 comparisons, all plans of at most 2 items each and 4 in all, any sequence of top-level calls | verdicts, outcomes, provisional differences (a conjunct of `IInv`) and what each active call has recorded are exact; what is final stays; `Compare` is a search as in `SCCSearch`; every call ends |
| `order` | all matches of at most 4 items | `Reorder` is exact, keeps both orders where they agree, and ends |
| `type_graph` | pairs of graphs of eight families, 4 nodes a side, with and without the options | equality is sameness up to typedefs; directions mirror; every cycle has a comparison that holds differences; differences are explained |
| `names` | graphs of 3 to 6 nodes: wrappings four deep, all knots of three nodes, structs and members with and without names, every other kind; any sequence of descriptions | descriptions are the C declarations; made names stay; every description ends unless qualifiers or typedefs go round |
| `reporting` | all well-formed difference graphs of a root, 3 comparisons and a removal, at most 3 details below the root | reports end, are complete, their references are true, and the Graphviz output is the difference graph; the inductive invariant `IInv` |
| `abigail` | documents of up to 5 elements: types in all orders with forward references and duplicates, nested and anonymous classes, namespaces, symbols, aliases and declarations, attributes that cannot be read, two corpora | the reader dies exactly on defective documents and otherwise reads what is there |
| `aborts` | the same documents | *violation*: neither dangling type references nor member functions, base classes and namespaces abort |
| `duplicate_symbol` | the same documents | *violation*: a duplicate symbol of a group is not reported |
| `stgdiff` | command lines of 0 to 6 arguments, files broken in all ways | exit status and outputs, and the inductive invariant `IInv` |
| `post_process` | reports of up to 4 symbol sections, or up to 3 member details with a symbol before and a section after | nothing lost, repeated or miscounted |
| `readers` | BTF sections of up to 2 entries of 59 shapes, or 3 of 9, with each entry complete or cut short; headers with one number off; symbol tables of up to 2 entries; files with up to 2 sections; argument lists of up to 2; pairs of files | exactly what is bad is refused; every id and symbol is what its entry says |

The bounds. Three nodes with two edges each have every shape the finder's cases
tell apart: a loop, a cycle closed into its middle, two cycles sharing a node, a
cross edge into a closed component, a repeated edge (`Advanced` and the candidate
roots meet in every combination); the proof covers all other sizes. Three
comparisons are a cycle, a second one inside it and a comparison on the way in or
out. Four matches have permutations with two cycles and conflicting orders. Four
nodes a side are a wrapping three deep, a struct with two members, or a cycle
through three nodes. Three details below the root are a cycle of two holders with
something inside. A name of four levels has every pair of pointer, array, function
and qualifier next to each other, and what may follow such a pair. Three entries are
a reference forward, backward, to itself, over a skipped entry, and past the end.
`MaxDegree`, `MaxItems`, `MaxTotal`, `MaxMatches`,
`MaxDetails` and `limit` are the named bounds; no model has an unbounded counter.

Deadlock is checked in every run: each model has a stuttering step for "done" and
must otherwise be able to go on. This is how a failing `Check`, written as a guard
(`LegalHandle`, missing provisional differences, the `Permute` checks,
`Appropriate`), would show.

**Fairness** is weak fairness of the whole next-state relation and nothing more:
the program is one thread that runs on until it is done. `Compare` is fair within
a call because every step of a call is a step of that relation; the top-level
caller is free to go on calling, so the property is that each call ends. In `Names`
the fairness is of the steps of a description only: nobody has to ask for one.

Every property has a *mutant*: a change of a mapped definition of the kind a bug in
that code would be (a root popped too few, an edge recorded without its
inequality, an insertion point off by one, an alias not resolved, ...), under
which TLC finds the property violated. Mutated operators stand before the ones
they replace and are marked `Mutant`.

## What is proved

`SCCProofs` proves, for every set of nodes and every set of graphs on it
(`GraphsAssumption`: each graph gives each node a sequence of successors):

- `Invariance`: `Spec => []IInv`;
- `TypeCorrect`, `FinderConsistentTheorem`, `HandlesValidTheorem`,
  `ExaminedOnceTheorem`, `ComponentsTheorem`: its conjuncts, among them the
  guarantee of `scc.h`, that exactly the components are handed out, leaves first;
- `EmptyTheorem`: the finder carries no state after a top-level search;
- `Refinement`: the search implements `SCCSpec`.

`ComponentsCorrect` is not inductive: that what `Close` hands out is a component
depends on what the search has seen and what it still has to see. `IInv` adds the
facts it rests on. The candidate roots cut `open_` into segments. (1) Each open
node and the root of its segment reach each other (`SegmentsConnected`); (2) every
edge of an open node leads to a node with an SCC, or to the same or a later
segment, or is still to be followed by its call (`EdgesAccounted`); (3) each
active call reaches the calls inside it (`CallsReach`). When `Close` meets the last
candidate root, no call is left inside, so by (2) the last segment and what is
visited are closed under edges, and by (1) the segment is connected: it is a
component (`LastSegmentIsComponent`). `OpenAgain` merges segments along a cycle
that (3) closes. The proof has a lemma for each action (`StartPreserves`,
`DescendPreserves`, `MeetOpenPreserves`, ...), which share lemmas on entering
a node, advancing an edge and finishing a call. `Reach` is defined by closed sets,
so its properties follow without induction over paths.

`OrderProofs` proves, for every set of inputs in which no two matches share a position
(`OrderAssumption`), of any length:

- `Invariance`: `Spec => []IInv`;
- `ReorderExactTheorem`: `Reorder` returns its matches, each once, in the order
  that `OrderSpec` states;
- `BothOrdersKeptTheorem`: that order is the one of both sequences, unless the
  sequences contradict each other.

Neither is inductive. For the merge, `IInv` adds what the insertion point means
(`MergeSound`): the item before it has the place that is furthest of the common
matches merged so far (`Frontier`, `Anchored`), and all that follows it is of the
first sequence and has a place further on. So the next item of the second
sequence, if it has no position in the first, goes where `Place` puts it
(`InsertPreserves`, from `AnchorsOfNext`); a common one moves the frontier
(`UseConstraintPreserves`) or is at or before it already
(`DropConstraintPreserves`). For the permutation, `Source` says where the item
for each position is while a cycle is open: at the position cut out, for the one that
closes the cycle, and where the permutation says for all others; `Swapped`
keeps that (`FollowCyclePreserves`), and at the end every source is its own position.
`BothOrdersKept` then follows from `OrderSpec` alone (`SecondKept`): two matches in
the wrong order of the second sequence would have anchors in an order that
contradicts the first.

`CompareProofs` proves, for every set of comparisons and all plans of any length:

- `Invariance`: `Spec => [](IInv /\ P!IInv)`, where `P!IInv` is the invariant of the
  search that `Compare` is;
- `VerdictsCorrectTheorem`, `ProvisionalExactTheorem`: what `IInv` says of what
  callers get;
- `VerdictsFinalTheorem`: no verdict and no outcome is changed or dropped;
- `SearchTheorem`: `Spec => ImplementsSearch`.

Every step is one of the search or changes nothing of it (`StepIsSearch`), which
needs only types and the search's invariant; so `SCCProofs` gives that invariant of
every state of `Compare`. A verdict is stored when a component closes, while
the calls outside it are open and the comparisons inside it have been found equal
only on the assumption that their cycles are. `IInv` says what a tentative equality rests
on: if a call has found nothing against equality, then every item done with, in it and
in the calls that returned to it, asked for a comparison that was found equal or is
open (`EqualSoFar`); one that has found something has found a real difference
(`UnequalForGood`); and what a call waits for is its last item (`CallsAwaited`). When the
root's call closes equal, the component with all comparisons known to be equal is a set
that no item leads out of and in which no difference is found, so they are all equal
(`EqualSet`, with `P!LastSegmentIsComponent`). When it closes unequal, the difference
can be reached from the whole component (`EqualReach`).

Of the outcomes it proves, under the same assumptions:

- `RecordsTheorem`: `Spec => []RecordsInv`;
- `OutcomesExactTheorem`: when `Compare` returns to its first caller,
  `outcomes` has exactly the unequal comparisons the call can reach, each with the
  differences its plan makes, in order, and none is missing that a report follows an
  edge to.

`OutcomesExact` speaks of what is left when a call is done, so it says nothing of the
edges recorded on the way to comparisons that were open then. `RecordsInv` does: the
`Result` of each active call is what its plan, up to the items done with
(`ItemsDone`), makes with the verdicts of now (`DiffAfter`), where an edge is recorded
to a comparison that is unequal or still open; what is provisional is so for its whole
plan, and every comparison that a plan asked for is known, or was open when the call
ended (`OpenBefore`). A component that closes unequal has only unequal comparisons in
it, so the edges into it stay right; one that closes equal has its provisional
differences dropped, and no edge is left to it, because every comparison that holds one
would have closed in it. A `Result` is a sequence made by appending for some of the items;
the proof goes by the sets of their positions (`Positions`), whose k-th members are
unique (`NthUnique` in `PositionsProofs`).

`StgDiffProofs` proves, for every set of command lines of any length
(`CommandsAssumption`: they are sequences of what `getopt_long` returns) and every set
of files, whichever of them cannot be opened (`OldAssumption`: what a file held
before is not taken for reports):

- `Invariance`: `Spec => []IInv`;
- `ExitTheorem`, `OutputsTheorem`: exit status and files are what the command line asks
  for.

Both speak of the end, of all arguments at once; the program has seen one after the
other. `IInv` says that what it holds is what the arguments up to there ask for
(`ParsedSoFar`), which one more argument carries on (`FormatNext`, `InputsNext`, ...),
and that nothing is read before the last argument is known to be good, nothing compared
before both inputs are read, and nothing written before that, while each file
holds what the outputs written so far ask for (`DoneSoFar`, `ContentsNext`). So an exit
in the middle leaves the files untouched unless it is an output that failed
(`UsagePreserves`).

`ReportingProofs` proves, for every set of reports to write that are `WellFormed`
(`ReportsAssumption`), of any number of comparisons, each with any number of details:

- `Invariance`: `Spec => []IInv`;
- `PlainReports`: a plain report has all that is met, and what holds differences once
  (`PlainComplete`);
- `PlainReferences`: its references are right when they are made (`ReferencesRight`);
- `FlatReports`: a flat report has its sections, each once, and a small report those
  that are of interest (`SectionsExact`);
- `ReportsHideNothing`: no change met is without a line (`EveryChangeReported`);
- `GraphvizReports`: the Graphviz output is the difference graph (`GraphvizExact`).

All but the references speak of the finished report and of what is met by paths
through the difference graph, whereas a call knows its own place in it and `seen`.
`IInv` has what the lines printed so far owe to each other. In a plain report
(`PlainSoFar`), a flag in `seen` says whether a call for that comparison is active
(`SeenSoFar`); every detail that an active call has passed, and every detail of a
comparison that is described and not active, has its line (`CallsDealt`,
`DescribedDealt`). When no call is left, what has a description is thus closed under
edges, so everything below the root has one. That it is the only one, for what holds
differences, is `DescribedOnce`.

In a flat report (`FlatSoFar`), what is in `seen` has its section behind it, active or
in the queue, in one of these only (`SectionsSoFar`), and a finished one is described
once unless a small report has dropped it (`SectionsOnce`, `SectionsDescribed`). A
small report decides whether to keep the lines of a call when it is over, and only then:
the flag it decides by is true exactly if the call has been through something
interesting (`InterestSoFar`). What such a call leaves to its caller is `Covered`: every
change met without passing through a section has a line, and every section met is queued
(`CallsCovered`, `SectionsCovered`). A call that is dropped leaves nothing, and this is
right because none of what it met was changed; that needs `Interesting`, which is
reachability, to be what a call computes from its details one level at a time
(`InterestUnfold`, `CoveredFrom`, `CoveredWithout`). The cycles are cut by
`WellFormed`: no comparison leads back to itself but through one that holds differences.

In a Graphviz report (`DrawnSoFar`), each comparison has one call only, whatever the
cycles. The numbers given out are 0, 1, 2, ... and what is drawn uses no others
(`NumbersRight`), so a new number cannot meet an old edge. Edges are drawn when the call for
the detail is over, and attributes by a count of their own; what each active call is
done with has been drawn as often as its details say, and all of what other
comparisons have (`DetailsDrawn`, `AttributesSoFar`). Counting is by `Among`, which the
lemmas take one detail at a time (`AmongNext`, `CountAppend`).

`ReadersProofs` proves, for every set of calls that `CallsAssumption` allows, of any
number of arguments, files, sections and entries:

- `IInvHolds`: `Spec => []IInv`;
- `ReadersRefuseExactly`: the programs refuse what is bad and nothing else
  (`RefusesExactly`);
- `ReadersBtfTypesExact`: the graph has for every id of every BTF section read the node
  that its entry says (`BtfTypesExact`);
- `ReadersNodesStay`: no step takes back or replaces the node of a slot (`NodesStay`),
  whichever input it reads;
- `ReadersOpenTypes`: the type of an entry not yet read has a slot without a node, or
  none yet (`OpenTypes`), so the `Check` of `Graph::Set` cannot fail.

`SectionAt` speaks of a whole section and of the graph after the last input. While it
is read, ids come before their entries, slots are allocated at the first mention of an
id, and a second input adds to the graph of the first. `IInv` says of each input that is
finished that it was good and that its section is there (`FinishedInv`). The graph only
grows: it starts with the nodes that were set then (`StartsWith`), and the slots of
an input lie after all that earlier ones have (`After`), so what is said of an
earlier section stays true (`SectionLasts`). Of the section at work it says
what the entries read so far have left (`TypesInv`, with `ReadTo`): they were good;
each id mentioned has a slot of its own after those of earlier inputs, with a node
exactly if its entry has been read and is no `DATASEC` (`Slots`); and that node is what
the entry says (`SectionTo`). An entry adds slots and sets its own (`Grows`, `Extends`), so what earlier
entries say is still realised (`RealisesLasts`). The bytes left are those of the
entries left (`Size`) less those that are missing, so an entry is cut short exactly if it
is the last one and some are: that is how the test of `room` refuses the right sections.
An entry of a struct, an enumeration or a function makes its nodes part by part; these
prefixes (`BuildMembers`, `BuildParameters`) are functions on `0 .. n`, about which
lemmas are proved by induction over the set of the numbers they hold of (`NatSet` in
`PositionsProofs`).

`PostProcessProofs` proves, for every set of reports that `ReportsAssumption` allows, of
any number of lines, and every limit:

- `IInvHolds`: `Spec => []IInv`;
- `PostProcessSymbolsAccounted`: the first two passes lose no symbol and no other line,
  repeat none, and count and group right (`SymbolsAccounted`);
- `PostProcessOffsetsExact`: the third pass makes one summary of each longest run of members
  that moved alike (`OffsetsExact`).

Both compare whole reports, filtered by sets of positions, whereas a pass appends line
after line and holds some back. `IInv` says what has been made of the lines a pass is
done with, and what is held back. In the first pass (`CRCsTo`) nothing has been shown
before the first section, and what is held back is all there was of symbols with CRC
changes only; at the section all of it is put, and nothing follows of its kind. A pass
could also make such a symbol by accident, when a line that stays meets the end of what
was made; that the last line made is the last one read, or empty (`EndsLike`), shows that
it does not, and this is where the form of a report is needed. In the second pass
(`GroupsTo`), what has been made is in groups (`Grouped`: a heading, as many symbols as it
says, a blank), and for each kind the symbols listed under it, and then those held back,
are those of the report so far. In the third pass (`OffsetsTo`), the members held back are
the run of members up to here (`RunTo`) and what has been made is what the property says of
the lines before the run (`Made`); a line goes on with the run exactly if the indentation
and the offset held are its own (`GoesOn`), which is so although these two are kept when a
run is over. At the end of the report nothing is pending, since what is said of a member
is followed by a line (`HeldAtEnd`).

Only model-checked: liveness (`Termination`, `Ends` and `CallsEnd` are beyond the
prover) and everything about `TypeGraph`, `Names` and `AbigailReader`. `TypeGraph`, `Nodes`
and `NamesSpec` have recursive operators, because what they compute is a recursion over a
type graph; the prover does not support these, so nothing is proved in modules that use
them. What counts in a document, and where reading goes on after a skipped element, are
functions recursive over the nested elements (`Within`, `Kept`); every property of
`AbigailSpec` speaks of their values for the document at hand, and what they are for every
document takes an induction over it that is not done here.

## Findings

Both runs that expect a violation show statements of the code's own comments or
messages that the code does not keep.

- `aborts`: `abigail_reader.h` names two things the parser aborts on, and a document
  with both is read, a class with a base class that nothing defines for instance. Line
  60: "Dangling type references will cause an abort". The reader allocates a slot at
  the first mention of an id and never checks that it has been set. Line 50: it "will
  abort on the presence of at least: namespace, base class and member function
  information", and line 44: it "supports C types only". It reads all three
  (`ProcessNamespace`, `ProcessBaseClass`, `ProcessMemberFunction`): the comment is
  older than the code. `Defective`, and with it `DiesExactly`, follows the code: these
  elements are no defects where the code processes them.
- `duplicate_symbol`: `ProcessRoot` refuses a group in which two corpora of one path
  have a symbol of one name with "found duplicate symbol" and the key of the symbol
  (`abigail_reader.cc:775`). Printing a key with a path (`stg.cc:1092`) prints that
  same key first, and so without end: the message is never made.

Worth knowing, though no statement of the repository says otherwise:

- `Compare` collects qualifiers down to the first typedef and never through one, so
  `typedef const int foo` is found different from `const int`, although
  `doc/DIFFS.md:120` has typedefs "resolved and skipped over". The same document
  names this case and accepts such false positives for now. `EqualUpToTypedefs` holds
  of all graphs without qualifiers under a typedef or a qualified typedef of an array
  (`QualifiedTypedef` in `MCTypeGraph` leaves these out).
- BTF has one table of symbols by name: two static functions of one name in a section
  are a duplicate symbol, and the file is refused.
- `stginfo` prints the strings of a BTF section and so refuses one whose last string
  has no end; `stgdiff` reads the same section, if no entry uses that string.
- BTF ids that no entry defines leave slots that are never set, as in `aborts`;
  `SectionAt` says that these are all there are.
- `elf::Read` counts the symbols it has read and returns a root without any.

## Plan

1. All components named above are modelled and checked.
2. `Compare` is proved correct in all that its runs check but liveness.
3. `StgDiff`, `Reporting`, `Readers` and `PostProcess` are proved too, but for liveness.
4. Not proved, and checked on small instances: `TypeGraph`, `Names` and `AbigailReader`,
   for the reasons given above. The next step would be `AbigailReader`, starting from
   what `Within` and `Kept` are element by element.
