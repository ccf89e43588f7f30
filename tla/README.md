# stepq in TLA+

Models, model checks and proofs of [stepq](../src/README.md), a library and command line tool that
reads STEP files (ISO 10303-21), takes them apart, and puts them together again. Paths below are
those of the repository; `src/src/` is its Rust code.

The program is sequential. What is hard about it is not threads but data: reference graphs with
cycles and sharing, worklists and recursions that must stop on them, depth and size limits in the
middle of a recursion, names that are handed out at one time and used at another, outputs that are
checked at one time and written at another, and writes that fail half-way.

## The system

| Part | Source | State it keeps | Operations | What makes it correct |
|---|---|---|---|---|
| lexer | `p21/lexer.rs` | position in the bytes | next token | tokens cover the bytes; an error never loops |
| parser | `p21/parser.rs` | stack and expectation of one instance; the index of names | one token at a time | accepts the grammar, refuses at the first wrong token, nesting limit, no repeated name |
| entity graph | `p21/exchange.rs`, `model/graph.rs` | instances in file order, references in both directions, external names | look-ups; none after it is built | both directions agree; dangling references are found, external ones are not dangling |
| extraction | `model/extract.rs` | state per node, queue | extract, extract_excluding | the least closed set; nothing lost without a mark |
| writer | `p21/writer.rs` | names, removal plans, the BufWriter | write_all, write_selection, write_pruned, write_instances | closed or refused; a faithful copy; complete or recognisably cut |
| product structure | `model/assembly.rs` | definitions, usages; memo, ancestry, budget of a walk | children, components, bill_of_materials, bom_tree | totals right, cycles harmless, limits kept and marked |
| assemble | `assemble.rs` | the files under way, the next free name, candidates of merged files | resolve, merge | each file once, names apart, nothing dangling, structure restored |
| split | `bin/stepq.rs` | planned names, the directory | plan all, then write one by one | nothing overwritten unasked, each output its own file, failure leaves a prefix |
| product structure | `model/assembly.rs` (`new`) | definitions, usages, what places each usage | built once per file | each usage finds the one instance that places it, or none |
| shapes | `model/shape.rs` | owners of representations; path, visits of a walk | the index, one walk per definition | complete or says what it left out; an item has one owner |
| placements | `model/placement.rs` | transform per usage; path and stack of the iterator | read each usage, next occurrence | every path once, with the transform of its own usages |
| topology | `topology.rs` | faces, edges, vertices read so far | read one solid | each instance once or a refusal; edge uses follow the boundaries |
| geometry | `geometry.rs` | none | read points, axes, surfaces, curves in a context's units | in range and right-handed, or refused |
| PMI items | `pmi/items.rs` | index of links; aspects reached, routes | resolve and naming | the two directions agree; nothing skipped in silence |
| units | `units.rs` | conversion chain; the walk up from an item | units of a context, of an item | no unit passed over, no holder missed |
| EXPRESS schemas | `express/` | schema; memo of layouts | parse, layouts, check | layouts compose over supertypes; each instance judged alone |
| PMI, props, info, lint, diff, strip | files of these names | none to speak of | one pass each | keys unique (diff), only strings change (strip) |

How they work together: every command parses its file into an `Exchange`, builds a `Graph` on it
(`Graph::new` fails if a reference dangles), and reads a `ProductStructure` from that. `split` calls
`extract` for each definition and gives nodes and pruned nodes to the `Writer`; with `--master` it
writes files that refer to each other, which `assemble` loads recursively, writing every file through
the `Writer` again. The readers of shapes, placements, topology, geometry, PMI items and units go
through the typed lookups of `record.rs`; each answers one question about a file and keeps no state
between questions, but within one it walks, remembers and gives up in its own way. Everything is a
direct call; nothing is shared between threads; files are the only thing that outlives a run.

## The modules

```
Order                sequences and ascending order, without elements of any kind
StepGraph            the parsed file and its reference graph
  ExtractRules       what an instance pulls into an extraction, for any rule table
    Closure          what an extraction promises (abstract)
    Extract          the worklist; implements Closure          -> MCExtract, ExtractProofs
  WriterRules        names, closedness, and what is written
    Writer           check, write, flush, into a failing sink  -> MCWriter, WriterProofs
    AssembleRules    definitions, stubs, references to files
      Assemble       the recursive merge                       -> MCAssemble, AssembleProofs
      Masters        what split --master writes, with ExtractRules and WriterRules; split, then
                     assemble                                  -> MCAssemble
Parser               the pushdown machine for an instance's value, against ParamGrammar
  RemovalPlan        which tokens of a pruned value to drop    -> MCRemovalPlan
ParamGrammar         the grammar, without a machine (abstract)
Products             definitions and usages, and what a bill of materials means
  BomTotals          the flat totals, with memo and ancestry
  BomTree            the tree, with depth, budget, deduplication
    Bom              both on one structure                     -> MCBom, BomProofs
Split                stepq split: plan, refuse, write          -> MCSplit, SplitProofs
Records              typed attributes of instances, containers (record.rs); results or errors
  ProductStructure   ProductStructure::new, from records; links between representations
    Shape            owners and walks                          -> MCShape, ShapeProofs
    Placements       what one usage states, with Geometry; the iterator over occurrences
                                                               -> MCPlacements, PlacementsProofs
  Units              named units, conversions, contexts
    ItemUnits        the walk up from an item to its contexts
    Geometry         vectors and transforms; points, axes, surfaces, curves
  Topology           Solid::read: what may stand where, and what is shared
  PmiItems           usages, relationships, steps; resolve and naming
  SchemaCheck        the layouts a schema implies, and the check of a file, with its memo
      Readers        the readers over one file                 -> MCReaders
SequenceLemmas       induction, ranks, sequences, folds and flattening, for the proof modules
```

### The file (`StepGraph`)

An instance has a name, records, and per attribute the instance names in it in textual order, with a
flag for a list. Strings, numbers and enumerations are left out, since no property tells them apart
(`AssembleRules` adds one label per record, for product ids and file names). `References` and
`ReferencedBy` are the two indices of `Graph`; the code builds each in one pass, and the model defines
one from the other. `Accepted` is what `parse` followed by `Graph::new` lets through.

### Extraction (`ExtractRules`, `Extract`, `Closure`)

| Model | Code |
|---|---|
| `RULES`, `ASSOCIATIONS` | the tables of `extract.rs`; constants, so every statement is about any table |
| `Matches`, `SharedRule`, `IdsOutside`, `FollowedItems` | `matching_rule`, `shared_rule`, `references_outside`, `followed_items` |
| `state`, `queue` | the vector of `State`, the `VecDeque` |
| `TakeSeeds`, `Visit(n)`, `Finish` | the loop over the seeds, one pass of the while loop, the final loop |

The queue is a set and `Visit` takes any member: first-in, first-out is one of the orders covered, and
the result is shown not to depend on it. `Closure` has no queue: its answer is the least set over the
seeds that holds what its members pull in, without the excluded nodes.

### Writer (`WriterRules`, `Writer`)

`AssignedNames` is `assign_names` (Preserve, Dense, Offset; external names after the instances),
`CheckClosed` is `check_closed`, `WrittenInstance` is `write_instance`. `Writer` runs them in the
code's order: `AssignNames`, `Check`, then pieces into a buffer that empties into the sink. A piece is
the header, the extra sections, an instance, the appended text or the end; a piece that is split
between two writes of the BufWriter is covered by the failing sink. `SinkFails` and `DropWriter` are
the standard library's: an error at any piece, and a BufWriter that tries once more when dropped.
Whether the output of a failed write can be told from a whole one is then a question about the last
piece.

### Values (`Parser`, `ParamGrammar`, `RemovalPlan`)

The parser's stack and `Expect` are the state, one token a step. `ParamGrammar` defines the language
by sentences of each length, without a stack. `RemovalPlan` then takes any value that was accepted
and runs `removal_plan` over its tokens; `IsItem`, `InList` and `CommaBefore` look at the tokens just
as the code does, while `StandsInList`, used only in the property, asks the parser.

### Bills of materials (`Products`, `BomTotals`, `BomTree`, `Bom`)

The two recursions have explicit stacks. In `BomTotals` one step is one usage or one return, and
`memo` and `visiting` are the code's; in `BomTree` one step is one component. A structure carries the
list of usages per parent that `ProductStructure::new` builds (`ChildrenByParent`), which both read.
Quantities are natural numbers (they are `f64` in the code; nothing here depends on rounding).
`PathTotal` defines a total by paths, without memo or stack; `Below` is what a definition leads to, and
`IsShallow` says that no path passes the depth limit.

### Assemble (`AssembleRules`, `Assemble`)

`Links` is `links`, with the chain of instances that belong to a reference; `Candidates` is
`candidates`; `Pairs` is the closure `pair`. The recursion of `resolve` and `merge` is a stack of
files: `Load` pushes one (and hands out its names), `WriteComponent` pops one, `Redirect` pairs a stub
with its target when the file it names is merged. Every error return is an action of its own:
`StubMissing`, `Cycle`, `LoadFails`, `NoDefinition`, `NotClosed`.

That a result refers to nothing it does not hold (`SelfContainedIfBacked`) needs files that are used
as `split --master` uses them. The code checks none of this, and returns `Ok` with a reference that
dangles, or a name given twice, when a file breaks it: `check_closed` (writer.rs:256-280) judges each
file by itself, and what the components' parts are called is worked out apart from what of them is
written. The premises, of which TLC refutes the property when any one is dropped:

- `NamedFromOne`: no instance `#0`, whose renamed copy would share its name with the file before.
- `Backed`: a stub's file defines the product itself, not by a stub of its own.
- `StubsApart`: no stub shares an instance with a definition of its own file. `resolve` drops the
  instances of a stub (assemble.rs:127-151), while `candidates` names those of every definition as the
  file had them (202-231), so a file above that refers to such a definition is given a name that nobody
  has written. The run has this file twice, by hand (`SharedShape`) and through `split --master`: an
  assembly holds a subassembly, the subassembly a part, and part and subassembly have one shape
  representation. `split --master` writes that shape into the subassembly's file as its own and as the
  stub's. The usages, definitions and bodies come back all the same (`StructureRestored`).
- `ReferencesApart`: nothing of a definition is a reference entity, or used by one alone. `resolve`
  drops those too (assemble.rs:140-151), with the same effect (`Swallowed`).
- `ElsewhereFromMaster`: no component uses names of its REFERENCE section, and the master only names up
  to its largest instance. The writer accepts such a name in each file, but the result has only the
  master's REFERENCE section (assemble.rs:65-68), so a component's reference dangles (`WithExternal`);
  and above the master's instances a name may be a component's as well, which is the finding of
  `PastEveryName`.

All but `StubsApart` (together `Regular`) are premises of the first part of `StructureRestored` too.

### Split (`Split`)

`Plan` is one pass of the planning loop: `output_name`, and `refuse_existing` for the file and its
bodies' files. `Create` and `Write` are separate, as `File::create` empties a file before the writer
has checked anything; `Fail` may come before either. File names are sequences of segments, so that a
label that looks like another's numbered name or body file can be told apart from one that does not.
What an output holds is taken from the extraction's and the writer's promises: the whole output, or a
cut one.

### Masters (`Masters`)

`MasterSelection` is `master_selection`: the components with the items of their representations (but
placements) and plain shape relationships are left out, the extraction runs without them, and the
stubs are added back with what they refer to. `ExternalReferences` is `external_reference_text`, and
`WrittenFile` the writer's result for a selection. `MCAssemble` writes nine assemblies in this way
and hands the files to `Assemble`: the two halves are tied by the file format alone, as in the program.

### Records and product structure (`Records`, `ProductStructure`)

Here instances are keyed by name and parameters are typed (reference, list, typed, string, real,
enumeration, unset, derived), since these readers tell them apart. An `Option` is a set of at most one
value, a `Result` an outcome, `?` is `Then`. `users` is the graph's second index, built
when a reader asks for it. `Representation`, `ExactParams`, `Partial` are the functions of `record.rs`
of those names; `ProductStructure` adds definitions, usages and the matching of placements to usages,
and the links between representations (`MappedItem`, `LinkFrom`, `Followed`: `Links` of `shape.rs`).

### Shapes (`Shape`)

`Index` builds `owners` once over all definitions, and `Expands` is the rule by which it stops at two
owners. What is pending is a set, and any member may be next; the code's stack is one such order.
Then `Begin`, `VisitItem`, `VisitUser` and `Return` walk one definition after the other, and keep the
path, the set seen, and the count of visits; the reasons for which something is not followed are the
code's. The walks are checked against `ReachedFrom`, which follows links without path, order or limit.

`OneOwner` has two parts, because what a walk follows depends on whose walk it is in one place: a
mapped item that places a component of a definition is skipped in that definition's own walk and
followed in any other (`PlacesComponent`). Along the links that every definition follows
(`ClaimedPlainly`), what another definition reaches is never listed. Along a definition's own links
(`Claimed`) that holds unless three definitions reach one representation in which a component is
placed (`FewShareComponents`). There the rule of two owners may stop too early. An
assembly has the representation 31, its part has 31 and 32, and a third definition has 31; a mapped item
in 31 maps 32, and places the part in the assembly. The assembly owns 31 and does not follow the item;
the part owns 31 and 32; at the third definition 31 has two owners and is not expanded, so its claim to
32 is missed, and the part lists the items of 32 as its own. This file is among the run's (`OwningThree`,
link 4), and TLC shows it when the premise is dropped. The comments on `index` (shape.rs:259-264) and
on `shape` (750-752) have no such exception.

`CompleteIsWhole` compares what `is_complete` promises (shape.rs:34-36: with nothing left unfollowed,
what is listed is the whole shape) with the walk's limits, its refusals, and its set of what it has seen.
It has two premises, since in two situations the code leaves something out without a word:

- An item that is also walked as a representation (`ItemsAreNoShapes`). `visit` and `item` put
  representations and listed items into one set, `seen`, under the same key (shape.rs:926 and 970), so
  whichever comes second is taken for seen. Let the representation 31 list 131 and the representation 32,
  and be related to 32 by a plain relationship: 32 is listed as an item, and then not walked, so that
  what only 32 lists is missing from a shape with an empty `not_followed`. This file is among the run's
  (`shape_item`, link 1), and TLC shows it when the premise is dropped. The premise excludes little more
  than that: an item may have the layout of a representation as long as no link of the shape leads to it.
- A mapped item that leads back to the representation which lists it (`PlacesItself`). The shape would
  place itself without end; the code stops at a relationship that leads back to its path, also where a
  mapped item lies between, and reports a return only if a mapped item closes it.

### Placements (`Placements`)

Reading a usage has all the code's refusals, in its order; the relationship may name the component
first or second, its frames may be in different units, and a mapped item goes another way. The
iterator `Occurrences` has one action per call's loop pass. Coordinates are integers and frames mostly
parallel to the axes, so that transforms are exact; a value beyond `MaxReal` stands for one that is
not finite.

### Topology, geometry, PMI items, units, schemas (`Readers`)

`Readers` puts the readers of one file side by side: the geometry is read of the faces and edges
that the topology names, in the units of a representation; the aspects' items, the units of an item,
and the check against a schema are further questions.

- `Topology`: `Solid::read` as tasks on a stack, in the order of the code's nested loops; faces,
  edges, vertices, oriented edges are looked up before they are read. `EdgeUses`, `Neighbours` and the
  others are what the program then asks of a solid.
- `Geometry`: one operator per kind of entity, with its refusals and conversions.
- `PmiItems`: the walk with its depth limit, the fixed point of the routes' kinds (work in any order:
  the code's is a stack in one direction and the order of a hash map in the other), the search for
  cycles.
- `ItemUnits`: one step of `holders` is one user of one instance on the way; then the contexts must
  agree. `UnitAt` is a function over the chain of conversions, with its limit.
- `SchemaCheck`: the closure over supertypes, its limit, and the redeclarations; then one instance a
  step, with the memo of layouts.

## The runs

| Run | Shows |
|---|---|
| `extract` | `LoopInv` (the inductive invariant the proofs use), `NothingLost`, `ImplementsClosure`, `Terminates` |
| `writer` | `OutputAccepted` (reads back without repeated names or dangling references), `FaithfulCopy` (same graph under new names), `CompleteOrCut` (refused before a byte is written, whole, or recognisably cut) |
| `values` | `AcceptsTheGrammar` (and refuses at the first wrong token), `StaysWellFormed` (after every pass of the loop), `DropsTheUnwritten` |
| `bom` | `WalkedOnce`, `EveryComponentListed`, `TotalsOfAcyclic`, `MarkedIfIncomplete`, `ListingsAgree` (two independent computations, cyclic structures included), `Finishes` |
| `assemble` | `NamesApart`, `MergedOnce`, `CyclesRefused`, `SelfContainedIfBacked`, `StructureRestored` (of hand-made masters, and of what `split --master` writes), `Advances`; no deadlock |
| `split` | `NothingOverwritten`, `ApartIfNoneExtends`, `WrittenInOrder` |
| `shapes` | `CompleteIsWhole`, `OneOwner` |
| `placements` | `OccurrencesComplete`, `CarriesFrame`, `FollowsPath` |
| `readers` | `ReadOnce`, `UsesRunAlong` (topology), `GeometrySound`, `ResolvesAll`, `NothingSkipped`, `NamingAgrees` (PMI items), `NoHolderMissed`, `NoUnitIgnored` (units), `LayoutsCompose`, `ProblemsExact` (schemas) |
| `assemble_external` | violated: components can be written under names already used by REFERENCE entries |
| `master_frames` | violated: after `split --master` and `assemble`, placements relate representations by frames that neither lists |
| `split_unique` | violated: `output_name` can return one name twice |

The last three are disagreements between the code and what its documentation or comments say; the
findings in `PROJECT.json` quote both. Each has a counterpart that holds: `NamesApart`,
`StructureRestored`, `ApartIfNoneExtends`. Two more such conditions show where a promise stops:
`TotalsOfAcyclic` (in a cyclic structure the totals are not those of the doc comment) and
`SelfContainedIfBacked` (a stub that leads to a stub, or shares its shape with a definition beside it,
or a component that refers to names defined elsewhere, gives a result that dangles).

`Extract`'s type invariant is proved (`TypeCorrect`) and part of the inductive invariant; it is not
listed in a run.

### Bounds, and why they are enough

- `extract`: all files of three instances, each a point, a shape (a rule with one place) or a layer (a
  shared rule), referring to none or one of the others and listing any. Three nodes suffice for every
  pair of pull directions to meet on one node, for all cycles of length up to three, and for an
  excluded node between two taken ones. Seven-instance files add followed items, associated planes and
  complex instances. Instance names differ from positions.
- `writer`: three instances whose names are out of order and overlap the dense ones, two external
  names of which one is used only by an anchor, all selections, all prunings of two of them, three
  numberings. `CAPACITY = 2` pieces makes the buffer empty itself in the middle.
- `values`: all token sequences up to `LONGEST = 13`, lists nested up to `MAX_DEPTH = 3` (128 in the
  code). Thirteen tokens hold a list of three names beside another attribute, or complex instances of
  two records, and reach the nesting limit from both sides.
- `bom`: all sets of nine usages over four definitions: diamonds, a pair used twice, cycles of one,
  two and three, a definition that uses itself. `MAX_ASSEMBLY_DEPTH = 3` and `MAX_BOM_NODES = 7`
  (1024 and 1,000,000 in the code) are both exceeded by some structures and not by others.
- `assemble`: a master with one or two stubs and up to three component files, each a part, a nested
  master, a master that leads back, missing, dangling, or without a definition; instance names overlap
  in all files. Two stubs of one file, two masters of one file, and cycles through one and two files
  occur, and so do a stub with the shape of another definition, an instance `#0`, a definition that a
  reference entity alone holds, and names of a REFERENCE section used in masters (below and above the
  largest instance name) and in components. For the round trip, nine whole files of two to four definitions: one part used once, twice
  and through two assemblies, placed by transformation or mapped item, in file orders with the parent
  first or last, a shape spread over two representations, two parts of one product id, a part with the shape of
  its assembly, categories and layers over several parts, and an assembly with geometry of its own.
- `split`: three definitions (an assembly and its two parts, one with two bodies), eight labels, a
  disk that tells cases apart and one that does not, directories with and without conflicting files.

- `shapes`: 941 files of an assembly, a part, in 80 of them a third definition, and four representations
  with any of seven links between them, and instances that are not plain links; in one nothing is
  defined. `MaxShapeDepth = 2`, `MaxShapeVisits = 22` (the code's
  are far larger) are exceeded by some files and not by others.
- `placements`: 412 files of up to four definitions and four usages: every pair of usages one above the
  other, placed in every way the code tells apart, and structures with shared parts, cycles, and paths
  longer than `MaxAssemblyDepth = 2`. `MaxReal = 20` is exceeded by products of two transforms and by
  conversions from centimetres.
- `readers`: a solid of three faces in two shells, with up to two of 43 other instances of its topology
  or of 32 of its geometry (`MinSemiAngle = 1`, `MaxSemiAngle = 80`, `SineScale = 100`: a cone's angle in
  degrees stands for the exact one); shape aspects of every class with up to two of 29 links between
  them or one of nine longer patterns, `MaxPmiDepth = 3`, and routes of up to `Long = 10` steps in the
  definition they are compared with; contexts of one and two length units in every combination of
  declaration, SI name, conversion and base, with chains that end, return, and pass
  `MaxConversionDepth = 2`, and `MaxExponent = 12` for the range of a float; faces in up to three containers
  of every form; and eight hierarchies of entities with up to two of nine redeclarations or derivations,
  against two files of seven instances, `MaxInheritance = 2`.

Deadlock is checked in `assemble`, where a final stutter is the only step of a finished run. The other
models stop when their function has returned, and say `CHECK_DEADLOCK FALSE`.

### Fairness

`Extract` and `Bom` state `WF_vars(Next)`: a function that is running goes on, since nothing else is
scheduled in its thread. No other fairness is used: not for one action over another, and none where
the environment takes part (the sink, the disk). `assemble` ends by `Advances`, a measure that every
step makes smaller, together with the absence of deadlock, and needs no fairness.

## The proofs

Every theorem is about the specification that the runs check, for every value of its constants. What
TLC evaluates on each run, the proofs assume, by name:

| Assumption | Says | Why the code justifies it |
|---|---|---|
| `Extract`: `RequestsInGraph` | seeds and excluded nodes are nodes of the graph | it panics otherwise |
| `Writer`: `CallsAssumption`, `CapacityAssumption` | the file is one the parser let through (no name twice), the positions are its own, the numbering is one of the three | the parser refuses a repeated name; `positions` index the file's instances |
| `Bom`: `RequestsAssumption`, `LimitsAssumption` | usages name definitions of the structure, `children` lists the usages per parent, the root is a definition | `ProductStructure::new` makes them so; `bill_of_materials` panics otherwise |
| `Bom`: `QuantitiesAssumption` | quantities are whole numbers | they stand for `f64`, whose rounding is left out: the order of additions then makes no difference |
| `Split`: `CallsAssumption` | the definitions are a sequence, each with a label, a number of bodies, and parts among the definitions; no two have one instance name | they are vectors and indices into them; the parser refuses a repeated name |
| `Split`: `DigitsAssumption` | numbers are told apart by their digits, and digits are neither a letter nor the extension | decimal notation |
| `Assemble`: `WorldsAssumption` | the master parses, the disk holds finitely many files | a finite input |
| `Shape`: `FilesAssumption`, `ShapeLimits` | the files are finite, the limits are numbers | a finite input |
| `Shape`: `SequencesAssumption` | an instance has at least one record; records, parameters and lists are sequences | the parser's grammar: a complex instance closes after one record or more (parser.rs:220) |
| `Placements`: `AssemblyDepth`, `FilesAssumption` | the depth limit is a number, the file is finite | a finite input |

One theorem has a premise of its own: `NamesApart` holds as long as no file merged has an instance `#0`
(`NamedFromOne`). The lexer accepts that name, and `Numbering::Offset` then writes it under the highest
name already used.

### What is proved, and along which argument

**Extraction** (`ExtractProofs`)

- `TypeCorrect` and `LoopCorrect`. The inductive invariant is `call \in Requests`, `TypeOK` and
  `LoopInv`. Its parts: a node is excluded exactly if the caller says so, and a taken one is shared
  exactly if a shared rule applies (`Classified`); the seeds are taken (`Started`); what is taken and
  no longer queued has had everything it pulls in taken (`VisitedIsClosed`); nothing is taken that some
  closed set over the seeds lacks (`NothingSuperfluous`); the result is what the states say
  (`Reported`). `NothingSuperfluous` quantifies over all closed sets and so avoids an induction over the
  steps that led to a node.
- `NothingLostCorrect` follows from the same invariant: when the queue is empty, a reference of a taken
  node to one not taken can only come from the list of a shared aggregate, or lead to an excluded node.
- `ExtractImplementsClosure`: every step maps to a step or a stutter of `Closure`. `Finish` is the one
  that maps to `Answer`; there `VisitedIsClosed` with an empty queue and `NothingSuperfluous` say that
  the set is the closure.

**Writer** (`WriterProofs`)

- `WriteIsCompleteOrCut`. `WriterInv` says at each point of the call what has been sent: sink and
  buffer together are always the first pieces in order, and the outcome tells where it stopped. The
  end is one piece and the last, so an output that holds it holds everything.
- `WrittenIsTheSelection` and `WrittenIsAccepted`, from the same invariant. `NewNames`: the three
  numberings are injective on what is written, each for its own reason (the old names are, ranks are,
  and adding a constant keeps them so). `CopyIsFaithful`: the output, read back, has the selected
  instances in file order, and the names in each are the new names of what its source referred to, so
  two nodes are linked in the output exactly if they are in the file. `InstancesRead` and
  `ExternalRead` relate the pieces to the file they are read back as.

**Bills of materials** (`BomProofs`)

- `DefinitionsWalkedOnce`. `WalkInv`: every call under way is for another definition, none has a memo,
  and all but one too deep to look at its usages are marked as visited.
- `ComponentsListedOnce`. `CoverInv` adds where a definition that was met is noted: the totals of a call
  hold nothing but what was walked and never the root (`Known`); a call below another is for the
  component it waits at, which it has listed already (`Nested`); whatever has a memo is listed by a call
  under way (`Noted`), since a call that returns hands its lines to its caller; and the components that
  a call is past, like those of a definition with a memo, have been walked (`Seen`). So at the end the
  memo is closed under components, and `BelowLeast` says that it is everything below the root. The
  usage that is ignored because it leads to an ancestor does no harm: the ancestor is under way, and
  listed by a call above. Only at the depth limit may a call return without having looked; `DeepestCall`
  makes the calls under way the path that `IsShallow` excludes.
- `TotalsMultiplyAndAdd`. `Exact` adds the numbers to `CoverInv`: without cycles no usage leads back to
  a call under way, so the totals of a call are, for every definition, the sum over the usages that it
  has passed of the quantity times what lies below the usage's component, with the component it waits
  for added once; and every memo is the sum over all the usages of its definition. `PathTotal` adds over
  the paths that avoid what lies above them, by a recursion on what is left to enter; that it is what
  its equations say (`PathTotalByUses`), and that without cycles it does not depend on what lies above
  (`UnderAlone`), are what makes a memo good for every caller.
- `TreeMarksWhatIsMissing`. `TreeInv`: a node comes after its parent; a level under way is a node of its
  own, and what it lists are the first `done` of its components (`TreeLevels`); and every node is cut
  off, under way or whole (`Held`), or else repeats an earlier one that is (`TreeMarks`). The same must
  be said of every definition in `expanded`, since that set is all that `IsRepeated` looks at. `Entered`
  is the step that makes a node: the node before it on the stack is the only one whose listing changes,
  by its last entry (`ListedGrows`). The invariant says `Held` and not `whole`, as a definition is in
  `expanded` while its own components are still being made: on a cycle with deduplication the node that
  is marked `repeated` is below the one that it repeats, whose listing may yet be cut off.

**Split** (`SplitProofs`)

- `SplitOverwritesNothing`. `SplitInv`: until the first output is created the directory is what it was;
  afterwards, without `--force`, every planned output was missing from it (`AllNew`).
- `SplitKeepsApart`. `NamesInv`: `used` holds the planned names in lower case, each is the plain or the
  numbered name of its definition, and a plain one was free when it was taken. `PlanShape` and
  `TargetShape` say what any output's name looks like. If two were equal, their stems would begin alike
  up to the shorter one, so by `NoneExtends` they would be equal and named by the same rule
  (`StemsEven`), and then the instance name or the body's number tells them apart (`TargetsApart`).
- `SplitWritesInOrder`. `DiskInv`, whatever the labels: while outputs are written, each file holds what
  the last output before `at` that went to it left there, is cut by the one at `at`, or is as it was
  (`HoldingStep`, `LeftElsewhere`). That earlier outputs stay whole, and that a finished split's masters
  lead to their components, follows only where no later output goes to the same file, so these two
  clauses, and only they, have the premise `NoneExtends` of `SplitKeepsApart`; `split_unique` shows an
  output overwritten without it.

**Assemble** (`AssembleProofs`)

- `FilesMergedOnce` and `CyclesNeverAssemble`. `MergeInv`: the files read are those under way and those
  merged, each once and never both (`FilesInv`); the files under way reach each other downwards, and
  what a merged file refers to is merged, but never leads back to it (`ReachInv`). `Reached` is the
  least closed set over where it starts, so none of this counts steps.
- `AssembleAdvances`: the numbers of files not read, of files under way and of links left get smaller
  with every step, in this order.
- `NamesKeepApart`. `NamesInv`: what is written ends at or below `next`, and the blocks reserved for the
  files under way are apart from it and from each other. A block is reserved when a file is read and
  filled only after all that the file refers to.

**Placements** (`PlacementsProofs`)

- `OccurrencesFollowPath`. `FollowInv`: each level of the iterator's stack carries the product of the
  transforms along the path up to it, in the space of the last usage's component.
- `EveryOccurrenceListed`. `OccurrencesInv`: a path of the definition (`Paths`) has been listed, or is
  still ahead of a level that is on its way (`CompleteInv`); the last path listed comes just before
  what the level on top will list next (`OrderInv`). When the stack is empty nothing is ahead. That the
  paths come out in strictly ascending order is also why none comes out twice.

**Shapes** (`ShapeProofs`)

- `OneOwnerOnly`. `ShapeInv` has two halves. Of the index: who owns a representation claims it
  (`SoundInv`), every definition owns where it starts (`StartsInv`), and of each representation either
  all owners have passed it on along their links, or two have (`SpreadInv`). So a definition's claims are
  found by induction along its links, as `Claimed` is a least closed set: where its own link is followed
  by everybody, two other owners have handed it on as well, and the far side has two owners already, or
  this one (`TwoOwnersPassOn`, `OneOwnerPassesOn`). It is not the third owner that is recorded then, but
  the second, which is enough for every walk to refuse. Of the walks (`WalkInv`): a walk is at, and has
  listed from, representations that nobody else owns. `FewShareComponents` is needed for the links that
  not everybody follows, see above.
- `NothingLostInSilence`. `WholeInv` says of a walk that has reported nothing so far: its path goes along
  links from the root, placing on placing (`Trail`); every place that it has seen and that the links
  reach has had its items and users dealt with, or has them waiting in a loop of the path (`Done`); what
  it has seen otherwise it has listed (`Noted`); and what it lists belongs to the shape, once, and is all of
  it for the roots that it is done with (`Listings`). When a root's walk returns, no loop is left, so what
  it has seen is closed under the links, and `ReachedLeast` says that it is all that is reached. A step
  keeps this in one of four ways (`Stays`, `Enters`, `Lists`, or a report, after which the premise is
  false): `VisitTells`, `VisitItemWhole`, `VisitUserWhole`. A depth or count limit never ends in the
  first three. A relationship back to the path is dropped in silence, and `BackOnPath` shows that the walk
  has been in that very place, or else something places itself.

The lemmas on the way are about what the models are built from: ranks and ascending order, `Append`,
`Front`, `EXCEPT` and `FlattenSeq` on sequences (`SequenceLemmas`), the closure `Below`, the totals
after `Add` and `AddBelow`. Induction over data is done without an operator as a parameter: by the least
counterexample in a set of numbers (`LeastNatural`, `IntervalInduction`), and for a function defined by
recursion, or a fold, by showing that a function with these equations exists, as in `BelowRecursion`,
`AddBelowRecursion` and `FlattenRecursion`.

### What stays with TLC

- `Terminates` and `Finishes`: liveness is out of the prover's reach.
- `CarriesFrame` and `GeometrySound`: products of coordinates, which are not linear arithmetic.
- `ListingsAgree`: the sum over the tree's nodes against that of the flat list, two recursions of
  different shape. The flat list's side is proved (`TotalsMultiplyAndAdd`), and of the tree's that it
  leaves out nothing in silence (`TreeMarksWhatIsMissing`).
- `StaysWellFormed` and `DropsTheUnwritten` compare with the parser's state after some tokens, a fold
  over a sequence: that is induction over data.
- `AcceptsTheGrammar`: the sentences of each length, by a recursion over sets.
- `StructureRestored` counts the definitions and usages of files, by folds over bags.
- `SelfContainedIfBacked`: for any file at all it would need further premises, on instances used as what
  they are not (a usage may name any instance as its definition, also one of the reference entities,
  which are dropped). TLC checks it on files that use entities for what they are.
- The properties of the run `readers`: long tables of cases, in which TLC's enumeration says more than
  a proof would.

## Not modelled, and the plan

- Numbers: floats are integers or decimals with an exponent; rounding is left out, and transforms are
  exact only for frames parallel to the axes. Names are natural numbers: that `next += max_id` can pass
  2^64 is listed as a hazard without a property.
- Texts: strings are opaque values. So the string decoder, the lexer's scanning, `strip` (which
  rewrites string tokens), the parsing of EXPRESS text, and the wording of errors and listings are out.
- Tables whose rows are treated alike (PMI entity types, relationship subtypes, units of other
  quantities) are represented by a few of their names.
- The section grammar of a file (header, ANCHOR, REFERENCE, SIGNATURE).
- `info.rs`, `lint.rs`, `pmi.rs`, `props.rs`, output formatting: one pass over a file without state
  worth a model. `diff`'s keys are numbered as split's names are, and would be next.

Of what another process does to the directory during a split nothing is modelled, as the code takes no
measure against it.

Proofs planned: `ItemUnits`' `NoHolderMissed` as the closedness of a
worklist, as in `Extract`; `SchemaCheck`'s `ProblemsExact` for any schema and file (the memo holds what
`layouts` would return); and `RemovalPlan`'s `StaysWellFormed` for any length of value, from an
invariant on brackets and commas.
