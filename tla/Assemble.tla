------------------------------ MODULE Assemble ------------------------------
(***************************************************************************)
(* assemble (src/src/assemble.rs): the depth-first merge of a master file  *)
(* and every file it refers to into one.  The recursion of resolve and     *)
(* merge is an explicit stack of the files under way, the master first.    *)
(***************************************************************************)
EXTENDS AssembleRules

CONSTANT Worlds        \* [master |-> file, disk |-> name -> file,
                       \* split |-> a set of at most one file that split
                       \* --master wrote the rest from]; a name without a
                       \* file cannot be loaded

ASSUME WorldsAssumption ==
  \A w \in Worlds : /\ IsFile(w.master) /\ Accepted(w.master)
                    /\ IsFiniteSet(DOMAIN w.disk)
                    /\ \A name \in DOMAIN w.disk : IsFile(w.disk[name])

VARIABLES call,        \* the master and the files; they do not change
          stack,       \* the files being resolved
          next,        \* every name written so far is at most this
          merged,      \* file name -> its candidates
          files,       \* the names merged, in the order read
          out,         \* the merged files' instances
          result

vars == <<call, stack, next, merged, files, out, result>>

(* A file under way: its links, how many of them are done, and what they    *)
(* drop and rename.                                                        *)
Frame(name, f, offset) ==
  [name |-> name, file |-> f, offset |-> offset, links |-> Links(f), done |-> 0,
   dropped |-> {}, rename |-> Nothing]

Running == [status |-> "running", file |-> [instances |-> << >>, external |-> << >>, anchors |-> << >>]]
Failed(error) == [Running EXCEPT !.status = error]

Init ==
  /\ call \in Worlds
  /\ stack = <<Frame("", call.master, 0)>>
  /\ next = MaxId(call.master)
  /\ merged = [name \in {} |-> << >>] /\ files = << >> /\ out = << >>
  /\ result = Running

Top == Last(stack)
Link == Top.links[Top.done + 1]
StubNode == {d \in NodesNamed(Top.file, {Link.stub}) : IsDefinition(Top.file, d)}
Active == {stack[i].name : i \in 2..Len(stack)}

Fail(error) ==
  /\ result' = Failed(error)
  /\ UNCHANGED <<call, stack, next, merged, files, out>>

(* A file without external references comes back unchanged.                *)
NothingToDo ==
  /\ result = Running /\ stack[1].links = << >>
  /\ result' = [status |-> "Ok", file |-> call.master]
  /\ UNCHANGED <<call, stack, next, merged, files, out>>

AtALink == result = Running /\ Top.done < Len(Top.links)
NotMerged == AtALink /\ StubNode # {} /\ Link.file \notin DOMAIN merged

StubMissing == AtALink /\ StubNode = {} /\ Fail("not a product definition")

(* Mutant of Cycle: a file under way is taken as merged.                    *)
CycleIgnored ==
  /\ NotMerged /\ Link.file \in Active
  /\ stack' = [stack EXCEPT ![Len(stack)].done = @ + 1]
  /\ UNCHANGED <<call, next, merged, files, out, result>>

Cycle == NotMerged /\ Link.file \in Active /\ Fail("cycle")

(* load, parse and Graph::new.                                              *)
Loadable == {name \in DOMAIN call.disk : Accepted(call.disk[name])}

LoadFails ==
  NotMerged /\ Link.file \notin Active /\ Link.file \notin Loadable /\ Fail("not loaded")

(* Mutant of NextAfter: takes a file's names for dense.                     *)
NextAfterCount(f) == next + Len(f.instances)

NextAfter(f) == next + MaxId(f)

(* merge, up to its call of resolve: the file gets the names after every    *)
(* name used so far.                                                        *)
Load ==
  /\ NotMerged /\ Link.file \notin Active /\ Link.file \in Loadable
  /\ LET f == call.disk[Link.file]
     IN  /\ stack' = Append(stack, Frame(Link.file, f, next))
         /\ next' = NextAfter(f)
  /\ files' = Append(files, Link.file)
  /\ UNCHANGED <<call, merged, out, result>>

(* merge's last part, and the pairing of the stub with its target.          *)
Wanted == UNION {ProductId(Top.file, d) : d \in StubNode}

(* Mutants of Redirected: the reference entities stay; the link is not      *)
(* done.                                                                   *)
RedirectedAlone(frame, target) ==
  LET pairs == Pairs(StubParts(frame.file, CHOOSE d \in StubNode : TRUE), target)
  IN  [frame EXCEPT !.done = @ + 1, !.rename = pairs @@ @,
                    !.dropped = @ \cup NodesNamed(frame.file, DOMAIN pairs)]

RedirectedAgain(frame, target) ==
  [RedirectedAlone(frame, target) EXCEPT !.done = frame.done,
                                         !.dropped = @ \cup Link.chain]

Redirected(frame, target) ==
  LET pairs == Pairs(StubParts(frame.file, CHOOSE d \in StubNode : TRUE), target)
  IN  [frame EXCEPT !.done = @ + 1,
                    !.rename = pairs @@ @,
                    !.dropped = @ \cup Link.chain \cup NodesNamed(frame.file, DOMAIN pairs)]

Redirect ==
  /\ AtALink /\ StubNode # {} /\ Link.file \in DOMAIN merged
  /\ \E target \in Chosen(merged[Link.file], Wanted) :
       stack' = [stack EXCEPT ![Len(stack)] = Redirected(@, target)]
  /\ UNCHANGED <<call, next, merged, files, out, result>>

NoDefinition ==
  /\ AtALink /\ StubNode # {} /\ Link.file \in DOMAIN merged
  /\ Chosen(merged[Link.file], Wanted) = {}
  /\ Fail("no product definition")

(* All links done: the file's remaining instances are checked and written.  *)
AllLinksDone == result = Running /\ stack[1].links # << >> /\ Top.done = Len(Top.links)

Kept == Node(Top.file) \ Top.dropped
Names == AssignedNames(Top.file, Kept, IF Len(stack) = 1 THEN Preserve ELSE Offset(Top.offset))
KeptIsClosed == CheckClosed(Top.file, Names, {}, Top.rename)

TopWritten ==
  LET nodes == InOrder(Kept)
  IN  [i \in DOMAIN nodes |-> WrittenInstance(Top.file, Names, {}, Top.rename, nodes[i])]

NotClosed == AllLinksDone /\ ~KeptIsClosed /\ Fail("UnresolvedReference")

(* Mutant of WriteComponent: the file is not remembered.                    *)
WriteComponentAgain ==
  /\ AllLinksDone /\ KeptIsClosed /\ Len(stack) > 1
  /\ out' = out \o TopWritten
  /\ stack' = Front(stack)
  /\ UNCHANGED <<call, next, merged, files, result>>

WriteComponent ==
  /\ AllLinksDone /\ KeptIsClosed /\ Len(stack) > 1
  /\ out' = out \o TopWritten
  /\ merged' = [name \in DOMAIN merged \cup {Top.name} |->
                  IF name = Top.name THEN Candidates(Top.file, Top.offset) ELSE merged[name]]
  /\ stack' = Front(stack)
  /\ UNCHANGED <<call, next, files, result>>

WriteMaster ==
  /\ AllLinksDone /\ KeptIsClosed /\ Len(stack) = 1
  /\ result' = [status |-> "Ok",
                file |-> [instances |-> TopWritten \o out,
                          external |-> WrittenExternal(Top.file, Names),
                          anchors |-> WrittenAnchors(Top.file, Names)]]
  /\ UNCHANGED <<call, stack, next, merged, files, out>>

(* Once it has returned, nothing is left to do.                             *)
Returned == result # Running /\ UNCHANGED vars

Next ==
  \/ NothingToDo \/ StubMissing \/ Cycle \/ LoadFails \/ Load
  \/ Redirect \/ NoDefinition \/ NotClosed \/ WriteComponent \/ WriteMaster
  \/ Returned

Spec == Init /\ [][Next]_vars

-----------------------------------------------------------------------------
(* The names a loaded file's instances get, written or still to come.       *)
Block(frame) == {frame.offset + frame.file.instances[n].id : n \in Node(frame.file)}
NamesIn(instances) == {instances[i].id : i \in DOMAIN instances}

(* The first name of a block is left out; #0, which the parser takes, would  *)
(* get it.                                                                 *)
NamedFromOne ==
  \A name \in DOMAIN call.disk : \A n \in Node(call.disk[name]) : call.disk[name].instances[n].id > 0

(* No two instances get the same name: what is written and what the files   *)
(* still under way will write keep out of each other's names, and all of    *)
(* them are behind `next`.                                                 *)
NamesApart ==
  NamedFromOne =>
    /\ \A i, j \in DOMAIN stack : i # j => Block(stack[i]) \cap Block(stack[j]) = {}
    /\ \A i \in DOMAIN stack : Block(stack[i]) \cap NamesIn(out) = {}
    /\ \A i, j \in DOMAIN out : out[i].id = out[j].id => i = j
    /\ \A id \in NamesIn(out) \cup UNION {Block(stack[i]) : i \in DOMAIN stack} : id <= next

(* The files the master reaches, and who refers to whom.                    *)
RefersTo(f) == {link.file : link \in ToSet(Links(f))}

(* The least set with the names `from` and whatever the files in it refer to. *)
Reached(from) ==
  LET refers == [name \in DOMAIN call.disk |-> RefersTo(call.disk[name])]
      all == from \cup UNION Range(refers)
      Closed(S) == from \subseteq S /\ \A name \in S \cap DOMAIN refers : refers[name] \subseteq S
  IN  {name \in all : \A S \in SUBSET all : Closed(S) => name \in S}

AllReached == Reached(RefersTo(call.master))

(* A file is merged once, however many masters name it, and none is left    *)
(* out of a result.                                                         *)
MergedOnce ==
  /\ \A i, j \in DOMAIN files : files[i] = files[j] => i = j
  /\ result.status = "Ok" => ToSet(files) = AllReached /\ DOMAIN merged = AllReached

(* Files that refer to each other in a cycle never give a result, and a     *)
(* cycle is only reported where there is one.                               *)
InACycle == \E name \in AllReached \cap DOMAIN call.disk : name \in Reached(RefersTo(call.disk[name]))
CyclesRefused ==
  /\ result.status = "Ok" => ~InACycle
  /\ result.status = "cycle" => InACycle

(* A result holds no reference entities, repeats no name, and refers to     *)
(* nothing it does not hold.                                                *)
SelfContained ==
  result.status = "Ok" => Accepted(result.file) /\ Links(result.file) = << >>

(* What a world defines besides stubs: in its master and in every file      *)
(* reached.                                                                *)
Parts == {call.master} \cup {call.disk[name] : name \in AllReached \cap DOMAIN call.disk}
Stubs(f) == {link.stub : link \in ToSet(Links(f))}
OwnDefinitions(f) ==
  LET stubs == Stubs(f)
  IN  {d \in Node(f) : IsDefinition(f, d) /\ f.instances[d].id \notin stubs}

(* The instances of definitions of a file.                                  *)
PartsOf(f, definitions) == UNION {UNION Range(StubParts(f, d)) : d \in definitions}

(* No stub shares an instance with a definition of its file: `resolve` drops *)
(* a stub's instances, and `candidates` names those of every definition as   *)
(* the file had them.  split --master keeps what a part and the definition   *)
(* that uses it share in one file.                                         *)
StubsApart ==
  \A f \in Parts :
    LET stubs == {d \in NodesNamed(f, Stubs(f)) : IsDefinition(f, d)}
    IN  PartsOf(f, stubs) \cap PartsOf(f, OwnDefinitions(f)) = {}

(* Nor is any of them a reference entity, which `resolve` drops too: what an *)
(* external identification alone refers to goes with it.                   *)
ReferencesApart ==
  \A f \in Parts : \A n \in NodesNamed(f, PartsOf(f, OwnDefinitions(f))) :
    ~Is(f, n, "DOCUMENT_FILE") /\ \A link \in ToSet(Links(f)) : n \notin link.chain

(* Only the master's REFERENCE section is written, so only the master may    *)
(* use names it defines; and names up to the largest of its own, as others  *)
(* may be given to components (PastEveryName).                              *)
ElsewhereFromMaster ==
  /\ \A name \in AllReached \cap DOMAIN call.disk :
       UsedExternal(call.disk[name], Node(call.disk[name])) = {}
  /\ \A id \in UsedExternal(call.master, Node(call.master)) : id <= MaxId(call.master)

(* Every stub's file defines the stub's product, as split --master writes   *)
(* it: not as a stub of its own.                                            *)
Backed ==
  \A f \in Parts : \A link \in ToSet(Links(f)) :
    link.file \in DOMAIN call.disk =>
      LET g == call.disk[link.file]
          wanted == UNION {ProductId(f, d) : d \in NodesNamed(f, {link.stub})}
          same == {d \in Node(g) : IsDefinition(g, d) /\ ProductId(g, d) = wanted}
      IN  same # {} /\ same \subseteq OwnDefinitions(g)

(* The files use names and entities as split --master does.                 *)
Regular == NamedFromOne /\ Backed /\ ReferencesApart /\ ElsewhereFromMaster

SelfContainedIfBacked == result.status = "Ok" /\ Regular /\ StubsApart => SelfContained

(* The product structure comes back: as many definitions of a product as    *)
(* the files define besides stubs, and as many usages of one product in     *)
(* another; a part that two masters refer to is not doubled.                *)
ProductsDefined(f) == LET own == OwnDefinitions(f) IN [d \in own |-> ProductId(f, d)]

ProductsUsed(f) ==
  LET Of(n, i) == UNION {ProductId(f, d) : d \in NodesNamed(f, Attribute(f, n, i))}
  IN  [n \in {m \in Node(f) : IsUsage(f, m)} |-> <<Of(n, 4), Of(n, 5)>>]

(* The bag of the values of functions.                                      *)
Counts(functions) ==
  LET Times(F, x) == Cardinality({n \in DOMAIN F : F[n] = x})
      values == UNION {Range(functions[i]) : i \in DOMAIN functions}
  IN  [x \in values |-> FoldLeft(LAMBDA sum, F : sum + Times(F, x), 0, functions)]

(* And where the files are what split --master wrote of one file, that       *)
(* file's definitions, usages and own geometry come back, each once.        *)
OwnTypes ==
  {"MANIFOLD_SOLID_BREP", "STYLED_ITEM", "CONTEXT_DEPENDENT_SHAPE_REPRESENTATION", "MAPPED_ITEM",
   "ITEM_DEFINED_TRANSFORMATION", "SHAPE_REPRESENTATION_RELATIONSHIP"}
OwnRecords(f) ==
  [n \in {m \in Node(f) : RecordOf(f, m).name \in OwnTypes} |-> RecordOf(f, n).name]

StructureRestored ==
  /\ result.status = "Ok" /\ Regular =>
       LET sources == <<call.master>> \o [i \in DOMAIN files |-> call.disk[files[i]]]
       IN  /\ Counts(<<ProductsDefined(result.file)>>)
                = Counts([i \in DOMAIN sources |-> ProductsDefined(sources[i])])
           /\ Counts(<<ProductsUsed(result.file)>>)
                = Counts([i \in DOMAIN sources |-> ProductsUsed(sources[i])])
  /\ result # Running => \A whole \in call.split :
       /\ result.status = "Ok" /\ (StubsApart => Accepted(result.file))
       /\ Counts(<<ProductsDefined(result.file)>>) = Counts(<<ProductsDefined(whole)>>)
       /\ Counts(<<ProductsUsed(result.file)>>) = Counts(<<ProductsUsed(whole)>>)
       /\ Counts(<<OwnRecords(result.file)>>) = Counts(<<OwnRecords(whole)>>)

(* It always ends, cycles or not: no state but a returned one is without a  *)
(* step, and every step loads a file not loaded before, or is done with a   *)
(* file, or with a link of the file it is at.                               *)
ToLoad == Cardinality(DOMAIN call.disk \ ToSet(files))
LinksLeft == Len(Top.links) - Top.done

Advances ==
  [][result' = Running =>
       \/ ToLoad' < ToLoad
       \/ ToLoad' = ToLoad /\ Len(stack') < Len(stack)
       \/ ToLoad' = ToLoad /\ Len(stack') = Len(stack) /\ LinksLeft' < LinksLeft]_vars

(* docs/ARCHITECTURE.md:265: "`assemble` is the inverse of a master".  The    *)
(* frames of every transformation are items of the two representations it   *)
(* relates, as they were in the file that was split; else Placements        *)
(* refuses the usage.                                                      *)
ItemsOf(f, rep) == UNION {ToSet(p.refs) : p \in {q \in ToSet(RecordOf(f, rep).params) : q.list}}
Related(f, n) == UNION {Attribute(f, n, i) : i \in {3, 4}}
Framed(f) ==
  \A n \in {m \in Node(f) : RecordOf(f, m).name = "REPRESENTATION_RELATIONSHIP"} :
    \A t \in NodesNamed(f, RecordIds(f.instances[n].records[2])) :
      Related(f, t) \subseteq UNION {ItemsOf(f, rep) : rep \in NodesNamed(f, Related(f, n))}

FramesRestored == result.status = "Ok" => \A whole \in call.split : Framed(whole) => Framed(result.file)

(* docs/ARCHITECTURE.md:272-275: component files are written "past every    *)
(* name already used, so nothing but the redirected tokens changes".        *)
PastEveryName ==
  result.status = "Ok" => NamesIn(result.file.instances) \cap ToSet(result.file.external) = {}
=============================================================================
