---------------------------- MODULE AssembleRules ----------------------------
(***************************************************************************)
(* What assemble reads of a file (src/src/assemble.rs, and the definitions *)
(* of src/src/model/assembly.rs): its product definitions with the         *)
(* instances that belong to each, and its external references.             *)
(*                                                                         *)
(* Records have one more field here: label, the text of the first          *)
(* attribute, "" for none (a name that starts with "#" is no file name and *)
(* counts as none).  An attribute that may be absent is a set of at most   *)
(* one instance name.                                                      *)
(***************************************************************************)
EXTENDS WriterRules

RecordOf(f, n) == f.instances[n].records[1]
Is(f, n, name) == RecordOf(f, n).name = name

(* What attribute i refers to, from 1, and whether it is #id.               *)
Attribute(f, n, i) ==
  LET params == RecordOf(f, n).params
  IN  IF i \in DOMAIN params /\ Len(params[i].refs) = 1 /\ ~params[i].list
      THEN {params[i].refs[1]} ELSE {}

PointsAt(f, n, name, i, id) == Is(f, n, name) /\ Attribute(f, n, i) = {id}

MaxId(f) == Max({0} \cup {f.instances[n].id : n \in Node(f)})

-----------------------------------------------------------------------------
(* Assembly usages, simple ones, with both ends in the file, and an end's    *)
(* node: the parent is attribute 4, the child attribute 5.                  *)
IsUsage(f, n) ==
  /\ RecordOf(f, n).name \in {"NEXT_ASSEMBLY_USAGE_OCCURRENCE",
                              "QUANTIFIED_ASSEMBLY_COMPONENT_USAGE"}
  /\ \A i \in {4, 5} : NodesNamed(f, Attribute(f, n, i)) # {}

End(f, n, i) == CHOOSE m \in NodesNamed(f, Attribute(f, n, i)) : TRUE

(* ProductStructure::definitions, by their nodes: the PRODUCT_DEFINITIONs   *)
(* in file order, then whatever else a usage names, each once.              *)
DefinitionNodes(f) ==
  LET usages == InOrder({n \in Node(f) : IsUsage(f, n)})
      ends == FlattenSeq([i \in DOMAIN usages |-> <<End(f, usages[i], 4), End(f, usages[i], 5)>>])
      all == InOrder({n \in Node(f) : Is(f, n, "PRODUCT_DEFINITION")}) \o ends
  IN  ElementsAt(all, {i \in DOMAIN all : \A j \in 1..i - 1 : all[j] # all[i]})

IsDefinition(f, n) == n \in ToSet(DefinitionNodes(f))

(* A definition nothing uses.                                              *)
IsRoot(f, d) == \A n \in Node(f) : IsUsage(f, n) => End(f, n, 5) # d

(* Product definition types whose attributes are read.                      *)
IsStandard(f, d) ==
  RecordOf(f, d).name \in {"PRODUCT_DEFINITION", "PRODUCT_DEFINITION_WITH_ASSOCIATED_DOCUMENTS"}

(* The formation a definition names, its product, and the product's id.     *)
Formation(f, d) == Attribute(f, d, 3)

ProductNodes(f, d) ==
  IF IsStandard(f, d)
  THEN NodesNamed(f, UNION {Attribute(f, n, 3) : n \in NodesNamed(f, Formation(f, d))})
  ELSE {}

ProductId(f, d) == {RecordOf(f, p).label : p \in ProductNodes(f, d)} \ {""}

(* shape_definitions: the shapes of a definition, and the links to its      *)
(* representations.                                                        *)
ShapeNodes(f, d) ==
  InOrder({n \in ReferencedBy(f, d) :
                PointsAt(f, n, "PRODUCT_DEFINITION_SHAPE", 3, f.instances[d].id)})

ShapeLinkNodes(f, s) ==
  InOrder({n \in ReferencedBy(f, s) :
                PointsAt(f, n, "SHAPE_DEFINITION_REPRESENTATION", 1, f.instances[s].id)})

Ids(f, nodes) == [i \in DOMAIN nodes |-> f.instances[nodes[i]].id]

ShapeLinks(f, d) ==
  LET shapes == ShapeNodes(f, d)
  IN  FlattenSeq([i \in DOMAIN shapes |-> ShapeLinkNodes(f, shapes[i])])

ShapeRepresentations(f, d) ==
  LET links == ShapeLinks(f, d)
  IN  FlattenSeq([i \in DOMAIN links |-> SetToSeq(Attribute(f, links[i], 2))])

First(s) == IF s = << >> THEN {} ELSE {Head(s)}

-----------------------------------------------------------------------------
(* candidates: a file's definitions as the targets of stubs, renamed.       *)
Candidate(f, d, offset) ==
  LET Renamed(ids) == {id + offset : id \in ids}
      shapes == ShapeNodes(f, d)
      links == IF shapes = << >> THEN << >> ELSE ShapeLinkNodes(f, Head(shapes))
  IN  [product |-> ProductId(f, d),
       root |-> IsRoot(f, d),
       target |-> <<Renamed({f.instances[d].id}),
                    Renamed({f.instances[p].id : p \in ProductNodes(f, d)}),
                    Renamed(Formation(f, d)),
                    Renamed(First(Ids(f, shapes))),
                    Renamed(First(Ids(f, links))),
                    Renamed(First(ShapeRepresentations(f, d)))>>]

Candidates(f, offset) ==
  LET nodes == DefinitionNodes(f)
  IN  [i \in DOMAIN nodes |-> Candidate(f, nodes[i], offset)]

(* The instances of a stub, in the same places.                             *)
StubParts(f, d) ==
  <<{f.instances[d].id},
    {f.instances[p].id : p \in ProductNodes(f, d)},
    Formation(f, d),
    ToSet(Ids(f, ShapeNodes(f, d))),
    ToSet(Ids(f, ShapeLinks(f, d))),
    ToSet(ShapeRepresentations(f, d))>>

(* The closure `pair`, for every place in turn: what to rename; a later     *)
(* pair overrides an earlier one.                                           *)
Pairs(parts, target) ==
  LET Paired(i) == IF target[i] = {} THEN {} ELSE parts[i]
      Place(id) == Max({i \in DOMAIN parts : id \in Paired(i)})
  IN  [id \in UNION {Paired(i) : i \in DOMAIN parts} |->
         CHOOSE new \in target[Place(id)] : TRUE]

(* The definition with the wanted product id, or else the first root; none  *)
(* or one.                                                                 *)
Chosen(candidates, wanted) ==
  LET same == {i \in DOMAIN candidates : candidates[i].product = wanted}
      roots == {i \in DOMAIN candidates : candidates[i].root}
  IN  IF same # {} THEN {candidates[Min(same)].target}
      ELSE {candidates[i].target : i \in {j \in roots : \A k \in roots : j <= k}}

-----------------------------------------------------------------------------
(* links: every APPLIED_DOCUMENT_REFERENCE to a DOCUMENT_FILE, per item.    *)

(* What n refers to and nothing else does.                                 *)
OwnParts(f, n) == {m \in References(f, n) : ReferencedBy(f, m) = {n}}

IsReference(f, n) ==
  Is(f, n, "APPLIED_DOCUMENT_REFERENCE") /\ ~f.instances[n].complex

DocumentOf(f, n) == {d \in NodesNamed(f, Attribute(f, n, 1)) : Is(f, d, "DOCUMENT_FILE")}

Identifications(f, document) ==
  {u \in ReferencedBy(f, document) : Is(f, u, "APPLIED_EXTERNAL_IDENTIFICATION_ASSIGNMENT")}

Descriptions(f, document) ==
  {u \in ReferencedBy(f, document) :
     \/ Is(f, u, "DOCUMENT_REPRESENTATION_TYPE")
     \/ Is(f, u, "PROPERTY_DEFINITION") /\ RecordOf(f, u).label = "external definition"}

Roles(f, n) == {u \in ReferencedBy(f, n) : Is(f, u, "ROLE_ASSOCIATION")}

(* The file's name is the last external identification's, or else the       *)
(* document's own.                                                         *)
FileNamed(f, document) ==
  LET named == {u \in Identifications(f, document) : RecordOf(f, u).label # ""}
  IN  RecordOf(f, IF named = {} THEN document ELSE Max(named)).label

(* The nodes of the reference entities.                                     *)
Chain(f, n, document) ==
  {n, document} \cup OwnParts(f, document)
    \cup UNION {{u} \cup (OwnParts(f, u) \ {document}) : u \in Identifications(f, document)}
    \cup UNION {{u} \cup {l \in ReferencedBy(f, u) : Is(f, l, "PROPERTY_DEFINITION_REPRESENTATION")} :
                 u \in Descriptions(f, document)}
    \cup UNION {{u} \cup (OwnParts(f, u) \ {n}) : u \in Roles(f, n)}

LinksFrom(f, n, document) ==
  LET params == RecordOf(f, n).params
      items == IF 3 \in DOMAIN params /\ params[3].list THEN params[3].refs ELSE << >>
  IN  [i \in DOMAIN items |-> [file |-> FileNamed(f, document), stub |-> items[i],
                               chain |-> Chain(f, n, document)]]

Links(f) ==
  LET references == InOrder({n \in Node(f) : IsReference(f, n) /\ DocumentOf(f, n) # {}})
      Of(n) == LinksFrom(f, n, CHOOSE d \in DocumentOf(f, n) : TRUE)
  IN  FlattenSeq([i \in DOMAIN references |-> Of(references[i])])
=============================================================================
