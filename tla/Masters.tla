------------------------------- MODULE Masters -------------------------------
(***************************************************************************)
(* What split --master writes of a file (src/src/bin/stepq.rs,             *)
(* write_master): of every definition with components a master file, with a *)
(* stub and an external reference for each component, and of every other    *)
(* definition its extraction.  It is what assemble reads.                   *)
(***************************************************************************)
EXTENDS AssembleRules, ExtractRules

(* ProductStructure::children, without repeats and in the order of the       *)
(* definitions.                                                            *)
Components(f, d) ==
  LET children == {End(f, u, 5) : u \in {n \in Node(f) : IsUsage(f, n) /\ End(f, n, 4) = d}}
  IN  SelectSeq(DefinitionNodes(f), LAMBDA c : c \in children)

-----------------------------------------------------------------------------
(* A representation's items: of its first record of three attributes or      *)
(* more, the references the second lists.                                  *)
ItemNodes(f, rep) ==
  LET records == SelectSeq(f.instances[rep].records, LAMBDA r : Len(r.params) >= 3)
  IN  IF records = << >> \/ ~Head(records).params[2].list THEN {}
      ELSE NodesNamed(f, ToSet(Head(records).params[2].refs))

(* Mutant of LeftOut: the items stay.                                       *)
LeftOutAlone(f, c) == {c}

(* A component is left out with what would bring its geometry back: simple   *)
(* relationships of its representations, and their items but placements.    *)
LeftOut(f, c) ==
  LET Bare(link) == ~f.instances[link].complex /\ Is(f, link, "SHAPE_REPRESENTATION_RELATIONSHIP")
  IN  {c} \cup UNION {{link \in ReferencedBy(f, rep) : Bare(link)}
                        \cup {n \in ItemNodes(f, rep) : ~HasType(f.instances[n], {"AXIS2_PLACEMENT_3D"})} :
                        rep \in NodesNamed(f, ToSet(ShapeRepresentations(f, c)))}

(* All that is reached from a set by steps, each node looked at once.        *)
Reaching(f, from, Step(_)) ==
  LET Wave[k \in 0..Len(f.instances)] ==
        IF k = 0 THEN [all |-> from, last |-> from]
        ELSE LET before == Wave[k - 1]
                 new == UNION {Step(n) : n \in before.last} \ before.all
             IN  [all |-> before.all \cup new, last |-> new]
  IN  Wave[Len(f.instances)].all

(* extract_excluding: the least closed set over d.                          *)
Extracted(f, d, excluded) == Reaching(f, {d} \ excluded, LAMBDA n : Pulls(f, n) \ excluded)

(* A stub: the definition with its shapes and the links to representations,  *)
(* and what they refer to.  What the extraction has taken is not looked at.  *)
StubSeeds(f, c) ==
  {c} \cup ToSet(ShapeNodes(f, c)) \cup ToSet(ShapeLinks(f, c))

(* master_selection. *)
MasterSelection(f, d) ==
  LET components == ToSet(Components(f, d))
      excluded == UNION {LeftOut(f, c) : c \in components}
      base == Extracted(f, d, excluded)
      seeds == UNION {StubSeeds(f, c) : c \in components} \ base
      nodes == base \cup Reaching(f, seeds, LAMBDA n : References(f, n) \ (excluded \cup base))
      cut == {n \in nodes : ~References(f, n) \subseteq nodes}
  IN  [nodes |-> nodes, pruned |-> ToPrune(f, base, excluded) \cup cut]

-----------------------------------------------------------------------------
(* external_reference_text: the reference entities of one component, named   *)
(* from id + 1 on; two more if the component has a shape.                   *)
Plain == [list |-> FALSE, refs |-> << >>]
To(id) == [list |-> FALSE, refs |-> <<id>>]
ToAll(ids) == [list |-> TRUE, refs |-> ids]
Made(id, name, label, params) ==
  [id |-> id, complex |-> FALSE, records |-> <<[name |-> name, label |-> label, params |-> params]>>]

ReferenceEntities(id, file, child, shapes) ==
  <<Made(id + 1, "DOCUMENT_TYPE", "geometry", <<Plain>>),
    Made(id + 2, "DOCUMENT_FILE", file, <<Plain, Plain, Plain, To(id + 1), Plain, Plain>>),
    Made(id + 3, "DOCUMENT_REPRESENTATION_TYPE", "digital", <<Plain, To(id + 2)>>),
    Made(id + 4, "IDENTIFICATION_ROLE", "external document id and location", <<Plain, Plain>>),
    Made(id + 5, "EXTERNAL_SOURCE", "", <<Plain>>),
    Made(id + 6, "APPLIED_EXTERNAL_IDENTIFICATION_ASSIGNMENT", file,
         <<Plain, To(id + 4), To(id + 5), ToAll(<<id + 2>>)>>),
    Made(id + 7, "APPLIED_DOCUMENT_REFERENCE", "", <<To(id + 2), Plain, ToAll(<<child>>)>>),
    Made(id + 8, "OBJECT_ROLE", "mandatory", <<Plain, Plain>>),
    Made(id + 9, "ROLE_ASSOCIATION", "", <<To(id + 8), To(id + 7)>>)>>
    \o IF shapes = << >> THEN << >>
       ELSE <<Made(id + 10, "PROPERTY_DEFINITION", "external definition", <<Plain, Plain, To(id + 2)>>),
              Made(id + 11, "PROPERTY_DEFINITION_REPRESENTATION", "", <<To(id + 10), To(Head(shapes))>>)>>

(* files: the file planned for each definition.                             *)
ExternalReferences(f, d, files) ==
  FoldLeft(LAMBDA made, c : made \o ReferenceEntities(MaxId(f) + Len(made), files[c], f.instances[c].id,
                                                      ShapeRepresentations(f, c)),
           << >>, Components(f, d))

-----------------------------------------------------------------------------
(* Writer::write_pruned, with appended text: what it writes if the selection *)
(* is closed.                                                              *)
WrittenFile(f, selection, numbering, appended) ==
  LET names == AssignedNames(f, selection.nodes, numbering)
      nodes == InOrder(selection.nodes)
      Written(n) == WrittenInstance(f, names, selection.pruned, Nothing, n)
  IN  IF ~CheckClosed(f, names, selection.pruned, Nothing) THEN {}
      ELSE {[instances |-> [i \in DOMAIN nodes |-> Written(nodes[i])] \o appended,
             external |-> WrittenExternal(f, names), anchors |-> WrittenAnchors(f, names)]}

(* write_master, and what split writes of a definition without components.   *)
WrittenDefinition(f, d, files) ==
  LET whole == Extracted(f, d, {})
  IN  IF Components(f, d) # << >>
      THEN WrittenFile(f, MasterSelection(f, d), Preserve, ExternalReferences(f, d, files))
      ELSE WrittenFile(f, [nodes |-> whole, pruned |-> ToPrune(f, whole, {})], Dense, << >>)
=============================================================================
