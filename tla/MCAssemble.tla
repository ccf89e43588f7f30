----------------------------- MODULE MCAssemble -----------------------------
(***************************************************************************)
(* Masters and component files whose instance names all start at #1, in    *)
(* every combination on a disk of three names: parts, nested masters,      *)
(* cycles, files that are missing, without definition, or dangling.  And     *)
(* what split --master writes of assemblies of up to four definitions.      *)
(***************************************************************************)
EXTENDS Assemble, Masters

None == [list |-> FALSE, refs |-> << >>]
Ref(id) == [list |-> FALSE, refs |-> <<id>>]
List(ids) == [list |-> TRUE, refs |-> ids]

Inst(id, name, label, params) ==
  [id |-> id, complex |-> FALSE, records |-> <<[name |-> name, label |-> label, params |-> params]>>]

(* A product definition named from b + 1 on: product, formation, definition *)
(* and, if it has one, its shape.                                          *)
Definition(b, product) ==
  <<Inst(b + 2, "PRODUCT_DEFINITION_FORMATION", "", <<None, None, Ref(b + 1)>>),
    Inst(b + 1, "PRODUCT", product, <<None, None>>),
    Inst(b + 3, "PRODUCT_DEFINITION", "", <<None, None, Ref(b + 2)>>)>>
Shape(b, items) ==
  <<Inst(b + 4, "PRODUCT_DEFINITION_SHAPE", "", <<None, None, Ref(b + 3)>>),
    Inst(b + 5, "SHAPE_DEFINITION_REPRESENTATION", "", <<Ref(b + 4), Ref(b + 6)>>),
    Inst(b + 6, "SHAPE_REPRESENTATION", "", <<None, List(items), None>>)>>

(* A stub from b + 1 on, used by the definition at #3, and its reference to *)
(* a file.                                                                 *)
Stub(b, product, file) ==
  Definition(b, product) \o Shape(b, << >>) \o
  <<Inst(b + 7, "NEXT_ASSEMBLY_USAGE_OCCURRENCE", "", <<None, None, None, Ref(3), Ref(b + 3)>>),
    Inst(b + 8, "REPRESENTATION_RELATIONSHIP", "", <<None, None, Ref(b + 6), Ref(6)>>),
    Inst(b + 9, "DOCUMENT_TYPE", "", <<None>>),
    Inst(b + 10, "DOCUMENT_FILE", "other", <<None, None, None, Ref(b + 9)>>),
    Inst(b + 11, "APPLIED_EXTERNAL_IDENTIFICATION_ASSIGNMENT", file, <<None, List(<<b + 10>>)>>),
    Inst(b + 12, "APPLIED_DOCUMENT_REFERENCE", "", <<Ref(b + 10), None, List(<<b + 3>>)>>),
    Inst(b + 13, "PROPERTY_DEFINITION", "external definition", <<None, None, Ref(b + 10)>>),
    Inst(b + 14, "PROPERTY_DEFINITION_REPRESENTATION", "", <<Ref(b + 13), Ref(b + 6)>>)>>

File(instances, external) ==
  [instances |-> instances, external |-> external, anchors |-> << >>]

Part(product) ==
  File(Definition(0, product) \o Shape(0, <<9>>) \o <<Inst(9, "SOLID", "", << >>)>>, << >>)
Bare(product) == File(Definition(0, product), << >>)
NoDefinitionFile == File(<<Inst(1, "PRODUCT", "P", <<None, None>>)>>, << >>)
Dangling == File(<<Inst(1, "PRODUCT", "P", <<Ref(2), None>>)>>, << >>)

Master1(product, p, file) == File(Definition(0, product) \o Shape(0, << >>) \o Stub(6, p, file), << >>)
Master2(product, p, pfile, q, qfile) ==
  File(Definition(0, product) \o Shape(0, << >>) \o Stub(6, p, pfile) \o Stub(20, q, qfile), << >>)

(* A stub whose shape is the one of the file's own definition.               *)
SharedShape ==
  LET apart == Master1("Q", "P", "p")
  IN  [apart EXCEPT !.instances[11].records[1].params = <<Ref(10), Ref(6)>>]

(* A second definition in one file.                                         *)
TwoParts == File(Definition(0, "P") \o Definition(3, "Q"), << >>)

(* The file's own definition refers to the reference entities.              *)
Clinging ==
  File(Definition(0, "A") \o Shape(0, << >>) \o Stub(6, "P", "p")
         \o <<Inst(30, "DOCUMENT_USAGE", "", <<Ref(17)>>)>>, << >>)

(* The reference's item is a product, not a definition.                     *)
Misdirected ==
  File(Definition(0, "A") \o <<Inst(7, "DOCUMENT_FILE", "p", <<None>>),
         Inst(8, "APPLIED_DOCUMENT_REFERENCE", "", <<Ref(7), None, List(<<1>>)>>)>>, << >>)

(* A stub of another type, which is a definition because a usage names it.  *)
Subtyped ==
  LET plain == Master1("A", "P", "p")
  IN  [plain EXCEPT !.instances[9].records[1].name = "PRODUCT_DEFINITION_WITH_ASSOCIATED_DOCUMENTS"]

(* A REFERENCE entry for a name that the file uses.                         *)
WithExternal(f, id, by) ==
  [f EXCEPT !.instances = @ \o <<Inst(by, "EXTERNAL_USE", "", <<Ref(id)>>)>>, !.external = <<id>>]

(* An instance #0, which the parser takes.                                  *)
WithZero(f) == [f EXCEPT !.instances = @ \o <<Inst(0, "SOLID", "", << >>)>>]

(* A definition that nothing but the external identification refers to.      *)
Swallowed ==
  File(Definition(0, "P") \o Definition(6, "Q")
         \o <<Inst(10, "DOCUMENT_FILE", "q", <<None>>),
              Inst(11, "APPLIED_EXTERNAL_IDENTIFICATION_ASSIGNMENT", "q", <<None, List(<<10, 3>>)>>),
              Inst(12, "APPLIED_DOCUMENT_REFERENCE", "", <<Ref(10), None, List(<<9>>)>>)>>, << >>)

Masters ==
  {Part("A"), Master1("A", "P", "p"), Master2("A", "P", "p", "Q", "q"), Clinging, Misdirected, Subtyped,
   Master2("A", "Q", "q", "P", "p"), Master2("A", "P", "p", "P", "p"),
   Master2("A", "Q", "q", "R", "r"),
   WithExternal(Master1("A", "P", "p"), 21, 22), WithExternal(Master1("A", "P", "p"), 30, 22)}

DiskOf(p, q, r) ==
  LET all == ("p" :> p) @@ ("q" :> q) @@ ("r" :> r)
  IN  [name \in {n \in DOMAIN all : all[n].instances # << >>} |-> all[name]]

Missing == File(<< >>, << >>)

PFiles == {Part("P"), Bare("P"), NoDefinitionFile, Dangling, TwoParts, Master1("P", "Q", "q"), Missing,
           WithExternal(Part("P"), 30, 21), WithZero(Part("P")), Swallowed, Master1("R", "P", "q")}
QFiles == {Part("Q"), TwoParts, Master1("Q", "P", "p"), Master1("Q", "Q", "q"),
           Master2("Q", "P", "p", "R", "r"), Master1("Q", "R", "r"), SharedShape}
RFiles == {Part("R"), Master1("R", "P", "p"), Missing}

-----------------------------------------------------------------------------
(* The rules of src/src/model/extract.rs for what these files hold.          *)
Owned(entities, simple, partial) ==
  [entities |-> entities, simple |-> simple, partial |-> partial, shared |-> FALSE, follow |-> {}]
McRules ==
  <<Owned({"PROPERTY_DEFINITION", "PRODUCT_DEFINITION_SHAPE"}, 2, <<"PROPERTY_DEFINITION", 2>>),
    Owned({"PROPERTY_DEFINITION_REPRESENTATION", "SHAPE_DEFINITION_REPRESENTATION"}, 0,
          <<"PROPERTY_DEFINITION_REPRESENTATION", 0>>),
    Owned({"SHAPE_REPRESENTATION_RELATIONSHIP"}, 2, << >>), Owned({"SHAPE_REPRESENTATION_RELATIONSHIP"}, 3, << >>),
    Owned({"NEXT_ASSEMBLY_USAGE_OCCURRENCE"}, 3, <<"PRODUCT_DEFINITION_RELATIONSHIP", 3>>),
    Owned({"CONTEXT_DEPENDENT_SHAPE_REPRESENTATION"}, 1, <<"CONTEXT_DEPENDENT_SHAPE_REPRESENTATION", 1>>),
    Owned({"STYLED_ITEM"}, 2, <<"STYLED_ITEM", 1>>),
    [Owned({"PRODUCT_RELATED_PRODUCT_CATEGORY"}, 2, <<"PRODUCT_RELATED_PRODUCT_CATEGORY", 0>>) EXCEPT !.shared = TRUE],
    [Owned({"PRESENTATION_LAYER_ASSIGNMENT"}, 2, << >>) EXCEPT !.shared = TRUE]>>

(* A part named from 20 d on with a frame, a solid and its style; `items`    *)
(* are further items of its representation.                                *)
WholePart(d, product, solid, items) ==
  Definition(20 * d, product) \o Shape(20 * d, <<20 * d + 7>> \o (IF solid THEN <<20 * d + 8>> ELSE << >>) \o items)
    \o <<Inst(20 * d + 7, "AXIS2_PLACEMENT_3D", "", << >>)>>
    \o IF solid THEN <<Inst(20 * d + 8, "MANIFOLD_SOLID_BREP", "", << >>),
                       Inst(20 * d + 9, "STYLED_ITEM", "", <<None, None, Ref(20 * d + 8)>>)>> ELSE << >>

Placed(u, parent, child) ==
  LET b == 100 + 10 * u
  IN  <<Inst(b, "NEXT_ASSEMBLY_USAGE_OCCURRENCE", "", <<None, None, None, Ref(20 * parent + 3), Ref(20 * child + 3)>>),
        Inst(b + 1, "PRODUCT_DEFINITION_SHAPE", "", <<None, None, Ref(b)>>),
        Inst(b + 2, "CONTEXT_DEPENDENT_SHAPE_REPRESENTATION", "", <<Ref(b + 3), Ref(b + 1)>>),
        [id |-> b + 3, complex |-> TRUE,
         records |-> <<[name |-> "REPRESENTATION_RELATIONSHIP", label |-> "",
                        params |-> <<None, None, Ref(20 * child + 6), Ref(20 * parent + 6)>>],
                       [name |-> "REPRESENTATION_RELATIONSHIP_WITH_TRANSFORMATION", label |-> "", params |-> <<Ref(b + 4)>>]>>],
        Inst(b + 4, "ITEM_DEFINED_TRANSFORMATION", "", <<None, None, Ref(20 * child + 7), Ref(20 * parent + 7)>>)>>

(* A component placed by a mapped item, which the parent's shape lists.      *)
Mapped(u, parent, child) ==
  LET b == 100 + 10 * u
  IN  <<Inst(b, "NEXT_ASSEMBLY_USAGE_OCCURRENCE", "", <<None, None, None, Ref(20 * parent + 3), Ref(20 * child + 3)>>),
        Inst(b + 1, "MAPPED_ITEM", "", <<None, Ref(b + 2), Ref(20 * parent + 7)>>),
        Inst(b + 2, "REPRESENTATION_MAP", "", <<Ref(20 * child + 7), Ref(20 * child + 6)>>)>>

(* A part's geometry in a second representation.                            *)
Spread(d) ==
  <<Inst(20 * d + 11, "SHAPE_REPRESENTATION_RELATIONSHIP", "", <<None, None, Ref(20 * d + 6), Ref(20 * d + 12)>>),
    Inst(20 * d + 12, "ADVANCED_BREP_SHAPE_REPRESENTATION", "", <<None, List(<<20 * d + 13, 20 * d + 7>>), None>>),
    Inst(20 * d + 13, "MANIFOLD_SOLID_BREP", "", << >>)>>

A == WholePart(0, "A", FALSE, << >>)
B == WholePart(1, "B", FALSE, << >>)
P == WholePart(2, "P", TRUE, << >>)
Q == WholePart(3, "Q", TRUE, << >>)
Categories == <<Inst(90, "PRODUCT_RELATED_PRODUCT_CATEGORY", "", <<None, None, List(<<1, 21, 41, 61>>)>>)>>
Layer == <<Inst(91, "PRESENTATION_LAYER_ASSIGNMENT", "", <<None, None, List(<<48, 68>>)>>)>>

(* A part with the shape of another.                                        *)
WithShapeOf(part, d, of) ==
  [i \in DOMAIN part |->
     IF part[i].id = 20 * d + 5
     THEN Inst(20 * d + 5, "SHAPE_DEFINITION_REPRESENTATION", "", <<Ref(20 * d + 4), Ref(20 * of + 6)>>)
     ELSE part[i]]

WholeFiles ==
  {A \o P \o Placed(1, 0, 2), A \o P \o Placed(1, 0, 2) \o Placed(2, 0, 2),
   P \o A \o Placed(1, 0, 2) \o Spread(2),
   WholePart(0, "A", FALSE, <<111>>) \o P \o Mapped(1, 0, 2),
   A \o B \o P \o Q \o Placed(1, 0, 1) \o Placed(2, 1, 2) \o Placed(3, 0, 2) \o Placed(4, 0, 3) \o Categories \o Layer,
   B \o A \o WholePart(2, "P", FALSE, << >>) \o Q \o Placed(1, 1, 0) \o Placed(2, 0, 2) \o Placed(3, 2, 3) \o Categories,
   A \o WholePart(1, "B", TRUE, << >>) \o P \o Placed(1, 0, 1) \o Placed(2, 1, 2) \o Placed(3, 1, 2) \o Spread(1),
   A \o B \o WithShapeOf(P, 2, 1) \o Placed(1, 0, 1) \o Placed(2, 1, 2),
   A \o P \o WholePart(3, "P", TRUE, << >>) \o Placed(1, 0, 2) \o Placed(2, 0, 3)}

(* The output of split --master for a file: a file for each definition, all  *)
(* of which can be written.                                                *)
FileNames == <<"a", "b", "p", "q">>
SplitWorld(whole) ==
  LET nodes == DefinitionNodes(whole)
      names == [d \in ToSet(nodes) |-> FileNames[whole.instances[d].id \div 20 + 1]]
      Output(d) == CHOOSE w \in WrittenDefinition(whole, d, names) : TRUE
      top == CHOOSE d \in ToSet(nodes) : IsRoot(whole, d)
  IN  [master |-> Output(top), split |-> {whole},
       disk |-> [name \in Range(names) |-> Output(CHOOSE d \in ToSet(nodes) : names[d] = name)]]

Splits == {SplitWorld(File(instances, << >>)) : instances \in WholeFiles}

McWorlds ==
  Splits \cup
  {[master |-> m, disk |-> DiskOf(p, q, r), split |-> {}] : m \in Masters, p \in PFiles, q \in QFiles, r \in RFiles}

(* Masters with a REFERENCE entry for a name beyond their own, in use.      *)
McExternal ==
  {[master |-> WithExternal(Master1("A", "P", "p"), id, 21), disk |-> DiskOf(p, q, Missing), split |-> {}] :
     id \in 20..40 \ {21}, p \in PFiles, q \in QFiles}
=============================================================================
