------------------------------- MODULE MCShape -------------------------------
(***************************************************************************)
(* Files of an assembly #1, a part #2 and a usage #3 of the part, and some  *)
(* with a further part #4: four representations 31..34, any of seven links  *)
(* between them, and extras that are not plain links.  In the last file no  *)
(* product is defined.                                                     *)
(***************************************************************************)
EXTENDS Shape

Rep == 31..34
Instance(id, name, params) == <<id, Simple(name, params)>>
Relation(id, type, a, b) == Instance(id, type, <<Text(""), Text(""), Ref(a), Ref(b)>>)
MapOf(item, rep) ==
  {Instance(item, "MAPPED_ITEM", <<Text(""), Ref(item + 10), Ref(50)>>),
   Instance(item + 10, "REPRESENTATION_MAP", <<Ref(50), Ref(rep)>>)}

LinkFile(l) ==
  CASE l = 1 -> {Relation(41, SRR, 31, 32)}
    [] l = 2 -> {Relation(42, SRR, 33, 32)}
    [] l = 3 -> {Relation(43, SRR, 33, 31)}
    [] l = 4 -> MapOf(54, 32)
    [] l = 5 -> MapOf(55, 31)
    [] l = 6 -> MapOf(56, 33)
    [] l = 7 -> {Relation(47, SRR, 33, 34)}

(* The representation that lists a mapped item.                             *)
Holder == (54 :> 31) @@ (55 :> 32) @@ (56 :> 32) @@ (57 :> 31)

PropertyOf(rep, text, of) ==
  {Instance(71, "PROPERTY_DEFINITION_REPRESENTATION", <<Ref(72), Ref(rep)>>),
   Instance(72, "PROPERTY_DEFINITION", <<Text(text), Text(""), Ref(of)>>)}

Extra(x) ==
  CASE x \in {"none", "second_context", "shape_item"} -> {}
    [] x = "transformed" -> {Relation(71, RRWT, 31, 33)}
    [] x = "of_usage" ->
         {Instance(72, CDSR, <<Ref(71), Ref(73)>>), Relation(71, SRR, 33, 31),
          Instance(73, "PRODUCT_DEFINITION_SHAPE", <<Text(""), Text(""), Ref(3)>>)}
    [] x = "constructive" ->
         {Relation(71, "CONSTRUCTIVE_GEOMETRY_REPRESENTATION_RELATIONSHIP", 31, 32)}
    [] x = "camera" ->
         MapOf(54, 32)
           \cup {<<57, Complex(<<Part("MAPPED_ITEM", <<Ref(64), Ref(50)>>), Part("CAMERA_IMAGE", << >>)>>)>>}
    [] x = "document" ->
         {Instance(71, "APPLIED_DOCUMENT_REFERENCE", <<Ref(73), Text(""), Refs(<<1>>)>>)}
    [] x = "external" -> PropertyOf(32, "external definition", 1)
    [] x = "property" -> PropertyOf(32, "", 1)
    [] x = "complex" ->
         {<<71, Complex(<<Part(RR, <<Text(""), Text(""), Ref(31), Ref(33)>>), Part(SRR, << >>)>>)>>}
    [] x = "elsewhere" -> {Relation(71, SRR, 31, 99)}

RepresentationWith(rep, S, x) ==
  LET mapped == SelectSeq(<<54, 55, 56, 57>>,
                          LAMBDA i : Holder[i] = rep /\ (IF i = 57 THEN x = "camera" ELSE i - 50 \in S \/ (i = 54 /\ x = "camera")))
      shape == IF x = "shape_item" /\ rep = 31 THEN <<32>> ELSE << >>
      context == IF x = "second_context" /\ rep = 33 THEN 92 ELSE 91
  IN  Instance(rep, "SHAPE_REPRESENTATION",
               <<Text(""), Refs(<<rep + 100>> \o shape \o mapped \o <<50>>), Ref(context)>>)

ShapesOf(of, reps) ==
  UNION {LET id == 200 + 20 * of + 2 * (rep - 31)
         IN  {Instance(id, "PRODUCT_DEFINITION_SHAPE", <<Text(""), Text(""), Ref(of)>>),
              Instance(id + 1, "SHAPE_DEFINITION_REPRESENTATION", <<Ref(id), Ref(rep)>>)} : rep \in reps}

Fixed ==
  {Instance(3, "NEXT_ASSEMBLY_USAGE_OCCURRENCE",
            <<Text(""), Text(""), Text(""), Ref(1), Ref(2), Unset>>),
   Instance(50, "AXIS2_PLACEMENT_3D", <<Text("")>>)}
    \cup {Instance(c, "GEOMETRIC_REPRESENTATION_CONTEXT", <<Integer(3)>>) : c \in {91, 92}}
    \cup {Instance(i, IF i = 131 THEN "MANIFOLD_SOLID_BREP" ELSE "GEOMETRIC_CURVE_SET", <<Text("")>>) :
            i \in {131, 132, 133, 134}}

Products == <<1, 2, 4>>

FileOf(S, x, own) ==
  LET pairs == Fixed \cup UNION {LinkFile(l) : l \in S} \cup Extra(x)
                 \cup {RepresentationWith(rep, S, x) : rep \in Rep}
                 \cup UNION {ShapesOf(Products[k], own[k]) : k \in DOMAIN own}
                 \cup {Instance(Products[k], "PRODUCT_DEFINITION", <<Text(""), Text(""), Unset, Unset>>) :
                         k \in DOMAIN own}
  IN  [id \in {p[1] : p \in pairs} |-> (CHOOSE p \in pairs : p[1] = id)[2]]

Owning == {<<{31}, {33}>>, <<{31, 32}, {33}>>, <<{31}, {32, 33}>>, <<{31}, {32}>>, <<{31}, {}>>}
OwningThree == {<<{31}, {31, 32}, {31}>>, <<{31}, {32}, {31}>>, <<{31}, {33}, {32}>>, <<{31}, {31}, {33}>>,
                <<{32}, {31}, {32, 33}>>}
Extras == {"second_context", "transformed", "of_usage", "constructive", "camera", "document",
           "external", "property", "complex", "elsewhere", "shape_item"}
Few == {{}, {1, 2}, {1, 4, 6}, {3, 5}}

McFiles ==
  {FileOf(S, "none", own) : S \in SUBSET (1..7), own \in Owning}
    \cup {FileOf(S, x, own) : S \in Few, x \in Extras, own \in Owning}
    \cup {FileOf(S, "none", own) : S \in SUBSET {1, 2, 4, 6}, own \in OwningThree}
    \cup {[id \in {31} |-> FileOf({}, "none", << >>)[id]]}
=============================================================================
