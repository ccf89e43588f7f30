------------------------------ MODULE MCReaders ------------------------------
(***************************************************************************)
(* One solid of three faces in two shells, with up to two of its instances  *)
(* written otherwise; the same solid with up to two instances of its        *)
(* geometry written otherwise; and shape aspects of every class with up to  *)
(* two relationships between them, or one of the longer patterns; contexts  *)
(* with units of every form, and faces in shells and solids of every form;   *)
(* and entities checked against redeclaring schemas.                        *)
(***************************************************************************)
EXTENDS Readers

Row(id, name, params) == <<id, Simple(name, <<Text("")>> \o params)>>
Flag(value) == Enumeration(value)
Triplet(a, b, c) == List(<<Real(a), Real(b), Real(c)>>)
FileOf(rows) == [id \in {r[1] : r \in rows} |-> (CHOOSE r \in rows : r[1] = id)[2]]

Oriented(id, edge, flag) == Row(id, "ORIENTED_EDGE", <<Derived, Derived, Ref(edge), Flag(flag)>>)
EdgeCurve(id, a, b, curve) == Row(id, "EDGE_CURVE", <<Ref(a), Ref(b), Ref(curve), Flag("T")>>)
Face(id, bounds, surface, flag) == Row(id, "ADVANCED_FACE", <<Refs(bounds), Ref(surface), Flag(flag)>>)
BoundRow(id, name, loop, flag) == Row(id, name, <<Ref(loop), Flag(flag)>>)
OrientedShell(id, shell, flag) == Row(id, "ORIENTED_CLOSED_SHELL", <<Derived, Ref(shell), Flag(flag)>>)

SolidRows ==
  {Row(1, "BREP_WITH_VOIDS", <<Ref(2), Refs(<<3>>)>>), Row(2, "CLOSED_SHELL", <<Refs(<<11, 12>>)>>),
   OrientedShell(3, 4, "F"), Row(4, "CLOSED_SHELL", <<Refs(<<13>>)>>), OrientedShell(5, 4, "T"),
   Face(11, <<21>>, 61, "T"), Face(12, <<22, 23>>, 62, "F"), Face(13, <<24>>, 63, "T"),
   BoundRow(21, "FACE_OUTER_BOUND", 31, "T"), BoundRow(22, "FACE_BOUND", 32, "F"),
   BoundRow(23, "FACE_BOUND", 33, "T"), BoundRow(24, "FACE_BOUND", 34, "F"),
   Row(31, "EDGE_LOOP", <<Refs(<<41, 42>>)>>), Row(32, "EDGE_LOOP", <<Refs(<<43, 44>>)>>),
   Row(33, "VERTEX_LOOP", <<Ref(58)>>), Row(34, "EDGE_LOOP", <<Refs(<<45, 46>>)>>),
   Oriented(41, 51, "T"), Oriented(42, 52, "T"), Oriented(43, 52, "F"), Oriented(44, 51, "F"),
   Oriented(45, 53, "T"), Oriented(46, 54, "F"), Oriented(47, 55, "F"),
   EdgeCurve(51, 56, 57, 64), EdgeCurve(52, 57, 56, 65), EdgeCurve(53, 59, 60, 66),
   EdgeCurve(54, 59, 60, 64), EdgeCurve(55, 60, 60, 65)}
    \cup {Row(v, "VERTEX_POINT", <<Ref(71)>>) : v \in 56..60}

Measures ==
  {Row(61, "PLANE", <<Ref(81)>>), Row(62, "CYLINDRICAL_SURFACE", <<Ref(82), Real(2)>>),
   Row(63, "CONICAL_SURFACE", <<Ref(83), Real(0), Real(45)>>),
   Row(64, "LINE", <<Ref(72), Ref(77)>>), Row(65, "CIRCLE", <<Ref(82), Real(1)>>),
   Row(66, "SEAM_CURVE", <<Ref(64), List(<<Ref(61)>>), Flag("CURVE_3D")>>),
   Row(71, "CARTESIAN_POINT", <<Triplet(0, 0, 0)>>), Row(72, "CARTESIAN_POINT", <<Triplet(1, 0, 2)>>),
   Row(74, "DIRECTION", <<Triplet(0, 0, 2)>>), Row(75, "DIRECTION", <<Triplet(1, 0, 1)>>),
   Row(76, "DIRECTION", <<Triplet(-3, 0, 0)>>), Row(77, "VECTOR", <<Ref(76), Real(0)>>),
   Row(81, "AXIS2_PLACEMENT_3D", <<Ref(71), Unset, Unset>>), Row(82, "AXIS2_PLACEMENT_3D", <<Ref(72), Ref(74), Ref(75)>>),
   Row(83, "AXIS2_PLACEMENT_3D", <<Ref(72), Ref(76), Unset>>),
   Row(90, "SHAPE_REPRESENTATION", <<Refs(<<1>>), Ref(91)>>),
   <<91, Complex(<<Part("GEOMETRIC_REPRESENTATION_CONTEXT", <<Integer(3)>>),
                   Part("GLOBAL_UNIT_ASSIGNED_CONTEXT", <<Refs(<<93, 94>>)>>),
                   Part("REPRESENTATION_CONTEXT", <<Text(""), Text("")>>)>>)>>,
   <<93, Complex(<<Part("LENGTH_UNIT", << >>), Part("NAMED_UNIT", <<Derived>>),
                   Part("SI_UNIT", <<Enumeration("MILLI"), Enumeration("METRE")>>)>>)>>,
   <<94, Complex(<<Part("NAMED_UNIT", <<Derived>>), Part("PLANE_ANGLE_UNIT", << >>),
                   Part("SI_UNIT", <<Unset, Enumeration("RADIAN")>>)>>)>>}

TopologyChanges ==
  {Row(1, "MANIFOLD_SOLID_BREP", <<Ref(2)>>), Row(1, "FACETED_BREP", <<Ref(2)>>),
   <<1, Complex(<<Part("MANIFOLD_SOLID_BREP", <<Ref(2)>>)>>)>>, Row(1, "BREP_WITH_VOIDS", <<Ref(2)>>),
   Row(1, "BREP_WITH_VOIDS", <<Ref(2), Refs(<< >>)>>), Row(1, "BREP_WITH_VOIDS", <<Ref(2), Refs(<<3, 3>>)>>),
   Row(1, "BREP_WITH_VOIDS", <<Ref(2), Refs(<<3, 5>>)>>), Row(1, "BREP_WITH_VOIDS", <<Ref(2), Refs(<<4>>)>>),
   Row(1, "BREP_WITH_VOIDS", <<Ref(3), Refs(<<3>>)>>), Row(1, "MANIFOLD_SOLID_BREP", <<Ref(99)>>),
   Row(2, "TESSELLATED_CLOSED_SHELL", <<Refs(<<11>>)>>), Row(2, "CLOSED_SHELL", <<Refs(<<11, 12, 11>>)>>),
   Row(2, "CLOSED_SHELL", <<List(<<Ref(11), Real(1)>>)>>), OrientedShell(2, 4, "T"),
   OrientedShell(3, 4, "T"), OrientedShell(3, 4, "U"), OrientedShell(3, 3, "F"), OrientedShell(3, 2, "F"),
   Row(3, "ORIENTED_CLOSED_SHELL", <<Refs(<<13>>), Ref(4), Flag("F")>>),
   Face(11, <<21, 21>>, 61, "T"), Face(11, <<21, 22>>, 61, "F"), Face(12, <<23, 22>>, 61, "T"),
   Row(11, "FACE_SURFACE", <<Refs(<<21>>), Ref(61), Flag("T")>>),
   BoundRow(21, "FACE_BOUND", 31, "F"), BoundRow(21, "FACE_BOUND", 32, "T"), BoundRow(22, "FACE_OUTER_BOUND", 32, "T"),
   BoundRow(23, "FACE_OUTER_BOUND", 33, "T"), BoundRow(24, "FACE_BOUND", 34, "T"),
   Row(31, "EDGE_LOOP", <<Refs(<<41, 42, 41>>)>>), Row(31, "EDGE_LOOP", <<Refs(<<41>>)>>),
   Row(31, "EDGE_LOOP", <<Refs(<<41, 44>>)>>), Row(31, "EDGE_LOOP", <<Refs(<<43, 44>>)>>),
   Row(31, "POLY_LOOP", <<Refs(<<56>>)>>), Row(31, "KINEMATIC_LOOP", << >>),
   Row(34, "EDGE_LOOP", <<Refs(<<47>>)>>), Row(34, "EDGE_LOOP", <<Refs(<<47, 46, 45>>)>>), Row(33, "VERTEX_LOOP", <<Unset>>),
   Oriented(41, 51, "F"), Oriented(43, 42, "F"), Row(42, "SEAM_EDGE", <<Derived, Derived, Ref(52), Flag("T")>>),
   Row(42, "ORIENTED_EDGE", <<Ref(57), Derived, Ref(52), Flag("T")>>),
   EdgeCurve(51, 57, 57, 64), Row(52, "SUBEDGE", <<Ref(57), Ref(56), Ref(51)>>), Row(56, "VERTEX", << >>)}

GeometryChanges ==
  {Row(61, "PLANE", <<Ref(83)>>), Row(61, "PLANE", <<Unset>>), Row(61, "PLANE", <<Ref(81), Real(1)>>),
   Row(61, "B_SPLINE_SURFACE", << >>), Row(61, "TOROIDAL_SURFACE", <<Ref(82), Real(2), Real(1)>>),
   Row(61, "SPHERICAL_SURFACE", <<Ref(83), Real(1)>>), Row(62, "CYLINDRICAL_SURFACE", <<Ref(82), Real(0)>>),
   Row(62, "CYLINDRICAL_SURFACE", <<Ref(82), Real(2000)>>), Row(63, "CONICAL_SURFACE", <<Ref(83), Real(-1), Real(45)>>),
   Row(63, "CONICAL_SURFACE", <<Ref(83), Real(1), Real(90)>>), Row(63, "CONICAL_SURFACE", <<Ref(83), Real(1), Text("")>>),
   Row(64, "LINE", <<Ref(72), Unset>>), Row(64, "LINE", <<Ref(72), Ref(74)>>), Row(64, "B_SPLINE_CURVE", << >>),
   Row(65, "CIRCLE", <<Ref(82), Real(0)>>), Row(65, "CIRCLE", <<Ref(81), Real(20)>>),
   Row(66, "SURFACE_CURVE", <<Ref(65), List(<< >>), Flag("PCURVE_S1")>>),
   Row(66, "SEAM_CURVE", <<Ref(64), Unset, Flag("CURVE_3D")>>), Row(66, "SEAM_CURVE", <<Ref(64), List(<< >>), Flag("S")>>),
   Row(72, "CARTESIAN_POINT", <<List(<<Real(1), Real(2)>>)>>), Row(72, "CARTESIAN_POINT", <<Triplet(0, 5, 21)>>),
   Row(75, "DIRECTION", <<Triplet(0, 0, 0)>>), Row(75, "DIRECTION", <<Triplet(0, 0, 5)>>),
   Row(76, "DIRECTION", <<Triplet(0, -2, 0)>>), Row(77, "VECTOR", <<Ref(76), Real(-1)>>),
   Row(82, "AXIS2_PLACEMENT_2D", <<Ref(72), Unset>>), Row(82, "AXIS2_PLACEMENT_3D", <<Ref(72), Ref(75), Ref(74)>>),
   Row(83, "AXIS2_PLACEMENT_3D", <<Ref(72), Ref(75), Unset>>), Row(83, "AXIS2_PLACEMENT_3D", <<Ref(71), Ref(74), Unset>>),
   <<93, Complex(<<Part("LENGTH_UNIT", << >>), Part("NAMED_UNIT", <<Derived>>),
                   Part("SI_UNIT", <<Enumeration("MICRO"), Enumeration("METRE")>>)>>)>>,
   <<93, Complex(<<Part("LENGTH_UNIT", << >>), Part("NAMED_UNIT", <<Derived>>),
                   Part("SI_UNIT", <<Enumeration("CENTI"), Enumeration("METRE")>>)>>)>>,
   <<94, Complex(<<Part("MASS_UNIT", << >>), Part("NAMED_UNIT", <<Derived>>),
                   Part("SI_UNIT", <<Enumeration("KILO"), Enumeration("GRAM")>>)>>)>>}

UpToTwo(all) == {{x, y} : x, y \in all} \cup {{}}
Consistent(changes) == \A x, y \in changes : x[1] = y[1] => x = y

Solid == FileOf(SolidRows \cup Measures)
SolidFiles ==
  {FileOf(c) @@ Solid : c \in {d \in UpToTwo(TopologyChanges) \cup UpToTwo(GeometryChanges) : Consistent(d)}}

-----------------------------------------------------------------------------
Aspects ==
  {Row(11, "COMPOSITE_GROUP_SHAPE_ASPECT", << >>), Row(12, "CENTRE_OF_SYMMETRY", << >>), Row(13, "DATUM", << >>),
   Row(14, "DATUM_FEATURE", << >>), Row(15, "PLACED_DATUM_TARGET_FEATURE", << >>), Row(16, "SHAPE_ASPECT", << >>),
   <<17, Complex(<<Part("COMPOSITE_GROUP_SHAPE_ASPECT", << >>), Part("DATUM_FEATURE", << >>)>>)>>,
   Row(18, "BETWEEN_SHAPE_ASPECT", << >>), Row(19, "PRODUCT_DEFINITION_SHAPE", << >>), Row(22, "COMMON_DATUM", << >>),
   Row(20, "DIMENSIONAL_LOCATION", <<Text(""), Ref(14), Ref(16)>>), Row(21, "COMPONENT_PATH_SHAPE_ASPECT", << >>),
   Row(1, "ADVANCED_FACE", << >>), Row(2, "ADVANCED_FACE", << >>),
   Row(31, GISU, <<Text(""), Ref(16), Ref(90), Ref(1)>>),
   Row(32, IIRU, <<Text(""), Ref(14), Ref(90), Typed("SET_REPRESENTATION_ITEM", Refs(<<1, 2, 1>>))>>),
   Row(33, GISU, <<Text(""), Ref(11), Ref(90), Ref(2)>>), Row(34, GISU, <<Text(""), Ref(19), Ref(90), Ref(1)>>)}

Relate(id, name, a, b) == {Row(id, name, <<Text(""), Ref(a), Ref(b)>>)}
Links ==
  [components |-> Relate(41, SAR, 11, 16), derived_component |-> Relate(42, SAR, 11, 12),
   derived |-> Relate(43, DERIVING, 12, 16), derived_back |-> Relate(44, DERIVING, 12, 11),
   feature |-> Relate(45, SAR, 14, 13), target |-> Relate(46, SAR, 15, 13),
   target_feature |-> Relate(47, TARGET_FEATURE, 16, 15), both |-> Relate(48, SAR, 17, 13),
   member |-> Relate(49, SAR, 17, 16), between |-> Relate(50, SAR, 18, 16), plain |-> Relate(51, SAR, 16, 14),
   other |-> Relate(52, "PATTERN_OFFSET_MEMBERSHIP", 11, 16),
   complex |-> {<<53, Complex(<<Part("SHAPE_ASPECT_ASSOCIATIVITY", << >>),
                               Part(SAR, <<Text(""), Text(""), Ref(14), Ref(13)>>)>>)>>},
   offset |-> {Row(54, "CONNECTION_ZONE_INTERFACE_PLANE_RELATIONSHIP",
                  <<Unset, Unset, Unset, Unset, Text(""), Ref(16), Ref(13)>>)},
   whole |-> Relate(55, SAR, 11, 19), own |-> Relate(56, SAR, 11, 11),
   unrelated |-> {Row(57, SAR, <<Text(""), Ref(11), Unset>>)}, into_datum |-> Relate(58, SAR, 16, 13),
   common |-> Relate(59, SAR, 22, 13), group_member |-> Relate(60, SAR, 11, 17),
   derived_member |-> Relate(61, DERIVING, 12, 17), member_derived |-> Relate(62, SAR, 17, 12),
   deriving_plain |-> Relate(63, DERIVING, 16, 12), dimension |-> Relate(64, SAR, 11, 20),
   chain |-> {Row(65, "CHAIN_BASED_GEOMETRIC_ITEM_SPECIFIC_USAGE", <<Text(""), Ref(12), Ref(90), Ref(1)>>)},
   presentation |-> {Row(66, "DRAUGHTING_MODEL_ITEM_ASSOCIATION", <<Text(""), Ref(13), Ref(90), Ref(1)>>)},
   undefined_item |-> {Row(67, GISU, <<Text(""), Ref(16), Ref(90), Ref(9)>>)}, undefined |-> Relate(68, SAR, 11, 8),
   path |-> Relate(69, SAR, 17, 21)]

Patterns ==
  {{"group_member", "derived_component", "derived_member", "member"}, {"common", "both", "member"},
   {"common", "both", "member_derived", "derived_back", "components"}, {"components", "derived_component", "derived"},
   {"target", "feature", "target_feature", "common"}, {"common", "both", "member_derived", "derived"},
   {"group_member", "member_derived", "derived_back", "own"}, {"both", "target", "target_feature", "member"},
   {"derived_component", "derived_back", "components", "member_derived", "group_member"}}

AspectFile == FileOf(Aspects)
PmiFiles ==
  {FileOf(UNION {Links[l] : l \in chosen}) @@ AspectFile : chosen \in UpToTwo(DOMAIN Links) \cup Patterns}

-----------------------------------------------------------------------------
Attribute(name, ty) == [name |-> name, optional |-> FALSE, ty |-> ty]
OwnAttributes ==
  [A |-> <<Attribute("x", Aggregate({1})), Attribute("u", OtherType)>>,
   B |-> <<Attribute("y", NamedType("some"))>>, C |-> <<Attribute("x", NamedType("pair"))>>,
   D |-> << >>]

Hierarchies ==
  {<< <<"A", << >> >>, <<"B", <<"A">> >>, <<"C", <<"B">> >> >>,
   << <<"D", <<"B", "C">> >>, <<"C", <<"A">> >>, <<"B", <<"A">> >>, <<"A", << >> >> >>,
   << <<"D", <<"C", "B">> >>, <<"A", << >> >>, <<"C", << >> >>, <<"B", <<"A">> >> >>,
   << <<"A", << >> >>, <<"B", <<"A">> >>, <<"C", <<"B">> >>, <<"D", <<"C">> >> >>,
   << <<"D", <<"B", "A">> >>, <<"B", <<"A">> >>, <<"A", << >> >>, <<"C", <<"Missing">> >> >>,
   << <<"D", <<"A", "B">> >>, <<"B", <<"A">> >>, <<"A", << >> >>, <<"C", <<"D">> >> >>,
   << <<"A", <<"B">> >>, <<"B", <<"A">> >>, <<"C", <<"A">> >>, <<"D", <<"D">> >> >>,
   << <<"D", << >> >>, <<"B", <<"D">> >>, <<"A", << >> >>, <<"D", <<"A">> >> >>}

(* A redeclaration: by which entity, of what, and with which bound.          *)
Redeclarations ==
  {<<"B", "A", "x", 2>>, <<"C", "A", "x", 3>>, <<"C", "B", "x", 4>>, <<"D", "A", "x", 5>>,
   <<"D", "B", "y", 0>>, <<"D", "C", "x", 3>>}
Derivations == {<<"C", "A", "u">>, <<"D", "C", "u">>, <<"D", "B", "y">>}

SchemaOf(hierarchy, changes) ==
  LET By(name, all) == SetToSeq({c \in changes \cap all : c[1] = name})
  IN  [types |-> [some |-> Aggregate({1}), pair |-> NamedType("two"), two |-> Aggregate({2})],
       entities |-> [i \in DOMAIN hierarchy |->
         LET name == hierarchy[i][1]
         IN  [name |-> name, supertypes |-> hierarchy[i][2], attributes |-> OwnAttributes[name],
              redeclared |-> [k \in DOMAIN By(name, Redeclarations) |->
                 LET c == By(name, Redeclarations)[k]
                 IN  [attribute |-> c[3], entity |-> c[2], ty |-> Aggregate({c[4]})]],
              derived |-> [k \in DOMAIN By(name, Derivations) |->
                 LET c == By(name, Derivations)[k] IN [attribute |-> c[3], entity |-> c[2]]]]]]

Schemas == {SchemaOf(h, c) : h \in Hierarchies, c \in UpToTwo(Redeclarations \cup Derivations)}
NoSchema == [types |-> << >>, entities |-> << >>]

(* The same entities simple and complex, in both orders, with lists that     *)
(* reach some of the bounds.                                               *)
Numbers(n) == List([i \in 1..n |-> Real(i)])
CheckedFiles ==
  {(1 :> Simple("D", <<Numbers(first), Unset, Numbers(0)>>)) @@
   (2 :> Simple("B", <<Numbers(2), Unset, Numbers(0)>>)) @@
   (3 :> Complex(<<Part("B", <<Numbers(0)>>)>>)) @@
   (4 :> Complex(<<Part("A", <<Numbers(first), Unset>>), Part("B", <<Numbers(1)>>), Part("C", <<Numbers(2)>>)>>)) @@
   (5 :> Complex(<<Part("A", <<Unset>>), Part("X", << >>)>>)) @@
   (6 :> Simple("C", <<Numbers(3), Unset, Numbers(1), Numbers(first)>>)) @@
   (7 :> Simple("X", << >>)) : first \in {1, 4}}

-----------------------------------------------------------------------------
Put(instances) == [id \in {i[1] : i \in instances} |-> (CHOOSE i \in instances : i[1] = id)[2]]

Context(ids, uncertainties) ==
  Complex(<<Part("GEOMETRIC_REPRESENTATION_CONTEXT", <<Integer(3)>>)>>
            \o (IF uncertainties = << >> THEN << >>
                ELSE <<Part("GLOBAL_UNCERTAINTY_ASSIGNED_CONTEXT", <<Refs(uncertainties)>>)>>)
            \o <<Part("GLOBAL_UNIT_ASSIGNED_CONTEXT", <<Refs(ids)>>),
                 Part("REPRESENTATION_CONTEXT", <<Text("c"), Text("3D")>>)>>)
Shows(items, context) == Simple("SHAPE_REPRESENTATION", <<Text("r"), Refs(items), Ref(context)>>)

-----------------------------------------------------------------------------
(* Units: declared or not, of SI names, or converted from unit 12 by 11.    *)
Declared(names) == [i \in DOMAIN names |-> Part(names[i], << >>)]
SiUnit(declared, prefix, name) ==
  Complex(Declared(declared) \o <<Part("NAMED_UNIT", <<Derived>>), Part("SI_UNIT", <<prefix, Enumeration(name)>>)>>)
Convert(declared, dimensions, factor) ==
  Complex(<<Part("CONVERSION_BASED_UNIT", <<Text("u"), Ref(factor)>>)>>
            \o Declared(declared) \o <<Part("NAMED_UNIT", <<dimensions>>)>>)
MeasureOf(name, value, unit) == Simple(name, <<value, Ref(unit)>>)

Metre == SiUnit(<<"LENGTH_UNIT">>, Unset, "METRE")
Milli == SiUnit(<<"LENGTH_UNIT">>, Enumeration("MILLI"), "METRE")
Radian == SiUnit(<<"PLANE_ANGLE_UNIT">>, Unset, "RADIAN")

Declarations == {<< >>, <<"LENGTH_UNIT">>, <<"PLANE_ANGLE_UNIT">>, <<"MASS_UNIT">>,
                 <<"LENGTH_UNIT", "PLANE_ANGLE_UNIT">>}
Tops == {Metre, Simple("SI_UNIT", <<Derived, Enumeration("MILLI"), Enumeration("METRE")>>),
         SiUnit(<< >>, Enumeration("LIGHT"), "METRE"), SiUnit(<<"LENGTH_UNIT">>, Unset, "RADIAN"),
         SiUnit(<<"MASS_UNIT">>, Unset, "METRE"), SiUnit(<< >>, Unset, "STERADIAN"),
         SiUnit(<<"MASS_UNIT">>, Enumeration("KILO"), "GRAM"),
         Simple("CONTEXT_DEPENDENT_UNIT", <<Derived, Text("u")>>)}
          \cup {Convert(d, dims, 11) : d \in Declarations, dims \in {Derived, Ref(15), Ref(16)}}
Factors == {MeasureOf("LENGTH_MEASURE_WITH_UNIT", Typed("LENGTH_MEASURE", Real(25)), 12),
            MeasureOf("MEASURE_WITH_UNIT", Real(1000), 12),
            MeasureOf("PLANE_ANGLE_MEASURE_WITH_UNIT", Typed("LENGTH_MEASURE", Real(25)), 12),
            MeasureOf("MEASURE_WITH_UNIT", Typed("POSITIVE_RATIO_MEASURE", Real(0)), 12)}
Bases == {Metre, Milli, Radian, SiUnit(<< >>, Enumeration("LIGHT"), "METRE"),
          Convert(<<"LENGTH_UNIT">>, Derived, 13), Convert(<< >>, Derived, 14),
          Simple("MASS_UNIT", <<Derived>>)}

UnitLists == {<<10>>, <<10, 20>>, <<20, 10>>}
Uncertain(unit, name) ==
  Simple("UNCERTAINTY_MEASURE_WITH_UNIT",
         <<Typed("LENGTH_MEASURE", Real(1)), Ref(unit), Text(name), Unset>>)
Exponents(length) == Simple("DIMENSIONAL_EXPONENTS",
                            [i \in 1..7 |-> Real(IF i = 1 THEN length ELSE 0)])

UnitFiles ==
  {Put({<<1, Shows(<<2>>, 3)>>, <<2, Simple("CARTESIAN_POINT", << >>)>>, <<3, Context(l, <<21>>)>>,
        <<10, top>>, <<11, factor>>, <<12, base>>,
        (* a chain of two, and one that comes back to itself *)
        <<13, MeasureOf("LENGTH_MEASURE_WITH_UNIT", Real(10), 20)>>,
        <<14, MeasureOf("LENGTH_MEASURE_WITH_UNIT", Real(10), 10)>>,
        <<15, Exponents(1)>>, <<16, Exponents(0)>>, <<20, Milli>>, <<21, Uncertain(10, "distance")>>}) :
     l \in UnitLists, top \in Tops, factor \in Factors, base \in Bases}

-----------------------------------------------------------------------------
(* Containment: face 1 in containers 2, 3 and 4, listed by 5 and 6.         *)
Boxes(id) ==
  LET below == id - 1
  IN  {Simple("CLOSED_SHELL", <<Text("s"), Refs(<<below, 1>>)>>),
       Simple("ORIENTED_CLOSED_SHELL", <<Text("s"), Derived, Ref(below), Enumeration("T")>>),
       Simple("BREP_WITH_VOIDS", <<Text("b"), Ref(1), Refs(<<below>>)>>),
       Simple("CONNECTED_FACE_SUB_SET", <<Text("s"), Refs(<<1>>), Ref(below)>>)}
Odd(id) ==
  {Simple("CLOSED_SHELL", <<Refs(<<1>>)>>),
   Complex(<<Part("CLOSED_SHELL", <<Refs(<<id - 1>>)>>), Part("REPRESENTATION_ITEM", <<Text("s")>>)>>),
   Simple("SHELL_LIST", <<Text("s"), Refs(<<id - 1>>), Ref(8)>>),
   Simple("GEOMETRIC_SET", <<Text("s"), Refs(<<id - 1>>)>>)}
Inch == Convert(<<"LENGTH_UNIT">>, Derived, 11)
ContextOf(k) ==
  CASE k = "mm" -> Context(<<9>>, <<21>>)
    [] k = "again" -> Context(<<20>>, <<21>>)
    [] k = "inch" -> Context(<<10>>, << >>)
    [] k = "none" -> Simple("GEOMETRIC_REPRESENTATION_CONTEXT", <<Text("c"), Text("2D"), Integer(2)>>)
    [] OTHER -> Simple("CARTESIAN_POINT", << >>)
Listing(id, one, context) ==
  {Shows(<<one>>, context),
   Complex(<<Part("REPRESENTATION", <<Text("r"), Refs(<<one>>), Ref(context)>>),
             Part("SHAPE_REPRESENTATION", << >>)>>)}

HolderFiles ==
  {Put({<<1, Simple("ADVANCED_FACE", << >>)>>, <<2, box>>, <<3, odd>>, <<4, outer>>,
        <<5, listing>>, <<6, Shows(<<2>>, second)>>, <<7, ContextOf("mm")>>, <<8, ContextOf(kind)>>,
        <<9, Milli>>, <<10, Inch>>, <<11, MeasureOf("MEASURE_WITH_UNIT", Real(25), 20)>>,
        <<20, Milli>>, <<21, Uncertain(9, "distance")>>}) :
     box \in Boxes(2), odd \in Boxes(3) \cup Odd(3), outer \in Boxes(4),
     listing \in Listing(5, 1, 7) \cup Listing(5, 4, 7), second \in {7, 8},
     kind \in {"again", "inch", "none", "wrong"}}

-----------------------------------------------------------------------------
VARIABLE question      \* what is asked of the file

Init ==
  /\ \/ question = "solid" /\ file \in SolidFiles
     \/ question = "pmi" /\ file \in PmiFiles
     \/ question = "units" /\ file \in UnitFiles \cup HolderFiles
     \/ question = "schema" /\ file \in CheckedFiles
  /\ IF question = "schema" THEN schema \in Schemas ELSE schema = NoSchema
  /\ users = << >>
  /\ StartReaders

(* The one item of a file of units, or the face and the box #3, and what the  *)
(* file does not hold.                                                     *)
ItemsAsked == (IF IsContainer(FirstRecord(2)) THEN {1, 3} ELSE {2}) \cup {30}

Next ==
  /\ \/ question = "solid" /\ (ReadTopology({1}) \/ OpenReader(90) \/ Measure)
     \/ question = "pmi" /\ AskPmi({8, 11, 12, 13, 15, 17, 19, 22}, {1, 2})
     \/ question = "units" /\ ReadUnits(ItemsAsked)
     \/ question = "schema" /\ CheckFile
  /\ UNCHANGED question

Spec == Init /\ [][Next]_<<question, readers>>
=============================================================================
