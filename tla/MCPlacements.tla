----------------------------- MODULE MCPlacements -----------------------------
(***************************************************************************)
(* Files of up to four definitions #1..#4 and up to four usages between     *)
(* them.  Definition d has the representations 10 d + 1 and 10 d + 2, those *)
(* of definition 2 in centimetres; every representation lists five frames:  *)
(* the identity #101, #102 turned about z and moved, #103 about -z with no   *)
(* second direction, #109 moved along z and #110 with parallel directions.   *)
(***************************************************************************)
EXTENDS Placements

Instance(id, name, params) == <<id, Simple(name, params)>>
Triplet(a, b, c) == List(<<Real(a), Real(b), Real(c)>>)
Rep(d, n) == 10 * d + n

Fixed ==
  {Instance(101, "AXIS2_PLACEMENT_3D", <<Text(""), Ref(104), Unset, Unset>>),
   Instance(102, "AXIS2_PLACEMENT_3D", <<Text(""), Ref(105), Ref(106), Ref(107)>>),
   Instance(103, "AXIS2_PLACEMENT_3D", <<Text(""), Ref(104), Ref(108), Unset>>),
   Instance(104, "CARTESIAN_POINT", <<Text(""), Triplet(0, 0, 0)>>),
   Instance(105, "CARTESIAN_POINT", <<Text(""), Triplet(1, 2, 0)>>),
   Instance(106, "DIRECTION", <<Text(""), Triplet(0, 0, 2)>>),
   Instance(107, "DIRECTION", <<Text(""), Triplet(0, 1, 0)>>),
   Instance(108, "DIRECTION", <<Text(""), Triplet(0, 0, -1)>>),
   Instance(109, "AXIS2_PLACEMENT_3D", <<Text(""), Ref(111), Unset, Unset>>),
   Instance(110, "AXIS2_PLACEMENT_3D", <<Text(""), Ref(104), Ref(106), Ref(108)>>),
   Instance(111, "CARTESIAN_POINT", <<Text(""), Triplet(0, 0, 2)>>)}
    \cup {<<c[1], Complex(<<Part("GEOMETRIC_REPRESENTATION_CONTEXT", <<Integer(3)>>),
                           Part("GLOBAL_UNIT_ASSIGNED_CONTEXT", <<Refs(<<c[2]>>)>>),
                           Part("REPRESENTATION_CONTEXT", <<Text(""), Text("")>>)>>)>> :
            c \in {<<91, 93>>, <<92, 94>>}}
    \cup {<<u[1], Complex(<<Part("LENGTH_UNIT", << >>), Part("NAMED_UNIT", <<Derived>>),
                           Part("SI_UNIT", <<Enumeration(u[2]), Enumeration("METRE")>>)>>)>> :
            u \in {<<93, "MILLI">>, <<94, "CENTI">>}}

(* A usage number u of the kind given: its own instances from 200 + 20 u.    *)
Name(u, n) == 200 + 20 * u + n
Usage(u, parent, child) ==
  Instance(Name(u, 0), "NEXT_ASSEMBLY_USAGE_OCCURRENCE",
           <<Text(""), Text(""), Text(""), Ref(parent), Ref(child), Unset>>)
Quantified(u, parent, child, n) ==
  {Instance(Name(u, 0), "QUANTIFIED_ASSEMBLY_COMPONENT_USAGE",
            <<Text(""), Text(""), Text(""), Ref(parent), Ref(child), Unset, Ref(Name(u, 6))>>),
   Instance(Name(u, 6), "MEASURE_WITH_UNIT", <<Integer(n), Ref(94)>>)}
ContextLink(u, n, relationship) ==
  {Instance(Name(u, n), "CONTEXT_DEPENDENT_SHAPE_REPRESENTATION", <<Ref(relationship), Ref(Name(u, 2))>>),
   Instance(Name(u, 2), "PRODUCT_DEFINITION_SHAPE", <<Text(""), Text(""), Ref(Name(u, 0))>>)}
Transformed(u, a, b, item_1, item_2) ==
  ContextLink(u, 1, Name(u, 3))
    \cup {Instance(Name(u, 3), RRWT, <<Text(""), Text(""), Ref(a), Ref(b), Ref(Name(u, 4))>>),
          Instance(Name(u, 4), "ITEM_DEFINED_TRANSFORMATION", <<Text(""), Text(""), Ref(item_1), Ref(item_2)>>)}
MapsTo(u, child, origin, target) ==
  {Instance(Name(u, 7), "MAPPED_ITEM", <<Text(""), Ref(Name(u, 8)), Ref(target)>>),
   Instance(Name(u, 8), "REPRESENTATION_MAP", <<Ref(origin), Ref(Rep(child, 1))>>)}

UsageFile(u, p, c, kind) ==
  LET plain == {Usage(u, p, c)}
      a == Rep(p, 1)
      b == Rep(c, 1)
  IN  CASE kind = "none" -> plain
        [] kind = "component" -> plain \cup Transformed(u, b, a, 102, 101)
        [] kind = "assembly" -> plain \cup Transformed(u, b, a, 101, 102)
        [] kind = "reversed" -> plain \cup Transformed(u, a, b, 101, 102)
        [] kind = "second_here" -> plain \cup Transformed(u, b, Rep(p, 2), 102, 101)
        [] kind = "second_below" -> plain \cup Transformed(u, Rep(c, 2), a, 101, 102)
        [] kind = "both" -> plain \cup Transformed(u, b, a, 102, 102)
        [] kind = "defaulted" -> plain \cup Transformed(u, b, a, 101, 103)
        [] kind = "lifted" -> plain \cup Transformed(u, b, a, 101, 109)
        [] kind = "parallel" -> plain \cup Transformed(u, b, a, 101, 110)
        [] kind = "operator" ->
             plain \cup {i \in Transformed(u, b, a, 101, 102) : i[1] # Name(u, 4)}
               \cup {Instance(Name(u, 4), "CARTESIAN_TRANSFORMATION_OPERATOR_3D", <<Text("")>>)}
        [] kind = "unlisted" -> plain \cup Transformed(u, b, a, 101, 107)
        [] kind = "other_side" -> plain \cup Transformed(u, b, b, 101, 102)
        [] kind = "two_links" -> plain \cup Transformed(u, b, a, 101, 102) \cup ContextLink(u, 9, Name(u, 3))
        [] kind = "no_transformation" ->
             plain \cup ContextLink(u, 1, Name(u, 3))
               \cup {Instance(Name(u, 3), SRR, <<Text(""), Text(""), Ref(b), Ref(a)>>)}
        [] kind = "complex" ->
             plain \cup {i \in Transformed(u, b, a, 102, 101) : i[1] # Name(u, 3)}
               \cup {<<Name(u, 3), Complex(<<Part(RR, <<Text(""), Text(""), Ref(b), Ref(a)>>),
                                            Part(RRWT, <<Ref(Name(u, 4))>>), Part(SRR, << >>)>>)>>}
        [] kind = "mapped" -> plain \cup MapsTo(u, c, 102, 102)
        [] kind = "mapped_to_origin" -> plain \cup MapsTo(u, c, 102, 101)
        [] kind = "once" -> Quantified(u, p, c, 1) \cup Transformed(u, b, a, 101, 102)
        [] kind = "twice" -> Quantified(u, p, c, 2) \cup Transformed(u, b, a, 101, 102)

PlacingKinds == {"none", "component", "assembly", "reversed", "second_here", "second_below", "both",
           "defaulted", "lifted", "parallel", "operator", "unlisted", "other_side", "two_links", "no_transformation", "complex",
           "mapped", "mapped_to_origin", "once", "twice"}

Definition(d, usages, shared) ==
  LET mapped == SelectSeq([u \in DOMAIN usages |-> u],
                  LAMBDA u : usages[u][3] \in {"mapped", "mapped_to_origin"} /\ usages[u][1] = d)
      items == <<101, 102, 103, 109, 110>> \o [i \in DOMAIN mapped |-> Name(mapped[i], 7)]
  IN  {Instance(d, "PRODUCT_DEFINITION", <<Text(""), Text(""), Unset, Unset>>)}
        \cup UNION {{Instance(Rep(d, n), "SHAPE_REPRESENTATION",
                              <<Text(""), Refs(IF n = 1 THEN items ELSE SubSeq(items, 1, 5)),
                                Ref(IF d = 2 THEN 92 ELSE 91)>>),
                     Instance(100 * d + 50 + n, "PRODUCT_DEFINITION_SHAPE", <<Text(""), Text(""), Ref(d)>>),
                     Instance(100 * d + 60 + n, "SHAPE_DEFINITION_REPRESENTATION",
                              <<Ref(100 * d + 50 + n), Ref(IF n = 1 /\ d = 3 /\ shared THEN 21 ELSE Rep(d, n))>>)} :
                      n \in 1..2}

FileOf(usages, shared) ==
  LET defined == {1, 2, 3, 4}
      pairs == Fixed \cup UNION {Definition(d, usages, shared) : d \in defined}
                 \cup UNION {UsageFile(u, usages[u][1], usages[u][2], usages[u][3]) : u \in DOMAIN usages}
  IN  [id \in {p[1] : p \in pairs} |-> (CHOOSE p \in pairs : p[1] = id)[2]]

(* Every two usages in a row; a usage of 3 by 1 beside a usage of 2 by 1,     *)
(* also where both name one representation; and structures with shared      *)
(* parts, cycles and a path one usage too long.                             *)
Rows == {<< <<1, 2, a>>, <<2, 3, b>> >> : a, b \in PlacingKinds}
Pairs == {<< <<1, 2, a>>, <<1, 3, b>> >> : a \in {"mapped", "assembly"}, b \in {"mapped", "second_here"}}
Structures ==
  {<< <<1, 2, "assembly">>, <<1, 3, "assembly">>, <<2, 3, "reversed">>, <<3, 4, "mapped_to_origin">> >>,
   << <<1, 2, "assembly">>, <<2, 3, "component">>, <<3, 1, "assembly">>, <<1, 3, "reversed">> >>,
   << <<1, 2, "component">>, <<1, 2, "component">>, <<2, 3, "assembly">>, <<2, 2, "assembly">> >>,
   << <<1, 2, "assembly">>, <<2, 1, "assembly">>, <<1, 4, "assembly">>, <<2, 4, "assembly">> >>}

McFiles ==
  {FileOf(usages, FALSE) : usages \in Rows \cup Pairs \cup Structures}
    \cup {FileOf(usages, TRUE) : usages \in Pairs}
=============================================================================
