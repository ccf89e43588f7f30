--------------------------- MODULE ProductStructure ---------------------------
(***************************************************************************)
(* ProductStructure::new (src/src/model/assembly.rs): the definitions of a *)
(* file with their shape representations, its assembly usages, and what    *)
(* places each usage.  Definitions and usages are numbered from 1.         *)
(*                                                                         *)
(*   structure   [definitions |-> Seq(definition), usages |-> Seq(usage)]  *)
(*   definition  [instance |-> name, shapes |-> Seq(name)]                 *)
(*   usage       [instance |-> name, parent, child |-> definition,         *)
(*                quantified |-> BOOLEAN, quantity |-> set of one or none, *)
(*                placement |-> set of one or none]                        *)
(*                                                                         *)
(* The texts of a definition and of a usage are not kept.                  *)
(*                                                                         *)
(* And the links between shape representations (src/src/model/shape.rs,    *)
(* struct Links): what an item is as a mapped item, and what an instance   *)
(* that names a representation is as a link from it.                       *)
(*                                                                         *)
(*   mapped  [kind |-> "no" | "plain" | "malformed" | "other"], and for a   *)
(*           plain one origin, target, representation                      *)
(*   link    [kind |-> "none" | "follow" | "usage" | "constructive" |       *)
(*           "refused"], and far, usage or reason                          *)
(***************************************************************************)
EXTENDS Records

UsageEntities == {"NEXT_ASSEMBLY_USAGE_OCCURRENCE", "QUANTIFIED_ASSEMBLY_COMPONENT_USAGE"}

(* record_references, first_reference.                                     *)
RecordReferences(id, entity, i, target) ==
  FirstIs(id, entity) /\ ReferenceAt(FirstRecord(id), i) = {target}

FirstReference(id, i) == ReferenceAt(FirstRecord(id), i)

(* The users of an instance whose attribute i names it, in file order.      *)
UsersAs(id, entity, i) ==
  InOrder({user \in ToSet(Referrers(id)) : RecordReferences(user, entity, i, id)})

(* Through the PRODUCT_DEFINITION_SHAPEs of a definition or a usage.        *)
ThroughShapes(id, entity, i) ==
  LET shapes == UsersAs(id, "PRODUCT_DEFINITION_SHAPE", 3)
  IN  FlattenSeq([k \in DOMAIN shapes |-> UsersAs(shapes[k], entity, i)])

ShapeRepresentations(id) ==
  LET links == ThroughShapes(id, "SHAPE_DEFINITION_REPRESENTATION", 1)
  IN  FlattenSeq([k \in DOMAIN links |-> SetToSeq(FirstReference(links[k], 2))])

ContextDependent(usage) ==
  ThroughShapes(usage, "CONTEXT_DEPENDENT_SHAPE_REPRESENTATION", 2)

-----------------------------------------------------------------------------
(* usage_fields: in a complex instance each attribute is in the partial     *)
(* record that declares it.                                                *)
QuantifiedUsage(id) == Has(id, "QUANTIFIED_ASSEMBLY_COMPONENT_USAGE")

RelationshipRecord(id) ==
  IF IsComplex(id) THEN Partial(id, "PRODUCT_DEFINITION_RELATIONSHIP") ELSE {FirstRecord(id)}

QuantityOf(id) ==
  IF ~QuantifiedUsage(id) THEN {}
  ELSE IF IsComplex(id)
       THEN UNION {ReferenceAt(r, 1) : r \in Partial(id, "QUANTIFIED_ASSEMBLY_COMPONENT_USAGE")}
       ELSE ReferenceAt(FirstRecord(id), 7)

(* measure_value: a number, or a typed one.                                *)
MeasureValue(id) ==
  IF ~Defined(id) THEN {}
  ELSE UNION {IF p.kind = "typed" THEN Number(p.param) ELSE Number(p) :
                p \in ParamAt(PrimaryRecord(id, "MEASURE_WITH_UNIT"), 1)}

(* The ends of a usage; it is skipped if one is not in the file.            *)
Ends(id) ==
  {ends \in UNION {ReferenceAt(r, 4) \X ReferenceAt(r, 5) : r \in RelationshipRecord(id)} :
     Defined(ends[1]) /\ Defined(ends[2])}

UsageNodes == InOrder({id \in DOMAIN file : HasAny(id, UsageEntities) /\ Ends(id) # {}})
EndsOf(id) == CHOOSE ends \in Ends(id) : TRUE

(* Builder::definition: every PRODUCT_DEFINITION in file order, then the    *)
(* ends of the usages, each instance once.                                 *)
DefinitionNodes(usages) ==
  WithoutRepeats(InstancesOf({"PRODUCT_DEFINITION"})
                   \o FlattenSeq([k \in DOMAIN usages |-> EndsOf(usages[k])]))

-----------------------------------------------------------------------------
(* shape_relationship: the first context dependent shape representation of  *)
(* the usage whose relationship is in the file, and which side of it is the *)
(* component's: decided by either side, rep_1 first.                        *)
RelationshipSides(id) ==
  LET base == IF IsComplex(id) THEN Partial(id, "REPRESENTATION_RELATIONSHIP")
              ELSE {FirstRecord(id)}
      Side(i) == UNION {ReferenceAt(r, i) : r \in base}
  IN  [first |-> Side(3), second |-> Side(4)]

Reversed(sides, parent, child) ==
  IF sides.first \cap child # {} \/ sides.second \cap parent # {} THEN {FALSE}
  ELSE IF sides.second \cap child # {} \/ sides.first \cap parent # {} THEN {TRUE} ELSE {}

ShapeRelationship(usage, parent, child) ==
  LET links == SelectSeq(ContextDependent(usage),
                         LAMBDA link : \E id \in FirstReference(link, 1) : Defined(id))
  IN  IF links = << >> THEN {}
      ELSE {[kind |-> "relationship", link |-> links[1], relationship |-> id,
             reversed |-> Reversed(RelationshipSides(id), ToSet(parent), ToSet(child))] :
              id \in FirstReference(links[1], 1)}

(* mapped_items: the items of the assembly's representations that map one   *)
(* of the component's, in the order listed.  A mapped item with other       *)
(* partials counts here, whatever they are.                                *)
MapsComponent(item, child) ==
  /\ Defined(item) /\ Has(item, "MAPPED_ITEM")
  /\ \E map \in ReferenceAt(PrimaryRecord(item, "MAPPED_ITEM"), IF IsComplex(item) THEN 1 ELSE 2) :
       FirstIs(map, "REPRESENTATION_MAP") /\ FirstReference(map, 2) \cap ToSet(child) # {}

MappedItems(parent, child) ==
  LET ItemsOf(shape) == UNION {{r.items} : r \in Representation(shape)}
      listed == FlattenSeq([k \in DOMAIN parent |-> FlattenSeq(SetToSeq(ItemsOf(parent[k])))])
  IN  SelectSeq(listed, LAMBDA item : MapsComponent(item, child))

-----------------------------------------------------------------------------
(* The definitions, and the usages with what a relationship places.         *)
Definitions(nodes) ==
  [d \in DOMAIN nodes |-> [instance |-> nodes[d], shapes |-> ShapeRepresentations(nodes[d])]]

IndexOf(nodes, id) == CHOOSE d \in DOMAIN nodes : nodes[d] = id

UsageOf(definitions, id) ==
  LET nodes == [d \in DOMAIN definitions |-> definitions[d].instance]
      parent == IndexOf(nodes, EndsOf(id)[1])
      child == IndexOf(nodes, EndsOf(id)[2])
  IN  [instance |-> id, parent |-> parent, child |-> child,
       quantified |-> QuantifiedUsage(id),
       quantity |-> UNION {MeasureValue(q) : q \in QuantityOf(id)},
       placement |-> ShapeRelationship(id, definitions[parent].shapes, definitions[child].shapes)]

(* Usages still unplaced are matched, per assembly and component, to the     *)
(* mapped items of the component, if there are as many of both.             *)
Matched(definitions, usages) ==
  LET Unplaced(u) == SelectSeq([k \in DOMAIN usages |-> k],
                       LAMBDA k : usages[k].placement = {} /\ usages[k].parent = u.parent
                                  /\ usages[k].child = u.child)
      Placed(k) ==
        LET u == usages[k]
            items == MappedItems(definitions[u.parent].shapes, definitions[u.child].shapes)
            peers == Unplaced(u)
        IN  IF u.placement # {} \/ Len(items) # Len(peers) THEN u
            ELSE [u EXCEPT !.placement =
                    {[kind |-> "mapped", item |-> items[IndexOf(peers, k)]]}]
  IN  [k \in DOMAIN usages |-> Placed(k)]

(* ProductStructure::new. *)
StructureOfFile ==
  LET nodes == UsageNodes
      definitions == Definitions(DefinitionNodes(nodes))
      usages == [k \in DOMAIN nodes |-> UsageOf(definitions, nodes[k])]
  IN  [definitions |-> definitions, usages |-> Matched(definitions, usages)]

Shapes(structure, d) == structure.definitions[d].shapes

ChildUsages(structure, d) ==
  InOrder({k \in DOMAIN structure.usages : structure.usages[k].parent = d})

-----------------------------------------------------------------------------
(* The links between shape representations (struct Links of                 *)
(* src/src/model/shape.rs).                                                 *)
RR == "REPRESENTATION_RELATIONSHIP"
SRR == "SHAPE_REPRESENTATION_RELATIONSHIP"
RRWT == "REPRESENTATION_RELATIONSHIP_WITH_TRANSFORMATION"
CDSR == "CONTEXT_DEPENDENT_SHAPE_REPRESENTATION"
ConstructiveRelationships ==
  {"CONSTRUCTIVE_GEOMETRY_REPRESENTATION_RELATIONSHIP",
   "TESSELLATED_CONSTRUCTIVE_GEOMETRY_REPRESENTATION_RELATIONSHIP"}

(* The solids.  Of the tables of relationships and of mapped items, the      *)
(* types the code tells apart and one for all others.                       *)
Solids == {"MANIFOLD_SOLID_BREP", "BREP_WITH_VOIDS", "FACETED_BREP",
           "FACETED_BREP_AND_BREP_WITH_VOIDS"}
Relationships == {RR, SRR, RRWT, "MECHANICAL_DESIGN_AND_DRAUGHTING_RELATIONSHIP"}
                   \cup ConstructiveRelationships
MappedItemTypes == {"MAPPED_ITEM", "CAMERA_IMAGE"}
PlainPartials == {"MAPPED_ITEM", "REPRESENTATION_ITEM", "GEOMETRIC_REPRESENTATION_ITEM"}

(* Links::unreadable. *)
UnreadableReason(id) ==
  IF IsExternal(id) \/ Has(id, "SHAPE_REPRESENTATION_REFERENCE") THEN "external"
  ELSE "malformed"

-----------------------------------------------------------------------------
(* Links::mapped: the map and the target, and what the map maps.            *)
ReadMap(map, target) ==
  UNION {{[kind |-> "plain", origin |-> origin, target |-> target, representation |-> rep] :
            origin \in Reference(params[1]), rep \in Reference(params[2])} :
         params \in IF IsSimple(map, "REPRESENTATION_MAP")
                    THEN ExactParams(FirstRecord(map), 2) ELSE {}}

(* The two attributes of a mapped item: a simple one has a name before them. *)
MappedParams(id) ==
  IF IsComplex(id)
  THEN UNION {ExactParams(r, 2) : r \in Partial(id, "MAPPED_ITEM")}
  ELSE {Tail(params) : params \in ExactParams(FirstRecord(id), 3)}

MapsOf(id) ==
  UNION {UNION {ReadMap(map, target) : map \in Reference(params[1]), target \in Reference(params[2])} :
           params \in MappedParams(id)}

(* Links::read_mapped_item. *)
MappedItem(id) ==
  LET plain == IF IsComplex(id) THEN ToSet(Entity(id)) \subseteq PlainPartials
               ELSE Has(id, "MAPPED_ITEM")
  IN  IF ~Defined(id) THEN [kind |-> "no"]
      ELSE IF ~HasAny(id, MappedItemTypes) THEN [kind |-> "no"]
      ELSE IF ~plain THEN [kind |-> "other"]
      ELSE IF RepeatsPartial(id) \/ MapsOf(id) = {} THEN [kind |-> "malformed"]
      ELSE CHOOSE mapped \in MapsOf(id) : TRUE

-----------------------------------------------------------------------------
(* The two sides of a relationship, if they can be read.                    *)
SidesOf(id) ==
  UNION {ReferenceAt(r, 3) \X ReferenceAt(r, 4) :
           r \in IF IsComplex(id) THEN Partial(id, RR) ELSE {FirstRecord(id)}}

(* Links::named_by_usage: the first user that is a context dependent shape   *)
(* representation, and the usage its shape is of.                           *)
UsageNaming(id) ==
  LET links == Referrers(id)
      naming == {k \in DOMAIN links : Has(links[k], CDSR)}
      UsagesOf(link) == UNION {ReferenceAt(FirstRecord(shape), 3) :
                                 shape \in {s \in FirstReference(link, 2) : Defined(s)}}
  IN  {UsagesOf(links[k]) : k \in {i \in naming : \A j \in naming : i <= j}}

(* A relationship that says nothing but that both sides are one shape.      *)
PlainRelationship(id) ==
  IF IsComplex(id)
  THEN /\ Len(file[id].records) = 2 /\ ToSet(Entity(id)) = {RR, SRR}
       /\ \A r \in RecordsOf(id) : Len(r.params) = (IF r.name = RR THEN 4 ELSE 0)
  ELSE FirstIs(id, SRR) /\ Len(FirstRecord(id).params) = 4

Refused(reason) == [kind |-> "refused", reason |-> reason]

(* A plain relationship is followed between representations of one context. *)
SameSpace(rep, far) ==
  IF Representation(far) = {} THEN Refused(UnreadableReason(far))
  ELSE IF Representation(rep) = {} THEN Refused("malformed")
  ELSE IF \E here \in Representation(rep), there \in Representation(far) :
            here.context = there.context
       THEN [kind |-> "follow", far |-> far]
       ELSE Refused("different_context")

(* Links::read_relationship, for a user of a representation.                *)
LinkTo(id, rep, far) ==
  IF UsageNaming(id) # {}
  THEN [kind |-> "usage", far |-> far, usage |-> UNION UsageNaming(id)]
  ELSE IF HasAny(id, ConstructiveRelationships) THEN [kind |-> "constructive", far |-> far]
  ELSE IF Has(id, RRWT) THEN Refused("transformed_relationship")
  ELSE IF ~PlainRelationship(id) THEN Refused("not_shape_relationship")
  ELSE SameSpace(rep, far)

LinkFrom(id, rep) ==
  LET sides == SidesOf(id)
      fars == {s[2] : s \in {t \in sides : t[1] = rep}} \cup {s[1] : s \in {t \in sides : t[2] = rep}}
  IN  IF ~HasAny(id, Relationships) THEN [kind |-> "none"]
      ELSE IF fars = {} THEN Refused("not_shape_relationship")
      ELSE IF fars = {rep} THEN [kind |-> "none"]
      ELSE LinkTo(id, rep, CHOOSE far \in fars : TRUE)

-----------------------------------------------------------------------------
(* component_mapped_items: whether an item places a component of the        *)
(* definition; of the usages it places, the last is remembered.             *)
PlacesComponent(structure, item, d) ==
  LET usages == structure.usages
      placed == {k \in DOMAIN usages :
                   \E p \in usages[k].placement : p.kind = "mapped" /\ p.item = item}
  IN  placed # {} /\ usages[Max(placed)].parent = d

(* Links::followed: where the walk of a definition goes from a              *)
(* representation, as the index and the walk both see it.                   *)
Followed(structure, rep, d) ==
  LET items == UNION {ToSet(r.items) : r \in Representation(rep)}
      mapped == {MappedItem(i) : i \in {j \in items : ~PlacesComponent(structure, j, d)}}
      links == {LinkFrom(user, rep) : user \in ToSet(Referrers(rep))}
  IN  {m.representation : m \in {x \in mapped : x.kind = "plain"}}
        \cup {l.far : l \in {x \in links : x.kind = "follow"}}

(* Shape in another file: a document reference to the definition, or a      *)
(* property of a representation that says so.                               *)
NamesDocument(user) == IsSimple(user, "APPLIED_DOCUMENT_REFERENCE")

AssociatedDocuments(id) ==
  IF IsSimple(id, "PRODUCT_DEFINITION_WITH_ASSOCIATED_DOCUMENTS")
  THEN UNION {ToSet(Held(p)) : p \in {q \in ParamAt(FirstRecord(id), 5) : q.kind = "list"}}
  ELSE {}

StatesExternal(user) ==
  /\ IsSimple(user, "PROPERTY_DEFINITION_REPRESENTATION")
  /\ \E property \in FirstReference(user, 1) :
       /\ IsSimple(property, "PROPERTY_DEFINITION")
       /\ \/ TextAt(FirstRecord(property), 1) = {"external definition"}
          \/ \E document \in FirstReference(property, 3) : FirstIs(document, "DOCUMENT_FILE")

IsConstructive(id) ==
  HasAny(id, {"CONSTRUCTIVE_GEOMETRY_REPRESENTATION",
              "TESSELLATED_CONSTRUCTIVE_GEOMETRY_REPRESENTATION"})
==============================================================================
