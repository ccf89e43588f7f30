----------------------------- MODULE Placements ------------------------------
(***************************************************************************)
(* Placements::new and the iterator Occurrences (src/src/model/            *)
(* placement.rs): every place a definition occurs under a root, with its   *)
(* transform to the root's coordinates.                                    *)
(*                                                                         *)
(*   reads    what each usage states, once read                            *)
(*   stack    the definitions on the path, the root first: definition,      *)
(*            transform (an outcome), space and the next of its usages      *)
(*   path     the usages on the path                                        *)
(*   listed   the occurrences returned so far                               *)
(*                                                                         *)
(* The transform a usage states (src/src/model/placement.rs, read_usage):  *)
(* from the component's coordinates to the assembly's, through a           *)
(* representation relationship with a transformation or a mapped item.     *)
(*                                                                         *)
(*   sides   a set of one or none of [component, assembly |-> name]: the    *)
(*           shape representations the placement is between                *)
(*   read    [sides, result |-> outcome of a placed]                       *)
(*   placed  [transform, frame |-> name]: the assembly's frame, at which a  *)
(*           product out of range is reported                              *)
(***************************************************************************)
EXTENDS ProductStructure, Geometry

(* The complex relationships are any; these stand for the simple ones whose  *)
(* name ends as theirs do.                                                 *)
SimpleRelationships == {RR, SRR} \cup ConstructiveRelationships

Inconsistent(id) == Failed("Inconsistent", id)
Unsupported(id) == Failed("Unsupported", id)

-----------------------------------------------------------------------------
(* Frames::read: an axis2_placement_3d in the context of a representation.   *)
FrameIn(item, rep) ==
  LET Blame(outcome, at) == IF outcome.ok THEN outcome ELSE Failed("Frame", at)
      BlameOwn(outcome) == IF outcome.ok THEN outcome ELSE Blame(outcome, outcome.error.at)
  IN  IF Defined(item) /\ ~IsSimple(item, "AXIS2_PLACEMENT_3D") THEN Unsupported(item)
      ELSE Then(Blame(OfRepresentation(rep), item), LAMBDA reader :
           Then(BlameOwn(Axis2Placement3d(reader, item, item)), LAMBDA frame :
             IF ~frame.stated /\ frame.z # E3 THEN Failed("Divergent", item) ELSE Ok(frame)))

(* placed: M(assembly) M(component)^-1, and both factors finite.            *)
PlacedBy(assembly, a, component, c) ==
  LET inverse == Inverted(ToRigid(component))
      transform == Compose(ToRigid(assembly), inverse)
  IN  IF ~IsFinite(inverse) THEN Failed("NotFinite", c)
      ELSE IF ~IsFinite(transform) THEN Failed("NotFinite", a)
      ELSE Ok([transform |-> transform, frame |-> a])

(* listed: among the items of the representation.                          *)
ListsItem(rep, item) == \E r \in Representation(rep) : item \in ToSet(r.items)

ListedCheck(item, rep) ==
  IF Representation(rep) = {} THEN Inconsistent(rep)
  ELSE IF ListsItem(rep, item) THEN Ok(item) ELSE Inconsistent(item)

-----------------------------------------------------------------------------
(* relationship: its four attributes, and the transformation if it has one. *)
RelationshipParams(id) ==
  LET base == UNION {ExactParams(r, 4) : r \in Partial(id, RR)}
      operators == {r.params : r \in Partial(id, RRWT)}
      record == FirstRecord(id)
      Counted(params, count) == IF Len(params) = count THEN Ok(params) ELSE Inconsistent(id)
  IN  IF ~Defined(id) THEN Inconsistent(id)
      ELSE IF RepeatsPartial(id) THEN Inconsistent(id)
      ELSE IF IsComplex(id)
           THEN IF base = {} \/ \E ps \in operators : Len(ps) # 1 THEN Inconsistent(id)
                ELSE Ok((CHOOSE ps \in base : TRUE) \o FlattenSeq(SetToSeq(operators)))
      ELSE IF record.name = RRWT THEN Counted(record.params, 5)
      ELSE IF record.name \in SimpleRelationships THEN Counted(record.params, 4)
      ELSE Unsupported(id)

ReadRelationship(id) ==
  Then(RelationshipParams(id), LAMBDA ps :
    IF \E i \in 3..Len(ps) : ps[i].kind # "reference" THEN Inconsistent(id)
    ELSE Ok([first |-> ps[3].ref, second |-> ps[4].ref,
             operator |-> IF Len(ps) = 5 THEN {ps[5].ref} ELSE {}]))

(* item_defined_transformation. *)
TransformItems(relationship, id) ==
  LET params == FirstRecord(id).params
  IN  IF ~Defined(id) THEN Inconsistent(relationship)
      ELSE IF ~IsSimple(id, "ITEM_DEFINED_TRANSFORMATION") THEN Unsupported(id)
      ELSE IF Len(params) # 4 THEN Inconsistent(id)
      ELSE IF params[3].kind # "reference" \/ params[4].kind # "reference" THEN Inconsistent(id)
      ELSE Ok(<<params[3].ref, params[4].ref>>)

(* The usage, not the order of the relationship, says which side is the      *)
(* component's.                                                            *)
SidesNamed(relation, component, assembly) ==
  {sides \in {[component |-> relation.first, assembly |-> relation.second],
              [component |-> relation.second, assembly |-> relation.first]} :
     /\ relation.first # relation.second
     /\ sides.component \in ToSet(component) /\ sides.assembly \in ToSet(assembly)}

(* The frames of a transformation, each in its side's context.  Open CASCADE *)
(* composes them otherwise unless one of them is the identity.              *)
ByItems(relation, operator, items, sides) ==
  LET reps == <<relation.first, relation.second>>
      c == IF sides.component = relation.first THEN 1 ELSE 2
      checks == [i \in 1..2 |-> ListedCheck(items[i], reps[i])]
  IN  Then(Provided(checks, items), LAMBDA listed :
      Then(AllOk([i \in 1..2 |-> FrameIn(items[i], reps[i])]), LAMBDA frames :
        IF \A i \in 1..2 : ToRigid(frames[i]) # Identity THEN Failed("Divergent", operator)
        ELSE PlacedBy(frames[3 - c], items[3 - c], frames[c], items[c])))

NoSides(outcome) == [sides |-> {}, result |-> outcome]

(* place_items: the transformation of the relationship, if it has one.       *)
ByOperator(id, relation, sides) ==
  IF relation.operator = {} THEN Failed("NoTransformation", id)
  ELSE LET operator == CHOOSE o \in relation.operator : TRUE
       IN  Then(TransformItems(id, operator), LAMBDA items : ByItems(relation, operator, items, sides))

(* What is read between sides, of which there must be one.                  *)
Between(named, id, Read(_)) ==
  IF Cardinality(named) # 1 THEN NoSides(Inconsistent(id))
  ELSE LET sides == CHOOSE sides \in named : TRUE IN [sides |-> named, result |-> Read(sides)]

OrNoSides(outcome, Read(_)) == IF outcome.ok THEN Read(outcome.value) ELSE NoSides(outcome)

(* shape_relationship. *)
ThroughRelationship(usage, id, component, assembly) ==
  LET links == ContextDependent(usage)
  IN  IF Len(links) > 1 THEN NoSides(Inconsistent(links[2]))
      ELSE OrNoSides(ReadRelationship(id), LAMBDA relation :
             Between(SidesNamed(relation, component, assembly), id,
                     LAMBDA sides : ByOperator(id, relation, sides)))

-----------------------------------------------------------------------------
(* mapped_item: its map and its target.                                     *)
MapAndTarget(item) ==
  LET other == IsComplex(item) /\ ~ToSet(Entity(item)) \subseteq PlainPartials
      params == IF IsComplex(item) \/ FirstIs(item, "MAPPED_ITEM") THEN MappedParams(item) ELSE {}
  IN  IF ~Defined(item) THEN Inconsistent(item)
      ELSE IF RepeatsPartial(item) THEN Inconsistent(item)
      ELSE IF other THEN Unsupported(item)
      ELSE IF \E ps \in params : ps[1].kind = "reference" /\ ps[2].kind = "reference"
           THEN LET ps == CHOOSE x \in params : TRUE IN Ok([map |-> ps[1].ref, target |-> ps[2].ref])
           ELSE Inconsistent(item)

(* The one representation of the assembly that lists the item.              *)
Holder(item, assembly) ==
  LET holders == {rep \in ToSet(assembly) : ListsItem(rep, item)}
  IN  IF Cardinality(holders) = 1 THEN Ok(CHOOSE rep \in holders : TRUE) ELSE Inconsistent(item)

(* What the map maps: its origin, and a representation of the component.     *)
OriginAndMapped(item, map, component) ==
  LET params == FirstRecord(map).params
  IN  IF ~Defined(map) THEN Inconsistent(item)
      ELSE IF ~IsSimple(map, "REPRESENTATION_MAP") THEN Unsupported(map)
      ELSE IF Len(params) # 2 THEN Inconsistent(map)
      ELSE IF params[1].kind # "reference" \/ params[2].kind # "reference" THEN Inconsistent(map)
      ELSE IF params[2].ref \notin ToSet(component) THEN Inconsistent(map)
      ELSE Ok([origin |-> params[1].ref, mapped |-> params[2].ref])

ThroughMappedItem(item, component, assembly) ==
  OrNoSides(MapAndTarget(item), LAMBDA ends :
  OrNoSides(Holder(item, assembly), LAMBDA holder :
  OrNoSides(OriginAndMapped(item, ends.map, component), LAMBDA map :
    [sides |-> {[component |-> map.mapped, assembly |-> holder]},
     result |-> Then(FrameIn(map.origin, map.mapped), LAMBDA origin :
                Then(FrameIn(ends.target, holder), LAMBDA target :
                  PlacedBy(target, ends.target, origin, map.origin)))])))

-----------------------------------------------------------------------------
(* quantity_refusal: only a quantity of exactly one is one occurrence.       *)
OneOccurrence(usage) == usage.quantified => usage.quantity = {1}

(* read_usage. *)
ReadUsage(structure, k) ==
  LET usage == structure.usages[k]
      component == Shapes(structure, usage.child)
      assembly == Shapes(structure, usage.parent)
      placement == CHOOSE p \in usage.placement : TRUE
      Counted(read) == IF OneOccurrence(usage) THEN read
                       ELSE [read EXCEPT !.result = Failed("Quantified", usage.instance)]
  IN  Counted(IF usage.placement = {} THEN NoSides(Failed("Unplaced", usage.instance))
              ELSE IF placement.kind = "relationship"
              THEN ThroughRelationship(usage.instance, placement.relationship, component, assembly)
              ELSE ThroughMappedItem(placement.item, component, assembly))

(* refuse_shared_mapped_items. *)
ClaimedItem(usage) == {p.item : p \in {q \in usage.placement : q.kind = "mapped"}}

RefuseShared(structure, reads) ==
  LET Shared(k) == \E j \in DOMAIN reads \ {k} :
                     ClaimedItem(structure.usages[j]) \cap ClaimedItem(structure.usages[k]) # {}
  IN  [k \in DOMAIN reads |->
         IF Shared(k) /\ reads[k].result.ok
         THEN [reads[k] EXCEPT !.result = Inconsistent(CHOOSE i \in ClaimedItem(structure.usages[k]) : TRUE)]
         ELSE reads[k]]

-----------------------------------------------------------------------------
CONSTANTS MaxAssemblyDepth,
          Files        \* the files placements are asked of

ASSUME AssemblyDepth == MaxAssemblyDepth \in Nat

ASSUME FilesAssumption == \A f \in Files : DOMAIN f \subseteq Nat /\ IsFiniteSet(DOMAIN f)

VARIABLES structure, reads, pc, root, stack, path, listed

placing == <<file, users, structure, reads, pc, root, stack, path, listed>>

Empty == [definitions |-> << >>, usages |-> << >>]

StartPlacements ==
  /\ users = << >> /\ structure = Empty /\ reads = << >>
  /\ pc = "graph" /\ root = 0 /\ stack = << >> /\ path = << >> /\ listed = << >>

BuildGraph ==
  /\ pc = "graph" /\ pc' = "structure"
  /\ users' = UsersOfFile
  /\ UNCHANGED <<file, structure, reads, root, stack, path, listed>>

BuildStructure ==
  /\ pc = "structure" /\ pc' = "usages"
  /\ structure' = StructureOfFile
  /\ UNCHANGED <<file, users, reads, root, stack, path, listed>>

(* Placements::new: each usage in file order, and then the shared items.     *)
ReadOne ==
  /\ pc = "usages" /\ Len(reads) < Len(structure.usages)
  /\ reads' = Append(reads, ReadUsage(structure, Len(reads) + 1))
  /\ UNCHANGED <<file, users, structure, pc, root, stack, path, listed>>

ReadAll ==
  /\ pc = "usages" /\ Len(reads) = Len(structure.usages) /\ pc' = "placed"
  /\ reads' = RefuseShared(structure, reads)
  /\ UNCHANGED <<file, users, structure, root, stack, path, listed>>

-----------------------------------------------------------------------------
(* A space is the representation an assembly holds its components in, or     *)
(* unknown, or for a root ambiguous.                                       *)
Of(rep) == [kind |-> "of", representation |-> rep]
Unknown == [kind |-> "unknown"]
Ambiguous == [kind |-> "ambiguous"]
RepresentationOf(space) == IF space.kind = "of" THEN {space.representation} ELSE {}

RootSpace(d) ==
  LET named == UNION {{sides.assembly : sides \in reads[k].sides} : k \in ToSet(ChildUsages(structure, d))}
      shapes == Shapes(structure, d)
  IN  IF Cardinality(named) > 1 THEN Ambiguous
      ELSE IF named # {} THEN Of(CHOOSE rep \in named : TRUE)
      ELSE IF Len(shapes) = 1 THEN Of(shapes[1]) ELSE Unknown

(* Mutant of SpaceChanges: whichever representation of the assembly.        *)
NeverChanges(space, sides) == FALSE

(* The assembly is placed through one representation and holds the component *)
(* in another.                                                             *)
SpaceChanges(space, sides) ==
  \/ space.kind = "of" /\ space.representation # sides.assembly
  \/ space.kind = "ambiguous"

(* compose: the first refusal on the path, or the product.                  *)
ComposeUsage(parent, space, read) ==
  LET transform == Compose(parent.value, read.result.value.transform)
  IN  IF ~parent.ok THEN parent
      ELSE IF ~read.result.ok THEN read.result
      ELSE IF \E sides \in read.sides : SpaceChanges(space, sides)
      THEN Inconsistent((CHOOSE sides \in read.sides : TRUE).assembly)
      ELSE IF ~IsFinite(transform) THEN Failed("NotFinite", read.result.value.frame)
      ELSE Ok(transform)

Level(d, transform, space) ==
  [definition |-> d, transform |-> transform, space |-> space, next |-> 1]

Occurrence(at, d, rep, transform) ==
  [path |-> at, definition |-> d, representation |-> rep, transform |-> transform]

(* Placements::occurrences, and the first call of next.                     *)
Begin(d) ==
  /\ pc = "placed" /\ pc' = "walking"
  /\ root' = d
  /\ LET space == RootSpace(d)
     IN  /\ stack' = <<Level(d, Ok(Identity), space)>>
         /\ listed' = <<Occurrence(<< >>, d, RepresentationOf(space), Ok(Identity))>>
  /\ UNCHANGED <<file, users, structure, reads, path>>

-----------------------------------------------------------------------------
Top == Last(stack)
TopUsages == ChildUsages(structure, Top.definition)

(* Mutant of OnPath: on_path is not taken back when a level is popped.       *)
EverOnPath(d) == \E i \in DOMAIN listed : listed[i].definition = d

(* on_path: the definitions in stack.                                       *)
OnPath(d) == \E i \in DOMAIN stack : stack[i].definition = d

(* What next returns for a usage of the definition on top.                   *)
Refusal(usage, below) ==
  IF OnPath(usage.child) THEN {Failed("Cycle", usage.instance)}
  ELSE IF Len(below) > MaxAssemblyDepth THEN {Failed("TooDeep", usage.instance)} ELSE {}

(* One call of Iterator::next up to its return: the next usage on top.      *)
Visit ==
  /\ pc = "walking" /\ stack # << >> /\ Top.next \in DOMAIN TopUsages
  /\ LET k == TopUsages[Top.next]
         usage == structure.usages[k]
         below == Append(path, k)
         refused == Refusal(usage, below)
         transform == IF refused # {} THEN CHOOSE r \in refused : TRUE
                      ELSE ComposeUsage(Top.transform, Top.space, reads[k])
         rep == {sides.component : sides \in reads[k].sides}
         space == IF rep = {} THEN Unknown ELSE Of(CHOOSE r \in rep : TRUE)
         rest == [stack EXCEPT ![Len(stack)].next = @ + 1]
     IN  /\ listed' = Append(listed, Occurrence(below, usage.child, rep, transform))
         /\ stack' = IF refused = {} THEN Append(rest, Level(usage.child, transform, space)) ELSE rest
         /\ path' = IF refused = {} THEN below ELSE path
  /\ UNCHANGED <<file, users, structure, reads, pc, root>>

(* next, when the usages on top are done: back to the level below.          *)
Pop ==
  /\ pc = "walking" /\ stack # << >> /\ Top.next \notin DOMAIN TopUsages
  /\ stack' = Front(stack)
  /\ path' = IF Len(stack) > 1 THEN Front(path) ELSE path
  /\ UNCHANGED <<file, users, structure, reads, pc, root, listed>>

Done ==
  /\ pc = "walking" /\ stack = << >> /\ pc' = "done"
  /\ UNCHANGED <<file, users, structure, reads, root, stack, path, listed>>

NextPlacement ==
  \/ BuildGraph \/ BuildStructure \/ ReadOne \/ ReadAll
  \/ \E d \in DOMAIN structure.definitions : Begin(d)
  \/ Visit \/ Pop \/ Done

Init == file \in Files /\ StartPlacements

Spec == Init /\ [][NextPlacement]_placing

-----------------------------------------------------------------------------
UsagesOf(d) == {k \in DOMAIN structure.usages : structure.usages[k].parent = d}
Child(k) == structure.usages[k].child

(* The definitions along a path of usages from the root.                    *)
Along(at) == <<root>> \o [i \in DOMAIN at |-> Child(at[i])]

(* Every path of usages from the root that meets a definition again, or      *)
(* passes the depth limit, with its last usage at the earliest.             *)
Paths ==
  LET Open(at) == IsInjective(Along(at)) /\ Len(at) <= MaxAssemblyDepth
      Within[n \in 0..MaxAssemblyDepth + 1] ==
        IF n = 0 THEN {<< >>}
        ELSE LET shorter == Within[n - 1]
             IN  shorter \cup UNION {{Append(at, k) : k \in UsagesOf(Last(Along(at)))} :
                                       at \in {p \in shorter : Open(p)}}
  IN  Within[MaxAssemblyDepth + 1]

(* Depth first: a path comes before those it starts, and usages in file      *)
(* order.                                                                  *)
ComesBefore(a, b) ==
  \/ IsStrictPrefix(a, b)
  \/ \E i \in DOMAIN a \cap DOMAIN b :
       SubSeq(a, 1, i - 1) = SubSeq(b, 1, i - 1) /\ a[i] < b[i]

(* When the iterator is exhausted it has returned every path from the root   *)
(* once, depth first: a shared sub-assembly is listed under each of its      *)
(* uses, and a cycle ends only the path that closes it.                     *)
OccurrencesComplete ==
  pc = "done" =>
    /\ {listed[i].path : i \in DOMAIN listed} = Paths
    /\ \A i \in 1..(Len(listed) - 1) : ComesBefore(listed[i].path, listed[i + 1].path)

(* The frames a placed usage is between, read again from the file: of the    *)
(* two items, the one its representation lists and the other side's.        *)
ItemsOf(p, sides) ==
  LET ReadAgain(relation) ==
        LET transform == CHOOSE o \in relation.operator : TRUE
            In(rep) == FirstReference(transform, IF rep = relation.first THEN 3 ELSE 4)
        IN  <<In(sides.component), In(sides.assembly)>>
      OfMap(ends) == <<FirstReference(ends.map, 1), {ends.target}>>
  IN  IF p.kind = "mapped" THEN OfMap(MapAndTarget(p.item).value)
      ELSE ReadAgain(ReadRelationship(p.relationship).value)

(* A usage that is placed carries the component's frame onto the assembly's, *)
(* its origin and its axes, each frame in the unit of its own context and    *)
(* whichever way round the relationship names them.                         *)
CarriesFrame ==
  pc = "placed" =>
    \A k \in {j \in DOMAIN reads : reads[j].result.ok} :
      \A sides \in reads[k].sides, p \in structure.usages[k].placement :
        LET t == reads[k].result.value.transform
            Onto(component, assembly) ==
              /\ ApplyPoint(t, component.location) = assembly.location
              /\ \A axis \in {"x", "y", "z"} : ApplyVector(t, component[axis]) = assembly[axis]
            Carries(items) ==
              \A c \in items[1], a \in items[2] :
                Onto(FrameIn(c, sides.component).value, FrameIn(a, sides.assembly).value)
        IN  Carries(ItemsOf(p, sides))

(* The product of what the usages of a path state, from the root down.       *)
Product(at) ==
  LET Upto[n \in 0..Len(at)] ==
        IF n = 0 THEN Identity
        ELSE LET above == Upto[n - 1] IN Compose(above, reads[at[n]].result.value.transform)
  IN  Upto[Len(at)]

(* An occurrence that has a transform has the one its own path states: the    *)
(* product of its usages, each placed, and each in the representation the    *)
(* usage above it places.  Nothing of the path visited before remains.      *)
FollowsPath ==
  \A i \in DOMAIN listed :
    LET at == listed[i].path
    IN  /\ listed[i].definition = Last(Along(at))
        /\ listed[i].transform.ok =>
             /\ \A n \in DOMAIN at : reads[at[n]].result.ok
             /\ \A n \in 2..Len(at) :
                  \A above \in reads[at[n - 1]].sides, below \in reads[at[n]].sides :
                    above.component = below.assembly
             /\ listed[i].transform.value = Product(at)
=============================================================================
