----------------------------- MODULE SchemaCheck -----------------------------
(***************************************************************************)
(* The attribute layouts an EXPRESS schema implies                         *)
(* (src/src/express/schema.rs): which attributes a record of an entity      *)
(* holds, its own and those of all its supertypes, and what redeclarations  *)
(* anywhere in an instance say of them.                                    *)
(*                                                                         *)
(*   schema      [entities |-> Seq(entity), types |-> names -> type]        *)
(*   entity      [name, supertypes, attributes, redeclared, derived]        *)
(*   attribute   [name, optional, ty]                                      *)
(*   reference   [entity, attribute], in redeclared with a ty               *)
(*   type        an aggregate with a lower bound, a name, or other          *)
(*                                                                         *)
(* None of the code is a set without elements, and Some of one element.     *)
(*                                                                         *)
(* The records of a file against the layouts of a schema                   *)
(* (src/src/express/check.rs, check), an instance a step.                  *)
(*                                                                         *)
(*   checked    how many instances are done                                *)
(*   layouts    the layouts found so far: [keys -> Some of one slot list    *)
(*              per record, or None]                                       *)
(*   problems   in the order reported; the type of a record is its entity    *)
(***************************************************************************)
EXTENDS Records

CONSTANT MaxInheritance

ASSUME InheritanceDepth == MaxInheritance \in Nat \ {0}

VARIABLE schema

Aggregate(lower) == [kind |-> "aggregate", lower |-> lower]
NamedType(name) == [kind |-> "named", name |-> name]
OtherType == [kind |-> "other"]

(* position: of entities of one name, the last.                             *)
PositionOf(name) ==
  LET named == {i \in DOMAIN schema.entities : schema.entities[i].name = name}
  IN  {i \in named : \A j \in named : j <= i}

EntityAt(name) == schema.entities[CHOOSE i \in PositionOf(name) : TRUE]

-----------------------------------------------------------------------------
(* visit, with the path of the recursion: its depth is the path's length.   *)
Unvisited == [path |-> << >>, seen |-> {}, order |-> << >>, ok |-> TRUE]

Visiting(v, name) ==
  LET at == PositionOf(name)
      i == CHOOSE j \in at : TRUE
  IN  IF ~v.ok \/ at = {} THEN [v EXCEPT !.ok = FALSE]
      ELSE IF i \in v.seen THEN v
      ELSE IF Len(v.path) > MaxInheritance THEN [v EXCEPT !.ok = FALSE]
      ELSE [v EXCEPT !.path = Append(@, [at |-> i, next |-> 1]), !.seen = @ \cup {i}]

(* The next supertype of the entity on top, or the entity itself after them. *)
VisitStep(v) ==
  LET top == Last(v.path)
      supertypes == schema.entities[top.at].supertypes
  IN  IF v.path = << >> \/ ~v.ok THEN v
      ELSE IF top.next <= Len(supertypes)
           THEN Visiting([v EXCEPT !.path[Len(v.path)].next = @ + 1], supertypes[top.next])
      ELSE [v EXCEPT !.path = Front(@), !.order = Append(@, top.at)]

(* Each entity is entered once, and then each of its supertypes is looked at. *)
Visited(v) ==
  LET enough == FoldLeft(LAMBDA n, e : n + 1 + Len(e.supertypes), 0, schema.entities)
      after[n \in Nat] == IF n = 0 THEN v ELSE VisitStep(after[n - 1])
  IN  after[enough]

(* closure: supertypes before subtypes, each once.                          *)
ClosureOf(roots) ==
  LET visits == FoldLeft(LAMBDA v, root : Visited(Visiting(v, root)), Unvisited, roots)
  IN  IF visits.ok THEN {visits.order} ELSE {}

-----------------------------------------------------------------------------
(* declaring: the entity whose attribute a redeclaration means.             *)
Declares(i, attribute) == \E a \in ToSet(schema.entities[i].attributes) : a.name = attribute

Declaring(reference) ==
  UNION {LET declaring == {k \in DOMAIN order : Declares(order[k], reference.attribute)}
         IN  {order[k] : k \in {j \in declaring : \A l \in declaring : l <= j}} :
           order \in ClosureOf(<<reference.entity>>)}

(* Mutant of Redeclared: the least specific redeclaration wins.             *)
RedeclaredFirst(order, i, attribute) ==
  LET all == FlattenSeq([k \in DOMAIN order |-> schema.entities[order[k]].redeclared])
      mine == SelectSeq(all, LAMBDA r : r.attribute = attribute /\ i \in Declaring(r))
  IN  IF mine = << >> THEN {} ELSE {Head(mine).ty}

(* overrides, of one attribute: the last redeclaration wins.                *)
Redeclared(order, i, attribute) ==
  LET all == FlattenSeq([k \in DOMAIN order |-> schema.entities[order[k]].redeclared])
      mine == SelectSeq(all, LAMBDA r : r.attribute = attribute /\ i \in Declaring(r))
  IN  IF mine = << >> THEN {} ELSE {Last(mine).ty}

IsDerived(order, i, attribute) ==
  \E k \in DOMAIN order : \E d \in ToSet(schema.entities[order[k]].derived) :
    d.attribute = attribute /\ i \in Declaring(d)

(* min_len: along the names of defined types, as far as the limit.          *)
Underlying(ty) ==
  IF ty.kind = "named" /\ ty.name \in DOMAIN schema.types THEN schema.types[ty.name] ELSE ty

MinLen(ty) ==
  LET after[n \in Nat] == IF n = 0 THEN ty ELSE Underlying(after[n - 1])
      found == after[MaxInheritance - 1]
  IN  IF found.kind = "aggregate" THEN found.lower ELSE {}

OwnSlots(i, order) ==
  LET entity == schema.entities[i]
      TypeOf(a) == LET ty == Redeclared(order, i, a.name) IN IF ty = {} THEN a.ty ELSE CHOOSE t \in ty : TRUE
  IN  [k \in DOMAIN entity.attributes |->
         LET a == entity.attributes[k]
         IN  [entity |-> entity.name, name |-> a.name, optional |-> a.optional,
              derived |-> IsDerived(order, i, a.name), min_len |-> MinLen(TypeOf(a))]]

(* slots and complex_slots. *)
Slots(entity) ==
  {FlattenSeq([k \in DOMAIN order |-> OwnSlots(order[k], order)]) : order \in ClosureOf(<<entity>>)}

ComplexSlots(partials) ==
  {[k \in DOMAIN partials |-> OwnSlots(CHOOSE i \in PositionOf(partials[k]) : TRUE, order)] :
     order \in ClosureOf(partials)}

-----------------------------------------------------------------------------
(* An entity and all that it is a subtype of, declared or not.              *)
Supertypes(name) == UNION {ToSet(schema.entities[i].supertypes) : i \in PositionOf(name)}

Family(name) ==
  LET up[n \in Nat] == IF n = 0 THEN {name} ELSE up[n - 1] \cup UNION {Supertypes(m) : m \in up[n - 1]}
  IN  up[Len(schema.entities)]

(* No way up is longer than the limit.                                      *)
IsShallow(name) ==
  LET at[n \in Nat] == IF n = 0 THEN {name} ELSE UNION {Supertypes(m) : m \in at[n - 1]}
  IN  at[MaxInheritance + 1] = {}

IsKnown(name) == \A m \in Family(name) : PositionOf(m) # {}
IsRead(name) == IsKnown(name) /\ IsShallow(name)

(* What a family says of an attribute of one of its members: the type in    *)
(* the most specific redeclaration, if there is a single most specific one. *)
Means(reference, entity, attribute) ==
  reference.attribute = attribute /\ \E i \in Declaring(reference) : schema.entities[i].name = entity

Redeclarers(family, entity, attribute) ==
  {m \in family : \E r \in ToSet(EntityAt(m).redeclared) : Means(r, entity, attribute)}

MostSpecific(family, entity, attribute) ==
  LET redeclarers == Redeclarers(family, entity, attribute)
  IN  {m \in redeclarers : redeclarers \subseteq Family(m)}

SlotIsRight(slot, family) ==
  LET redeclarers == Redeclarers(family, slot.entity, slot.name)
      Said(m) == {r.ty : r \in {s \in ToSet(EntityAt(m).redeclared) : Means(s, slot.entity, slot.name)}}
      Declared == {a.ty : a \in {b \in ToSet(EntityAt(slot.entity).attributes) : b.name = slot.name}}
  IN  /\ slot.derived <=> \E m \in family : \E d \in ToSet(EntityAt(m).derived) : Means(d, slot.entity, slot.name)
      /\ redeclarers = {} => \E ty \in Declared : slot.min_len = MinLen(ty)
      /\ \A m \in MostSpecific(family, slot.entity, slot.name) : \E ty \in Said(m) : slot.min_len = MinLen(ty)

(* A record's layout has every attribute of its family once, those of a      *)
(* supertype before those of its subtypes, and each slot says what the most  *)
(* specific redeclaration says; and a complex instance that spells out a     *)
(* whole family, in whatever order, says the same of each.                  *)
LayoutsCompose ==
  \A name \in {schema.entities[i].name : i \in DOMAIN schema.entities} : IsRead(name) =>
    LET family == Family(name)
        Attributes == UNION {{<<m, a.name>> : a \in ToSet(EntityAt(m).attributes)} : m \in family}
        spelled == {s \in [1..Cardinality(family) -> family] : IsInjective(s)}
    IN  /\ \E slots \in Slots(name) :
             /\ {<<slots[k].entity, slots[k].name>> : k \in DOMAIN slots} = Attributes
             /\ Len(slots) = Cardinality(Attributes)
             /\ \A k \in DOMAIN slots : \A j \in 1..k - 1 :
                  slots[j].entity # slots[k].entity => slots[k].entity \notin Family(slots[j].entity)
             /\ \A k \in DOMAIN slots : SlotIsRight(slots[k], family)
        /\ \A s \in spelled : \E layout \in ComplexSlots(s) : \A k \in DOMAIN s :
             /\ Len(layout[k]) = Len(EntityAt(s[k]).attributes)
             /\ \A j \in DOMAIN layout[k] : layout[k][j].entity = s[k] /\ SlotIsRight(layout[k][j], family)

-----------------------------------------------------------------------------
VARIABLES checked, layouts, problems

checking == <<checked, layouts, problems>>

StartCheck == checked = 0 /\ layouts = << >> /\ problems = << >>

(* Mutant of Key: a complex instance of one record is taken for a simple one. *)
KeyOfNames(id) == Entity(id)

Key(id) == <<IsComplex(id), Entity(id)>>

(* Of a simple instance the whole inherited layout, of a complex one each    *)
(* record's own.                                                           *)
LayoutOf(id) ==
  IF IsComplex(id) THEN ComplexSlots(Entity(id)) ELSE {<<slots>> : slots \in Slots(FirstRecord(id).name)}

-----------------------------------------------------------------------------
UnknownEntity(id) ==
  LET unresolved == SelectSeq(Entity(id), LAMBDA name : Slots(name) = {})
  IN  [instance |-> id, kind |-> "unknown",
       entity |-> IF unresolved # << >> THEN Head(unresolved) ELSE FirstRecord(id).name]

AttributeCount(id, record, slots) ==
  [instance |-> id, kind |-> "count", entity |-> record.name,
   expected |-> Len(slots), found |-> Len(record.params)]

TooFew(id, record, slot, min, items) ==
  [instance |-> id, kind |-> "too_few", entity |-> record.name,
   attribute |-> slot.name, min |-> min, found |-> Len(items)]

InRecord(id, record, slots) ==
  LET TooFewAt(k) == {TooFew(id, record, slots[k], min, items) :
                        min \in slots[k].min_len, items \in Items(record.params[k])}
      short == [k \in DOMAIN slots |-> {p \in TooFewAt(k) : p.found < p.min}]
  IN  IF Len(record.params) # Len(slots) THEN <<AttributeCount(id, record, slots)>>
      ELSE FlattenSeq([k \in DOMAIN slots |-> SetToSeq(short[k])])

InInstance(id, layout) ==
  IF layout = {} THEN <<UnknownEntity(id)>>
  ELSE LET slots == CHOOSE each \in layout : TRUE
       IN  FlattenSeq([k \in DOMAIN slots |-> InRecord(id, file[id].records[k], slots[k])])

NextChecked == InOrder(DOMAIN file)[checked + 1]

CheckInstance ==
  /\ checked < Cardinality(DOMAIN file) /\ checked' = checked + 1
  /\ layouts' = IF Key(NextChecked) \in DOMAIN layouts THEN layouts
                ELSE (Key(NextChecked) :> LayoutOf(NextChecked)) @@ layouts
  /\ problems' = problems \o InInstance(NextChecked, layouts'[Key(NextChecked)])

-----------------------------------------------------------------------------
(* How many attributes a record of the instance must have: of a simple       *)
(* instance those of all the family, of a complex one the entity's own.     *)
Expected(id, name) ==
  LET Own(entity) == Len(EntityAt(entity).attributes)
  IN  IF IsComplex(id) THEN Own(name) ELSE FoldSet(LAMBDA entity, n : n + Own(entity), 0, Family(name))

ProblemsIn(id, kind) == {p \in ToSet(problems) : p.instance = id /\ p.kind = kind}

(* Each instance has the problems it would have alone, whatever came before  *)
(* it: an unknown entity is reported for a family that is not all declared,  *)
(* and names one; otherwise each record is held to its own number of         *)
(* attributes, and each of its lists to the bound of its slot.               *)
ProblemsExact ==
  /\ \A i, j \in DOMAIN problems : i < j => problems[i].instance <= problems[j].instance
  /\ \A n \in 1..checked :
       LET id == InOrder(DOMAIN file)[n]
           names == ToSet(Entity(id))
           records == file[id].records
           miscounted == {k \in DOMAIN records : Len(records[k].params) # Expected(id, records[k].name)}
           Short(k, slots) ==
             {<<records[k].name, slots[j].name>> :
                j \in {i \in DOMAIN slots : \E min \in slots[i].min_len, items \in Items(records[k].params[i]) :
                                             Len(items) < min}}
       IN  IF \E name \in names : ~IsKnown(name)
           THEN /\ Cardinality({i \in DOMAIN problems : problems[i].instance = id}) = 1
                /\ \E p \in ProblemsIn(id, "unknown") : p.entity \in names /\ ~IsKnown(p.entity)
           ELSE (\A name \in names : IsRead(name)) =>
                /\ ProblemsIn(id, "unknown") = {}
                /\ {p.entity : p \in ProblemsIn(id, "count")} = {records[k].name : k \in miscounted}
                /\ \A alone \in LayoutOf(id) :
                     {<<p.entity, p.attribute>> : p \in ProblemsIn(id, "too_few")}
                       = UNION {Short(k, alone[k]) : k \in DOMAIN records \ miscounted}
=============================================================================
