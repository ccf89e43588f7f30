------------------------------- MODULE Records -------------------------------
(***************************************************************************)
(* Reading the attributes of instances (src/src/record.rs, and the lookups *)
(* of src/src/p21/exchange.rs and src/src/model/graph.rs that every reader *)
(* goes through).                                                          *)
(*                                                                         *)
(*   file      [instance names -> instance], in ascending order the order  *)
(*             of the file                                                 *)
(*   instance  [complex |-> BOOLEAN, records |-> Seq(record)]              *)
(*   record    [name |-> STRING, params |-> Seq(param)]                    *)
(*                                                                         *)
(* A parameter is a record whose kind says what else it has.  An attribute *)
(* that may be absent is read as a set of at most one value, so that `?`   *)
(* and and_then of the code are unions over it.  Attributes count from 1.  *)
(* Entity names are written in upper case, which is how the code compares  *)
(* them; a name that is referred to and not defined is one a REFERENCE     *)
(* entry defines, as Graph::new refuses any other.                         *)
(*                                                                         *)
(* Results that may be errors.  An error names the instance at fault and   *)
(* what is wrong, and the attribute where the code names it; its text is   *)
(* left out.                                                               *)
(***************************************************************************)
EXTENDS Integers, Sequences, SequencesExt, Order

VARIABLES file, users

(* p21::Param.                                                             *)
Ref(id) == [kind |-> "reference", ref |-> id]
List(items) == [kind |-> "list", items |-> items]
Refs(ids) == List([i \in DOMAIN ids |-> Ref(ids[i])])
Text(string) == [kind |-> "string", text |-> string]
Real(value) == [kind |-> "real", value |-> value]
Integer(value) == [kind |-> "integer", value |-> value]
Enumeration(value) == [kind |-> "enumeration", value |-> value]
Typed(name, param) == [kind |-> "typed", name |-> name, param |-> param]
Unset == [kind |-> "unset"]
Derived == [kind |-> "derived"]

Simple(name, params) ==
  [complex |-> FALSE, records |-> <<[name |-> name, params |-> params]>>]
Complex(records) == [complex |-> TRUE, records |-> records]
Part(name, params) == [name |-> name, params |-> params]

-----------------------------------------------------------------------------
Defined(id) == id \in DOMAIN file
IsExternal(id) == ~Defined(id)

(* Exchange::get. *)
Get(id) == IF Defined(id) THEN {file[id]} ELSE {}

IsComplex(id) == file[id].complex
RecordsOf(id) == ToSet(file[id].records)
FirstRecord(id) == file[id].records[1]

(* record::entity, for comparisons: the entity types in the order written.  *)
Entity(id) == [i \in DOMAIN file[id].records |-> file[id].records[i].name]
Has(id, name) == \E r \in RecordsOf(id) : r.name = name
HasAny(id, names) == \E r \in RecordsOf(id) : r.name \in names
IsSimple(id, name) == Defined(id) /\ ~IsComplex(id) /\ FirstRecord(id).name = name
FirstIs(id, name) == Defined(id) /\ FirstRecord(id).name = name

(* Param::reference, Param::list, record::text. *)
Reference(p) == IF p.kind = "reference" THEN {p.ref} ELSE {}
Items(p) == IF p.kind = "list" THEN {p.items} ELSE {}
String(p) == IF p.kind = "string" THEN {p.text} ELSE {}
Number(p) == IF p.kind \in {"integer", "real"} THEN {p.value} ELSE {}

ParamAt(r, i) == IF i \in DOMAIN r.params THEN {r.params[i]} ELSE {}
ReferenceAt(r, i) == UNION {Reference(p) : p \in ParamAt(r, i)}
TextAt(r, i) == UNION {String(p) : p \in ParamAt(r, i)}

(* What the parameter refers to: the reference, or every one in it, lists    *)
(* of lists being as deep as a Part 21 file of the four schemas goes.       *)
RefsOfItems(p) == IF p.kind = "list" THEN UNION {Reference(q) : q \in ToSet(p.items)} ELSE {}
RefsIn(p) ==
  Reference(p) \cup RefsOfItems(p)
    \cup (IF p.kind = "list" THEN UNION {RefsOfItems(q) : q \in ToSet(p.items)} ELSE {})
    \cup (IF p.kind = "typed" THEN Reference(p.param) \cup RefsOfItems(p.param) ELSE {})

(* record::partial: the first record so named.                              *)
Partial(id, name) ==
  LET named == {i \in DOMAIN file[id].records : file[id].records[i].name = name}
  IN  {file[id].records[i] : i \in {j \in named : \A k \in named : j <= k}}

(* record::primary_record. *)
PrimaryRecord(id, name) ==
  IF Has(id, name) THEN CHOOSE r \in Partial(id, name) : TRUE ELSE FirstRecord(id)

(* record::repeats_partial. *)
RepeatsPartial(id) == IsComplex(id) /\ ~IsInjective(Entity(id))

(* record::exact_params. *)
ExactParams(r, count) == IF Len(r.params) = count THEN {r.params} ELSE {}

(* record::held: the reference, or the references of a list in order.       *)
Held(p) ==
  IF p.kind = "reference" THEN <<p.ref>>
  ELSE IF p.kind = "list"
       THEN LET refs == SelectSeq(p.items, LAMBDA q : q.kind = "reference")
            IN  [i \in DOMAIN refs |-> refs[i].ref]
       ELSE << >>

-----------------------------------------------------------------------------
(* Graph::build and Graph::referenced_by: who names an instance, in file    *)
(* order, found once per file.                                             *)
IdsOf(id) == UNION {UNION {RefsIn(p) : p \in ToSet(r.params)} : r \in RecordsOf(id)}

(* Exchange::instances_of: with a record so named, in file order.           *)
InstancesOf(names) == InOrder({id \in DOMAIN file : HasAny(id, names)})

UsersOfFile ==
  LET named == [id \in DOMAIN file |-> IdsOf(id)]
  IN  [id \in DOMAIN file |-> InOrder({user \in DOMAIN file : id \in named[user]})]

Referrers(id) == IF Defined(id) THEN users[id] ELSE << >>

-----------------------------------------------------------------------------
(* record::representation: the items and the context, or nothing if the     *)
(* instance does not have the layout of a representation.  A subtype's      *)
(* further attributes come after the three.                                *)
RepresentationParams(id) ==
  IF IsComplex(id)
  THEN IF RepeatsPartial(id) THEN {}
       ELSE UNION {ExactParams(r, 3) : r \in Partial(id, "REPRESENTATION")}
  ELSE IF Len(FirstRecord(id).params) < 3 THEN {} ELSE {FirstRecord(id).params}

HasLayout(params) ==
  /\ params[1].kind = "string"
  /\ params[2].kind = "list"
  /\ \A i \in DOMAIN params[2].items : params[2].items[i].kind = "reference"
  /\ params[3].kind = "reference"

Representation(id) ==
  {[items |-> [i \in DOMAIN params[2].items |-> params[2].items[i].ref], context |-> params[3].ref] :
     params \in {p \in IF Defined(id) THEN RepresentationParams(id) ELSE {} : HasLayout(p)}}

-----------------------------------------------------------------------------
(* Which attribute of which face, shell, solid or model holds what: units    *)
(* and topology both walk containment through this table.                  *)
(*                                                                         *)
(* CONTAINERS: the exact number of attributes, and those that hold parts.   *)
Containers ==
  [name \in {"CLOSED_SHELL", "OPEN_SHELL", "CONNECTED_FACE_SET", "MANIFOLD_SOLID_BREP", "FACETED_BREP",
             "SHELL_BASED_SURFACE_MODEL", "FACE_BASED_SURFACE_MODEL"} |-> [params |-> 2, holds |-> <<2>>]]
    @@ [name \in {"CONNECTED_FACE_SUB_SET"} |-> [params |-> 3, holds |-> <<2>>]]
    @@ [name \in {"ORIENTED_FACE", "ORIENTED_CLOSED_SHELL", "ORIENTED_OPEN_SHELL"} |->
          [params |-> 4, holds |-> <<3>>]]
    @@ [name \in {"BREP_WITH_VOIDS"} |-> [params |-> 3, holds |-> <<2, 3>>]]

IsContainer(r) == r.name \in DOMAIN Containers

(* container, exact_params and held: what a container record holds, or      *)
(* nothing if the number of its attributes is wrong.                       *)
ContainerHolds(r) ==
  LET holds == Containers[r.name].holds
  IN  {FlattenSeq([k \in DOMAIN holds |-> Held(params[holds[k]])]) :
         params \in ExactParams(r, Containers[r.name].params)}

-----------------------------------------------------------------------------
(* Outcomes.                                                               *)
Ok(value) == [ok |-> TRUE, value |-> value]
Failed(kind, at) == [ok |-> FALSE, error |-> [kind |-> kind, at |-> at]]

(* `?`: the error, or what follows from the value.                          *)
Then(outcome, Op(_)) == IF outcome.ok THEN Op(outcome.value) ELSE outcome

(* A sequence of checks, each Ok or an error, and then the value.           *)
Provided(checks, value) ==
  LET failed == {i \in DOMAIN checks : ~checks[i].ok}
  IN  IF failed = {} THEN Ok(value) ELSE checks[CHOOSE i \in failed : \A j \in failed : i <= j]

(* collect: the values in order, or the first error.                        *)
AllOk(outcomes) ==
  Provided(outcomes, SubSeq([i \in DOMAIN outcomes |-> outcomes[i].value], 1, Len(outcomes)))
=============================================================================
