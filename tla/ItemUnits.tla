------------------------------- MODULE ItemUnits -------------------------------
(***************************************************************************)
(* ContextUnits::of_item (src/src/units.rs): the units of an item of        *)
(* geometry.  The walk goes up from the item through everything that holds *)
(* it to the representations that list it; their contexts must agree.      *)
(* One step visits one user of one instance on the way.                    *)
(***************************************************************************)
EXTENDS Units

VARIABLES item, pc, stack, held, pending, seen, listed, found, contexts, outcome

climb == <<stack, held, pending, seen, listed, found>>
itemUnits == <<item, pc, climb, contexts, outcome>>

-----------------------------------------------------------------------------
(* Entity types whose name contains REPRESENTATION.                        *)
RepresentationTypes == {"REPRESENTATION", "SHAPE_REPRESENTATION", "DRAUGHTING_MODEL_REPRESENTATION"}

HoldsAs(kind, ids) == [kind |-> kind, ids |-> ids]
HoldsNothing == HoldsAs("no", << >>)

(* The second attribute's references, if it is a list, and the third's.     *)
ListedIds(r) == {Held(p) : p \in {q \in ParamAt(r, 2) : q.kind = "list"}}
NamesContext(r) == \E c \in ReferenceAt(r, 3) : ~Defined(c) \/ HasAny(c, ContextTypes)

(* holding, of a simple instance.                                          *)
SimpleHolding(user, r) ==
  LET lists == ListedIds(r)
      ids == CHOOSE l \in lists : TRUE
  IN  IF IsContainer(r)
      THEN IF ContainerHolds(r) = {} THEN Failed("Malformed", user)
           ELSE Ok(HoldsAs("container", CHOOSE c \in ContainerHolds(r) : TRUE))
      ELSE IF lists = {} THEN Ok(HoldsNothing)
      ELSE IF NamesContext(r) \/ r.name \in RepresentationTypes THEN Ok(HoldsAs("representation", ids))
      ELSE IF ReferenceAt(r, 3) # {} THEN Ok(HoldsAs("not_followed", ids))
      ELSE Ok(HoldsNothing)

(* Mutant of Holding: a complex shell or solid holds nothing.               *)
HoldingSimply(user) ==
  IF ~IsComplex(user) THEN SimpleHolding(user, FirstRecord(user))
  ELSE IF Representation(user) = {} THEN Ok(HoldsNothing)
  ELSE Ok(HoldsAs("representation", (CHOOSE r \in Representation(user) : TRUE).items))

(* holding: what a user holds, or why that cannot be told.                  *)
Holding(user) ==
  IF ~IsComplex(user) THEN SimpleHolding(user, FirstRecord(user))
  ELSE IF Has(user, "REPRESENTATION")
       THEN IF Representation(user) = {} THEN Failed("HolderUnreadable", user)
            ELSE Ok(HoldsAs("representation", (CHOOSE r \in Representation(user) : TRUE).items))
  ELSE IF \E r \in RecordsOf(user) : IsContainer(r) THEN Failed("NotFollowed", user)
  ELSE Ok(HoldsNothing)

-----------------------------------------------------------------------------
StartItemUnits ==
  /\ item = 0 /\ pc = "idle" /\ stack = << >> /\ held = 0 /\ pending = << >>
  /\ seen = {} /\ listed = {} /\ found = {} /\ contexts = << >> /\ outcome = << >>

(* Graph::build, of_item, and the start of holders.                         *)
AskUnits(items) ==
  /\ pc = "idle" /\ item' \in items /\ users' = UsersOfFile
  /\ IF Defined(item')
     THEN /\ pc' = "walk" /\ stack' = <<item'>> /\ seen' = {item'}
          /\ UNCHANGED outcome
     ELSE /\ pc' = "done" /\ outcome' = Failed("Undefined", item')
          /\ UNCHANGED <<stack, seen>>
  /\ UNCHANGED <<file, held, pending, listed, found, contexts>>

Walking == pc = "walk"

Pop ==
  /\ Walking /\ pending = << >> /\ stack # << >>
  /\ stack' = Front(stack) /\ held' = Last(stack) /\ pending' = Referrers(Last(stack))
  /\ UNCHANGED <<file, users, item, pc, seen, listed, found, contexts, outcome>>

Refuse(error) ==
  /\ outcome' = error /\ pc' = "done"
  /\ UNCHANGED <<file, users, item, climb, contexts>>

(* One user of the instance on the way.  Every user is read once, and fails *)
(* then if it does.                                                        *)
VisitUser ==
  /\ Walking /\ pending # << >>
  /\ LET user == Head(pending)
         holding == Holding(user)
         reached == held \in ToSet(holding.value.ids)
         context == RepresentationContext(user)
     IN  IF ~holding.ok THEN Refuse(holding)
         ELSE IF holding.value.kind = "not_followed" /\ reached THEN Refuse(Failed("NotFollowed", user))
         ELSE IF holding.value.kind = "representation" /\ reached /\ user \notin listed /\ ~context.ok
         THEN Refuse(Failed("HolderUnreadable", user))
         ELSE LET lists == reached /\ holding.value.kind = "representation"
                  climbs == reached /\ holding.value.kind = "container" /\ user \notin seen
              IN  /\ pending' = Tail(pending)
                  /\ listed' = listed \cup (IF lists THEN {user} ELSE {})
                  /\ found' = found \cup (IF lists THEN {<<user, context.value>>} ELSE {})
                  /\ seen' = seen \cup (IF climbs THEN {user} ELSE {})
                  /\ stack' = stack \o (IF climbs THEN <<user>> ELSE << >>)
                  /\ UNCHANGED <<file, users, item, pc, held, contexts, outcome>>

(* of_context, of every holder's context in file order, each context once.  *)
ReadContexts ==
  /\ Walking /\ pending = << >> /\ stack = << >>
  /\ LET order == InOrder(listed)
         ContextOf(user) == (CHOOSE f \in found : f[1] = user)[2]
         first == SelectSeq([k \in DOMAIN order |-> k],
                            LAMBDA k : \A j \in 1..(k - 1) : ContextOf(order[j]) # ContextOf(order[k]))
         read == AllOk([k \in DOMAIN first |-> OfContext(ContextOf(order[first[k]]))])
     IN  IF ~read.ok THEN Refuse(Failed("HolderUnreadable", read.error.at))
         ELSE IF read.value = << >> THEN Refuse(Failed("NotHeld", item))
         ELSE /\ contexts' = read.value /\ pc' = "agree"
              /\ UNCHANGED <<file, users, item, climb, outcome>>

-----------------------------------------------------------------------------
(* agree, agree_uncertainty.                                               *)
Disagree == Failed("ContextsDisagree", item)

AgreeOn(Field(_), Same(_, _)) ==
  LET fields == [k \in DOMAIN contexts |-> Field(contexts[k])]
  IN  Then(AllOk([k \in DOMAIN fields |->
             IF ~fields[1].ok \/ ~fields[k].ok \/ Same(fields[1].value, fields[k].value)
             THEN fields[k] ELSE Disagree]),
           LAMBDA all : fields[1])

SameUnit(a, b) == a.factor = b.factor
SameUncertainties(a, b) ==
  /\ DOMAIN a = DOMAIN b
  /\ \A i \in DOMAIN a : a[i].name = b[i].name /\ a[i].kind = b[i].kind /\ a[i].value = b[i].value

Agree ==
  /\ pc = "agree"
  /\ IF \E k \in DOMAIN contexts : contexts[k].dimension # contexts[1].dimension
     THEN Refuse(Disagree)
     ELSE Refuse(Ok([units |-> [kind \in Kinds |-> AgreeOn(LAMBDA c : c.units[kind], SameUnit)],
                     uncertainty |-> AgreeOn(LAMBDA c : c.uncertainty, SameUncertainties)]))

NextItemUnits(items) == AskUnits(items) \/ Pop \/ VisitUser \/ ReadContexts \/ Agree

-----------------------------------------------------------------------------
(* What an instance holds for whoever reads the file: a face, shell, solid   *)
(* or model its parts, in one record or in several.  The subset of a set of  *)
(* faces is not held by what it names as its parent.                       *)
PartsOf(id) ==
  UNION {UNION {UNION {ToSet(Held(p)) : p \in ParamAt(r, i)} : i \in 1..3} :
           r \in {x \in RecordsOf(id) : IsContainer(x) /\ x.name # "CONNECTED_FACE_SUB_SET"}}

(* A representation by its layout: items, and a context.                    *)
ListedBy(id) ==
  UNION {ToSet(r.items) : r \in {x \in Representation(id) : HasAny(x.context, ContextTypes)}}

Above == [id \in DOMAIN file |-> {c \in DOMAIN file : id \in PartsOf(c)}]
HoldersOf(id) ==
  LET above == Above
      Reach[n \in Nat] ==
        IF n = 0 THEN {id}
        ELSE LET nearer == Reach[n - 1] IN nearer \cup UNION {above[x] : x \in nearer}
      reached == Reach[Cardinality(DOMAIN file)]
  IN  {r \in DOMAIN file : ListedBy(r) \cap reached # {}}

(* The units found for an item are those of every representation that holds *)
(* it, through whatever shells and solids, in one record or in several: the *)
(* walk up (holders, units.rs:864) misses none.                            *)
NoHolderMissed ==
  outcome # << >> =>
    IF ~outcome.ok THEN outcome.error.kind = "NotHeld" => HoldersOf(item) = {}
    ELSE \A holder \in HoldersOf(item) :
           LET units == OfRepresentation(holder)
           IN  /\ units.ok
               /\ \A kind \in Kinds :
                    outcome.value.units[kind].ok =>
                      /\ units.value.units[kind].ok
                      /\ SameUnit(units.value.units[kind].value, outcome.value.units[kind].value)

(* The SI names at the end of a unit's chain of factors and base units,      *)
(* however long and whatever else the records say.                         *)
BaseOf(id) ==
  UNION {UNION {UNION {Reference(Last(m.params)) : m \in {y \in RecordsOf(factor) : y.params # << >>}} :
                  factor \in Reference(Last(r.params)) \cap DOMAIN file} :
           r \in {x \in RecordsOf(id) : x.name = "CONVERSION_BASED_UNIT"}}

BaseNames(id) ==
  LET Reach[n \in Nat] ==
        IF n = 0 THEN {id}
        ELSE LET nearer == Reach[n - 1] IN nearer \cup UNION {BaseOf(x) : x \in nearer \cap DOMAIN file}
  IN  UNION {SiName(x) : x \in Reach[Cardinality(DOMAIN file)] \cap DOMAIN file}

(* A context has a unit of a kind only if every unit it lists that comes     *)
(* down to the kind's SI unit was read, and as the same factor: none is     *)
(* passed over because it, or its base unit, could not be read             *)
(* (context_units, units.rs:760).  A unit that declares another kind or     *)
(* quantity itself is not one of the kind.                                 *)
NoUnitIgnored ==
  \A k \in DOMAIN contexts : \A kind \in {x \in Kinds : contexts[k].units[x].ok} :
    LET ids == {id \in ToSet(ListedIn(contexts[k].context, "GLOBAL_UNIT_ASSIGNED_CONTEXT").value) :
                  Defined(id)}
    IN  \A id \in ids :
          (/\ \E name \in BaseNames(id) \cap DOMAIN SiKinds : SiKinds[name] = kind
           /\ DeclaredKinds(id) \subseteq {kind} /\ ~IsOtherQuantity(id)) =>
             /\ Unit(id).ok
             /\ SameUnit(Unit(id).value, contexts[k].units[kind].value)
=============================================================================
