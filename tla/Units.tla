-------------------------------- MODULE Units --------------------------------
(***************************************************************************)
(* The units of representation contexts (src/src/units.rs): named units,   *)
(* conversion-based ones through their chain of base units, a context's    *)
(* unit of each kind, and its uncertainties.                               *)
(*                                                                         *)
(*   unit     [kind |-> kind, factor |-> decimal]                          *)
(*   decimal  m * 10^e, with no factor 10 left in m: a factor to the        *)
(*            millimetre, radian or steradian.  Beyond 10^MaxExponent it is *)
(*            not finite, below 10^-MaxExponent zero.                      *)
(*   context  [context, dimension, units |-> [kinds -> outcome of a unit], *)
(*            uncertainty |-> outcome]                                     *)
(***************************************************************************)
EXTENDS Records

CONSTANTS MaxConversionDepth, MaxExponent

ASSUME UnitLimits == MaxConversionDepth \in Nat /\ MaxExponent \in Nat

Kinds == {"length", "plane_angle", "solid_angle"}

Decimal(m, e) ==
  LET k == CHOOSE n \in 0..9 : (m % 10 ^ n = 0 /\ (m = 0 \/ m % 10 ^ (n + 1) # 0))
  IN  IF m = 0 THEN [m |-> 0, e |-> 0] ELSE [m |-> m \div 10 ^ k, e |-> e + k]

Times(number, factor) == Decimal(number * factor.m, factor.e)
IsPositive(factor) == factor.m > 0 /\ factor.e \in -MaxExponent..MaxExponent

-----------------------------------------------------------------------------
(* What records say about a unit's kind.  The other quantities stand for    *)
(* every *_UNIT without _WITH_ that is none of those read.                 *)
KindRecords == ("LENGTH_UNIT" :> "length") @@ ("PLANE_ANGLE_UNIT" :> "plane_angle")
                 @@ ("SOLID_ANGLE_UNIT" :> "solid_angle")
OtherQuantities == {"MASS_UNIT", "AREA_UNIT", "DERIVED_UNIT"}

DeclaredKinds(id) == {KindRecords[name] : name \in ToSet(Entity(id)) \cap DOMAIN KindRecords}
IsOtherQuantity(id) == HasAny(id, OtherQuantities)

(* is_si_name, si_kind: the names of the three kinds, and of others.        *)
SiKinds == ("METRE" :> "length") @@ ("RADIAN" :> "plane_angle") @@ ("STERADIAN" :> "solid_angle")
SiNames == DOMAIN SiKinds \cup {"GRAM", "SECOND"}

(* si_factor: a power of ten; a metre is a thousand millimetres.            *)
SiPrefixes ==
  LET names == <<"EXA", "PETA", "TERA", "GIGA", "MEGA", "KILO", "HECTO", "DECA",
                 "DECI", "CENTI", "MILLI", "MICRO", "NANO", "PICO", "FEMTO", "ATTO">>
      powers == <<18, 15, 12, 9, 6, 3, 2, 1, -1, -2, -3, -6, -9, -12, -15, -18>>
  IN  [name \in ToSet(names) |-> powers[CHOOSE i \in DOMAIN names : names[i] = name]]

SiFactor(kind, power) == Decimal(1, IF kind = "length" THEN power + 3 ELSE power)

(* check: evidence of a kind, or of an angle of either kind.                *)
Check(id, kind, evidence) ==
  IF IF evidence = "angle" THEN kind = "length" ELSE evidence # kind
  THEN Failed("KindMismatch", id) ELSE Ok(kind)

Checks(id, kind, evidence) == [i \in DOMAIN evidence |-> Check(id, kind, evidence[i])]

(* Read::dimensions: the evidence of named_unit.dimensions, if not derived. *)
Dimensions(id, p) ==
  LET exponents == p.ref
      params == IF IsSimple(exponents, "DIMENSIONAL_EXPONENTS")
                THEN ExactParams(FirstRecord(exponents), 7) ELSE {}
      Stated(values) == \E ps \in params : \A i \in 1..7 : ps[i].value = values[i]
  IN  IF p.kind = "derived" THEN Ok(<< >>)
      ELSE IF p.kind # "reference" THEN Failed("Malformed", id)
      ELSE IF ~Defined(exponents) THEN Failed("Undefined", exponents)
      ELSE IF \A ps \in params : \E i \in 1..7 : Number(ps[i]) = {}
      THEN Failed("Malformed", exponents)
      ELSE IF Stated(<<1, 0, 0, 0, 0, 0, 0>>) THEN Ok(<<"length">>)
      ELSE IF Stated(<<0, 0, 0, 0, 0, 0, 0>>) THEN Ok(<<"angle">>)
      ELSE Failed("Malformed", exponents)

(* The checks of the dimensions a unit states, if it states any.            *)
DimensionChecks(id, kind, stated) ==
  IF stated = {} THEN Ok(kind)
  ELSE Then(Dimensions(id, CHOOSE p \in stated : TRUE),
            LAMBDA evidence : Provided(Checks(id, kind, evidence), kind))

-----------------------------------------------------------------------------
(* measure_subtype, and the types of a measure's value.                    *)
MeasureSubtypes ==
  [name \in {"MEASURE_WITH_UNIT", "RATIO_MEASURE_WITH_UNIT"} |-> "neutral"]
    @@ [name \in {"LENGTH_MEASURE_WITH_UNIT", "POSITIVE_LENGTH_MEASURE_WITH_UNIT"} |-> "length"]
    @@ [name \in {"PLANE_ANGLE_MEASURE_WITH_UNIT", "POSITIVE_PLANE_ANGLE_MEASURE_WITH_UNIT"} |-> "plane_angle"]
    @@ [name \in {"SOLID_ANGLE_MEASURE_WITH_UNIT"} |-> "solid_angle"]
    @@ [name \in {"TIME_MEASURE_WITH_UNIT", "UNCERTAINTY_MEASURE_WITH_UNIT"} |-> "other"]
ValueTypes ==
  [name \in {"LENGTH_MEASURE", "POSITIVE_LENGTH_MEASURE"} |-> <<"length">>]
    @@ [name \in {"PLANE_ANGLE_MEASURE", "POSITIVE_PLANE_ANGLE_MEASURE"} |-> <<"plane_angle">>]
    @@ [name \in {"SOLID_ANGLE_MEASURE"} |-> <<"solid_angle">>]
    @@ [name \in {"RATIO_MEASURE", "POSITIVE_RATIO_MEASURE"} |-> << >>]

(* measure_value: the number, and the kinds its type names or why it fits   *)
(* none.                                                                   *)
MeasureNumber(id, p) ==
  LET typed == p.kind = "typed"
      kinds == IF ~typed THEN Ok(<< >>)
               ELSE IF p.name \in DOMAIN ValueTypes THEN Ok(ValueTypes[p.name])
               ELSE Failed("Malformed", id)
  IN  {[value |-> v, kinds |-> kinds] : v \in Number(IF typed THEN p.param ELSE p)}

SubtypesOf(id) ==
  LET typed == SelectSeq(Entity(id), LAMBDA name : name \in DOMAIN MeasureSubtypes)
  IN  [i \in DOMAIN typed |-> MeasureSubtypes[typed[i]]]
KindsAmong(subtypes) == SelectSeq(subtypes, LAMBDA s : s \in Kinds)

(* factor_measure: the conversion factor of a unit.                        *)
FactorMeasure(id) ==
  LET base == IF IsComplex(id) THEN Partial(id, "MEASURE_WITH_UNIT")
              ELSE {r \in RecordsOf(id) : r.name \in DOMAIN MeasureSubtypes}
      params == UNION {ExactParams(r, 2) : r \in base}
      numbers == UNION {MeasureNumber(id, ps[1]) : ps \in params}
      number == CHOOSE n \in numbers : TRUE
      units == UNION {Reference(ps[2]) : ps \in params}
  IN  IF ~Defined(id) THEN Failed("Undefined", id)
      ELSE IF RepeatsPartial(id) \/ "other" \in ToSet(SubtypesOf(id)) \/ numbers = {}
      THEN Failed("Malformed", id)
      ELSE Then(number.kinds,
                LAMBDA kinds : IF units = {} THEN Failed("Malformed", id)
                               ELSE Ok([value |-> number.value, unit |-> CHOOSE u \in units : TRUE,
                                        kinds |-> KindsAmong(SubtypesOf(id)) \o kinds]))

-----------------------------------------------------------------------------
(* Read::si: what SI_UNIT says, after the dimensions of a simple one.       *)
Si(id, named) ==
  LET r == CHOOSE x \in Partial(id, "SI_UNIT") : TRUE
      params == ExactParams(r, IF IsComplex(id) THEN 2 ELSE 3)
      ps == CHOOSE x \in params : TRUE
      dimensions == IF IsComplex(id) THEN named ELSE {ps[1]}
      prefix == ps[Len(ps) - 1]
      name == ps[Len(ps)].value
      kind == SiKinds[name]
  IN  IF \/ params = {}
         \/ prefix.kind \notin {"unset", "enumeration"}
         \/ ps[Len(ps)].kind # "enumeration" \/ name \notin SiNames
      THEN Failed("Malformed", id)
      ELSE IF name \notin DOMAIN SiKinds THEN Failed("Unsupported", id)
      ELSE IF ~DeclaredKinds(id) \subseteq {kind} THEN Failed("KindMismatch", id)
      ELSE Then(DimensionChecks(id, kind, dimensions),
                LAMBDA k : IF prefix.kind = "enumeration" /\ prefix.value \notin DOMAIN SiPrefixes
                           THEN Failed("Malformed", id)
                           ELSE Ok([kind |-> k,
                               factor |-> SiFactor(k, IF prefix.kind = "unset" THEN 0
                                                           ELSE SiPrefixes[prefix.value])]))

(* Read::conversion, over its base unit.                                    *)
Converted(id, measure, factor, base, dimensions) ==
  LET kind == CHOOSE k \in IF DeclaredKinds(id) = {} THEN {base.kind} ELSE DeclaredKinds(id) : TRUE
      value == Times(measure.value, base.factor)
  IN  Then(Provided(Checks(id, kind, <<base.kind>> \o measure.kinds), kind),
           LAMBDA k : Then(DimensionChecks(id, k, dimensions),
             LAMBDA j : IF ~IsPositive(value) THEN Failed("NotPositive", factor)
                        ELSE Ok([kind |-> j, factor |-> value])))

(* The guards of unit_at, and what is left to read: SI or conversion-based. *)
Form(id) ==
  LET named == Partial(id, "NAMED_UNIT")
  IN  IF RepeatsPartial(id) \/ Cardinality(DeclaredKinds(id)) > 1 THEN Failed("Malformed", id)
      ELSE IF IsOtherQuantity(id) \/ Has(id, "CONTEXT_DEPENDENT_UNIT") THEN Failed("Unsupported", id)
      ELSE IF IsComplex(id) /\ \E r \in named : Len(r.params) # 1 THEN Failed("Malformed", id)
      ELSE IF Has(id, "SI_UNIT") /\ Has(id, "CONVERSION_BASED_UNIT") THEN Failed("Malformed", id)
      ELSE IF Has(id, "SI_UNIT") THEN Ok("si")
      ELSE IF Has(id, "CONVERSION_BASED_UNIT") THEN Ok("conversion")
      ELSE IF DeclaredKinds(id) # {} \/ named # {} THEN Failed("Unsupported", id)
      ELSE Failed("NotAUnit", id)

NamedDimensions(id) == {r.params[1] : r \in IF IsComplex(id) THEN Partial(id, "NAMED_UNIT") ELSE {}}

(* The dimensions and the factor of a CONVERSION_BASED_UNIT.                *)
ConversionParams(id) ==
  LET params == UNION {ExactParams(r, IF IsComplex(id) THEN 2 ELSE 3) :
                         r \in Partial(id, "CONVERSION_BASED_UNIT")}
  IN  {[dimensions |-> IF IsComplex(id) THEN NamedDimensions(id) ELSE {ps[1]},
        factor |-> ps[Len(ps)].ref] :
         ps \in {x \in params : x[Len(x) - 1].kind = "string" /\ x[Len(x)].kind = "reference"}}

TooDeep(depth) == depth > MaxConversionDepth

(* unit_at, along the chain of base units.                                 *)
UnitAt[id \in Nat, depth \in Nat] ==
  IF TooDeep(depth) THEN Failed("TooDeep", id)
  ELSE IF ~Defined(id) THEN Failed("Undefined", id)
  ELSE Then(Form(id), LAMBDA form :
    IF form = "si" THEN Si(id, NamedDimensions(id))
    ELSE IF ConversionParams(id) = {} THEN Failed("Malformed", id)
    ELSE LET c == CHOOSE x \in ConversionParams(id) : TRUE
         IN  Then(FactorMeasure(c.factor), LAMBDA measure :
               Then(UnitAt[measure.unit, depth + 1], LAMBDA base :
                 Converted(id, measure, c.factor, base, c.dimensions))))

Unit(id) == UnitAt[id, 0]

-----------------------------------------------------------------------------
(* declared_kind: what kind an unreadable unit would have been.             *)
StatesLengthOrAngle(id) ==
  \E factor \in UNION {Reference(Last(r.params)) :
                         r \in {x \in Partial(id, "CONVERSION_BASED_UNIT") : x.params # << >>}} :
    LET measure == FactorMeasure(factor)
    IN  measure.ok /\ (measure.value.kinds # << >> \/ UnitAt[measure.value.unit, 1].ok)

SiName(id) ==
  UNION {IF r.params # << >> /\ Last(r.params).kind = "enumeration" THEN {Last(r.params).value} ELSE {} :
           r \in Partial(id, "SI_UNIT")}

DeclaredKind(id) ==
  IF ~Defined(id) THEN "unknown"
  ELSE IF RepeatsPartial(id) \/ Cardinality(DeclaredKinds(id)) > 1 THEN "unknown"
  ELSE IF DeclaredKinds(id) # {} THEN CHOOSE k \in DeclaredKinds(id) : TRUE
  ELSE IF Has(id, "SI_UNIT")
       THEN IF SiName(id) \cap DOMAIN SiKinds # {} /\ ~IsOtherQuantity(id)
            THEN SiKinds[CHOOSE n \in SiName(id) : TRUE]
            ELSE IF SiName(id) \cap (SiNames \ DOMAIN SiKinds) # {} THEN "other" ELSE "unknown"
  ELSE IF IsOtherQuantity(id) /\ ~StatesLengthOrAngle(id) THEN "other" ELSE "unknown"

(* Mutant of Refuses: an unreadable unit refuses the kind it declares only. *)
RefusesDeclared(id, kind) == DeclaredKind(id) = kind

(* An unreadable unit refuses the kind it declares, or every kind.          *)
Refuses(id, kind) == DeclaredKind(id) \in {kind, "unknown"}

(* context_units, for one kind: read holds each listed unit with its outcome. *)
KindUnit(context, kind, read) ==
  LET found == {r[2].value : r \in {x \in read : x[2].ok /\ x[2].value.kind = kind}}
  IN  IF \E r \in read : ~r[2].ok /\ Refuses(r[1], kind) THEN Failed("Unreadable", context)
      ELSE IF found = {} THEN Failed("Missing", context)
      ELSE IF Cardinality(found) > 1 THEN Failed("Ambiguous", context)
      ELSE Ok(CHOOSE unit \in found : TRUE)

-----------------------------------------------------------------------------
(* read_uncertainty. *)
UncertaintyParams(id) ==
  IF IsComplex(id)
  THEN {a \o b : a \in UNION {ExactParams(r, 2) : r \in Partial(id, "MEASURE_WITH_UNIT")},
                 b \in UNION {ExactParams(r, 2) : r \in Partial(id, "UNCERTAINTY_MEASURE_WITH_UNIT")}}
  ELSE UNION {ExactParams(r, 4) : r \in {x \in {FirstRecord(id)} : x.name = "UNCERTAINTY_MEASURE_WITH_UNIT"}}

UncertaintyOf(id, ps, unit, kinds) ==
  LET subtypes == IF ~IsComplex(id) THEN << >>
                  ELSE LET names == SelectSeq(Entity(id), LAMBDA n : n # "UNCERTAINTY_MEASURE_WITH_UNIT"
                                                                      /\ n \in DOMAIN MeasureSubtypes)
                       IN  [i \in DOMAIN names |-> MeasureSubtypes[names[i]]]
      checks == Checks(id, unit.kind, kinds)
                  \o [i \in DOMAIN subtypes |->
                        IF subtypes[i] = "other" THEN Failed("Malformed", id)
                        ELSE IF subtypes[i] = "neutral" THEN Ok(unit.kind)
                        ELSE Check(id, unit.kind, subtypes[i])]
      number == (CHOOSE n \in MeasureNumber(id, ps[1]) : TRUE).value
      value == Times(number, unit.factor)
  IN  Then(Provided(checks, value), LAMBDA v :
        IF ps[3].kind # "string" \/ ps[4].kind \notin {"unset", "string"} THEN Failed("Malformed", id)
        ELSE IF ~IsPositive(v) THEN Failed("NotPositive", id)
        ELSE Ok([name |-> ps[3].text, kind |-> unit.kind, value |-> v]))

Uncertainty(id) ==
  LET params == UncertaintyParams(id)
      ps == CHOOSE x \in params : TRUE
      numbers == MeasureNumber(id, ps[1])
  IN  IF ~Defined(id) THEN Failed("Undefined", id)
      ELSE IF RepeatsPartial(id) \/ params = {} \/ numbers = {} \/ Reference(ps[2]) = {}
      THEN Failed("Malformed", id)
      ELSE Then(Unit(ps[2].ref), LAMBDA unit :
             Then((CHOOSE n \in numbers : TRUE).kinds, LAMBDA kinds :
               UncertaintyOf(id, ps, unit, kinds)))

-----------------------------------------------------------------------------
(* A context's own attribute in one of its records, and a set of references. *)
ContextTypes == {"REPRESENTATION_CONTEXT", "GEOMETRIC_REPRESENTATION_CONTEXT",
                 "GLOBAL_UNIT_ASSIGNED_CONTEXT", "GLOBAL_UNCERTAINTY_ASSIGNED_CONTEXT"}

Own(context, name) ==
  {IF ExactParams(r, IF IsComplex(context) THEN 1 ELSE 3) = {} THEN Failed("Malformed", context)
   ELSE Ok(Last(r.params)) : r \in Partial(context, name)}

ReferenceSet(context, p) ==
  IF p.kind # "list" THEN Failed("Malformed", context)
  ELSE IF p.items = << >> \/ Len(Held(p)) # Len(p.items) THEN Failed("Malformed", context)
  ELSE Ok(Held(p))

(* The set an attribute lists; none if the context has no such record.      *)
ListedIn(context, name) ==
  LET own == Own(context, name)
  IN  IF own = {} THEN Ok(<< >>)
      ELSE Then(CHOOSE o \in own : TRUE, LAMBDA p : ReferenceSet(context, p))

ContextDimension(context) ==
  LET own == Own(context, "GEOMETRIC_REPRESENTATION_CONTEXT")
  IN  IF own = {} THEN Ok({})
      ELSE Then(CHOOSE o \in own : TRUE, LAMBDA p :
             IF p.kind = "integer" /\ Number(p) \subseteq Nat \ {0} THEN Ok({p.value})
             ELSE Failed("Malformed", context))

(* ContextUnits::of_context. *)
OfContext(context) ==
  LET units == ListedIn(context, "GLOBAL_UNIT_ASSIGNED_CONTEXT")
  IN  IF ~Defined(context) THEN Failed("Undefined", context)
      ELSE IF ~HasAny(context, ContextTypes) THEN Failed("NotAContext", context)
      ELSE IF RepeatsPartial(context) THEN Failed("Malformed", context)
      ELSE Then(ContextDimension(context), LAMBDA dimension :
             Ok([context |-> context, dimension |-> dimension,
                 units |->
                   LET read == {<<id, Unit(id)>> : id \in ToSet(units.value)}
                   IN  [kind \in Kinds |-> IF units.ok THEN KindUnit(context, kind, read) ELSE units],
                 uncertainty |->
                   Then(ListedIn(context, "GLOBAL_UNCERTAINTY_ASSIGNED_CONTEXT"), LAMBDA ids :
                     AllOk([i \in DOMAIN ids |-> Uncertainty(ids[i])]))]))

(* representation_context, ContextUnits::of_representation.                 *)
RepresentationContext(id) ==
  IF ~Defined(id) THEN Failed("Undefined", id)
  ELSE IF Representation(id) = {} THEN Failed("NotARepresentation", id)
  ELSE LET context == (CHOOSE r \in Representation(id) : TRUE).context
       IN  IF ~Defined(context) THEN Failed("Undefined", context)
           ELSE IF ~HasAny(context, ContextTypes) THEN Failed("NotAContext", context)
           ELSE Ok(context)

OfRepresentation(id) == Then(RepresentationContext(id), LAMBDA context : OfContext(context))
=============================================================================
