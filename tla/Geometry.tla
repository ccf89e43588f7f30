------------------------------ MODULE Geometry -------------------------------
(***************************************************************************)
(* The reader of stated geometry (src/src/geometry.rs): points, directions, *)
(* placements, surfaces and curves, in the units of one context.           *)
(*                                                                         *)
(* `units` is what Units reads for a context.  `from` is the instance that  *)
(* refers to the one read, or the one itself: an instance that is missing  *)
(* is reported there.  An attribute is read by an operator that takes the   *)
(* instance it belongs to, for its errors.                                 *)
(*                                                                         *)
(*   placement   [location, x, y, z, stated]                                *)
(*   surface     [kind, position, sizes]                                   *)
(*                                                                         *)
(* Vectors and rigid transforms (src/src/geometry.rs).  Coordinates are     *)
(* integers; a value beyond MaxReal stands for one that is not finite.     *)
(* A direction is the shortest integer vector along it, and so of length   *)
(* one where it is parallel to an axis: transforms built from such         *)
(* directions are exact.                                                   *)
(*                                                                         *)
(*   transform   [rotation |-> three rows, translation |-> vector]          *)
(***************************************************************************)
EXTENDS Units

CONSTANTS MaxReal, SineScale

ASSUME RealLimits == MaxReal \in Nat /\ SineScale \in Nat \ {0}

Axes == 1..3
Vec(Component(_)) == <<Component(1), Component(2), Component(3)>>
Abs(a) == IF a < 0 THEN -a ELSE a

Dot(a, b) == a[1] * b[1] + a[2] * b[2] + a[3] * b[3]
Cross(a, b) == <<a[2] * b[3] - a[3] * b[2], a[3] * b[1] - a[1] * b[3], a[1] * b[2] - a[2] * b[1]>>
Plus(a, b) == Vec(LAMBDA i : a[i] + b[i])
Minus(a) == Vec(LAMBDA i : -a[i])

(* normalise, of a vector that is not zero.                                *)
Normalised(v) ==
  LET Divides(d) == \A i \in Axes : v[i] % d = 0
      largest == Max({Abs(v[i]) : i \in Axes})
      d == CHOOSE n \in 1..largest : Divides(n) /\ \A k \in (n + 1)..largest : ~Divides(k)
  IN  Vec(LAMBDA i : IF v[i] < 0 THEN -(Abs(v[i]) \div d) ELSE v[i] \div d)

Normalise(v) == IF v = <<0, 0, 0>> THEN {} ELSE {Normalised(v)}

E3 == <<0, 0, 1>>

(* The first_proj_axis of build_axes for a stated direction: the part of it *)
(* that is square to z, or none if it is parallel to z (to within a sine).  *)
ProjectedRef(z, v) ==
  LET normal == Cross(v, z)
  IN  IF Dot(normal, normal) * SineScale * SineScale < Dot(v, v) * Dot(z, z) THEN {}
      ELSE {Vec(LAMBDA i : v[i] * Dot(z, z) - Dot(v, z) * z[i])}

(* Mutant of ProjectedDefault: always (1, 0, 0).                            *)
ProjectedDefaultX(z) ==
  {Vec(LAMBDA i : IF i = 1 THEN z[2] * z[2] + z[3] * z[3] ELSE -(z[1] * z[i]))}

(* By default (1, 0, 0), or (0, 1, 0) if z is along it, less its part along  *)
(* z.                                                                       *)
ProjectedDefault(z) ==
  LET k == IF z \in {<<1, 0, 0>>, <<-1, 0, 0>>} THEN 2 ELSE 1
      Square(i) == z[i] * z[i]
      others == CHOOSE o \in Axes \X Axes : o[1] < o[2] /\ k \notin ToSet(o)
  IN  {Vec(LAMBDA i : IF i = k THEN Square(others[1]) + Square(others[2]) ELSE -(z[k] * z[i]))}

(* build_axes: ref is a set of one stated direction, or of none.            *)
BuildAxes(z, ref) ==
  LET projected == IF ref = {} THEN ProjectedDefault(z) ELSE UNION {ProjectedRef(z, v) : v \in ref}
      xs == UNION {Normalise(p) : p \in projected}
  IN  UNION {{<<x, y>> : y \in Normalise(Cross(z, x))} : x \in xs}

-----------------------------------------------------------------------------
Transform(rotation, translation) == [rotation |-> rotation, translation |-> translation]
Identity == Transform(<< <<1, 0, 0>>, <<0, 1, 0>>, <<0, 0, 1>> >>, <<0, 0, 0>>)

ApplyVector(t, v) == Vec(LAMBDA i : Dot(t.rotation[i], v))
ApplyPoint(t, p) == Plus(ApplyVector(t, p), t.translation)

Column(rotation, i) == Vec(LAMBDA row : rotation[row][i])

(* Mutant of Inverted: the translation is turned round, and not rotated.     *)
InvertedUnturned(t) ==
  Transform(Vec(LAMBDA i : Column(t.rotation, i)), Minus(t.translation))

(* inverse: of a rotation, the transpose.                                   *)
Inverted(t) ==
  LET rotation == Vec(LAMBDA i : Column(t.rotation, i))
  IN  Transform(rotation, Minus(Vec(LAMBDA i : Dot(rotation[i], t.translation))))

(* Mul: applies b first.                                                    *)
Compose(a, b) ==
  Transform(Vec(LAMBDA row : Vec(LAMBDA col : Dot(a.rotation[row], Column(b.rotation, col)))),
            ApplyPoint(a, b.translation))

IsFinite(t) == \A i \in Axes : Abs(t.translation[i]) <= MaxReal

-----------------------------------------------------------------------------
CONSTANTS MinSemiAngle, MaxSemiAngle

ASSUME SemiAngles == MinSemiAngle \in Nat /\ MaxSemiAngle \in Nat

-----------------------------------------------------------------------------
(* simple and params: the attributes of a simple instance of one entity.    *)
CountedParams(id, count) ==
  LET params == FirstRecord(id).params
  IN  IF Len(params) = count THEN Ok(params) ELSE Failed("ParameterCount", id)

SimpleParams(id, from, name, count) ==
  IF ~Defined(id) THEN Failed("Missing", from)
  ELSE IF IsComplex(id) THEN Failed("Complex", id)
  ELSE IF FirstRecord(id).name # name THEN Failed("WrongType", id)
  ELSE CountedParams(id, count)

(* reference and required. *)
OptionalRef(id, p) ==
  IF p.kind = "reference" THEN Ok({p.ref})
  ELSE IF p.kind = "unset" THEN Ok({}) ELSE Failed("NotAReference", id)

RequiredRef(id, p) ==
  Then(OptionalRef(id, p), LAMBDA refs :
    IF refs = {} THEN Failed("MissingAttribute", id) ELSE Ok(p.ref))

(* number: a finite one. *)
NumberOf(id, p) ==
  IF Number(p) # {}
  THEN IF Abs(p.value) <= MaxReal THEN Ok(p.value) ELSE Failed("NotFinite", id)
  ELSE Failed(IF p.kind = "unset" THEN "MissingAttribute" ELSE "NotANumber", id)

Triple(id, p) ==
  IF p.kind # "list" THEN Failed(IF p.kind = "unset" THEN "MissingAttribute" ELSE "NotAList", id)
  ELSE IF Len(p.items) # 3 THEN Failed("Dimension", id)
  ELSE AllOk([i \in 1..3 |-> NumberOf(id, p.items[i])])

(* A number in millimetres or radians; one too small for them is zero.      *)
Converts(value, factor) ==
  IF factor.e >= 0 THEN value * factor.m * 10 ^ factor.e ELSE (value * factor.m) \div 10 ^ (-factor.e)

(* length: zero needs no unit. *)
LengthOf(units, id, value) ==
  LET unit == units.units["length"]
      millimetres == Converts(value, unit.value.factor)
  IN  IF value = 0 THEN Ok(0)
      ELSE IF ~unit.ok THEN Failed("Unit", id)
      ELSE IF Abs(millimetres) > MaxReal THEN Failed("NotFinite", id) ELSE Ok(millimetres)

(* Mutant of PositiveLength: positive as written only.                      *)
PositiveAsWritten(units, id, p) ==
  Then(NumberOf(id, p), LAMBDA value :
    IF value <= 0 THEN Failed("OutOfRange", id) ELSE LengthOf(units, id, value))

(* positive_length: as written, and still in millimetres. *)
PositiveLength(units, id, p) ==
  Then(NumberOf(id, p), LAMBDA value :
    IF value <= 0 THEN Failed("OutOfRange", id)
    ELSE Then(LengthOf(units, id, value), LAMBDA millimetres :
           IF millimetres <= 0 THEN Failed("OutOfRange", id) ELSE Ok(millimetres)))

LengthFromZero(units, id, p) ==
  Then(NumberOf(id, p), LAMBDA value :
    IF value < 0 THEN Failed("OutOfRange", id) ELSE LengthOf(units, id, value))

SemiAngle(units, id, p) ==
  LET unit == units.units["plane_angle"]
  IN  Then(NumberOf(id, p), LAMBDA value :
        IF value <= 0 THEN Failed("OutOfRange", id)
        ELSE IF ~unit.ok THEN Failed("Unit", id)
        ELSE LET radians == Converts(value, unit.value.factor)
             IN  IF radians \in MinSemiAngle..MaxSemiAngle THEN Ok(radians) ELSE Failed("OutOfRange", id))

-----------------------------------------------------------------------------
(* read_point, read_direction, optional_direction, read_vector. *)
Point(units, id, from) ==
  Then(SimpleParams(id, from, "CARTESIAN_POINT", 2), LAMBDA params :
    Then(Triple(id, params[2]), LAMBDA xs : AllOk([i \in 1..3 |-> LengthOf(units, id, xs[i])])))

Direction(id, from) ==
  Then(SimpleParams(id, from, "DIRECTION", 2), LAMBDA params :
    Then(Triple(id, params[2]), LAMBDA ratios :
      IF ratios = <<0, 0, 0>> THEN Failed("ZeroDirection", id) ELSE Ok(Normalised(ratios))))

OptionalDirection(id, p) ==
  Then(OptionalRef(id, p), LAMBDA refs :
    IF refs = {} THEN Ok({}) ELSE Then(Direction(p.ref, id), LAMBDA direction : Ok({direction})))

RequiredPoint(units, id, p) == Then(RequiredRef(id, p), LAMBDA point : Point(units, point, id))

Vector(units, id, from) ==
  Then(SimpleParams(id, from, "VECTOR", 3), LAMBDA params :
    Then(RequiredRef(id, params[2]), LAMBDA ref :
      Then(Direction(ref, id), LAMBDA orientation :
        Then(LengthFromZero(units, id, params[3]), LAMBDA magnitude :
          Ok([orientation |-> orientation, magnitude |-> magnitude])))))

Axis1Placement(units, id) ==
  Then(SimpleParams(id, id, "AXIS1_PLACEMENT", 3), LAMBDA params :
    Then(RequiredPoint(units, id, params[2]), LAMBDA location :
      Then(OptionalDirection(id, params[3]), LAMBDA axis :
        Ok([location |-> location, axis |-> IF axis = {} THEN E3 ELSE CHOOSE a \in axis : TRUE]))))

(* The axes of a placement, from the directions it states.                  *)
Axes3(id, location, axis, ref) ==
  LET z == IF axis = {} THEN E3 ELSE CHOOSE a \in axis : TRUE
      axes == BuildAxes(z, ref)
      xy == CHOOSE a \in axes : TRUE
  IN  IF axes = {} THEN Failed("Parallel", id)
      ELSE Ok([location |-> location, x |-> xy[1], y |-> xy[2], z |-> z, stated |-> ref # {}])

Axis2Placement3d(units, id, from) ==
  IF IsSimple(id, "AXIS2_PLACEMENT_2D") THEN Failed("Dimension", id)
  ELSE Then(SimpleParams(id, from, "AXIS2_PLACEMENT_3D", 4), LAMBDA params :
         Then(RequiredPoint(units, id, params[2]), LAMBDA location :
           Then(OptionalDirection(id, params[3]), LAMBDA axis :
             Then(OptionalDirection(id, params[4]), LAMBDA ref : Axes3(id, location, axis, ref)))))

(* to_rigid: its columns are the axes.                                      *)
ToRigid(placement) ==
  Transform(Vec(LAMBDA i : <<placement.x[i], placement.y[i], placement.z[i]>>), placement.location)

Position(units, id, params) ==
  Then(RequiredRef(id, params[2]), LAMBDA position : Axis2Placement3d(units, position, id))

-----------------------------------------------------------------------------
(* surface: of the five kinds read, by their numbers of attributes.         *)
SurfaceCounts == [PLANE |-> 2, CYLINDRICAL_SURFACE |-> 3, CONICAL_SURFACE |-> 4,
                  SPHERICAL_SURFACE |-> 3, TOROIDAL_SURFACE |-> 4]

Sizes(units, id, name, params) ==
  CASE name = "PLANE" -> << >>
    [] name = "CONICAL_SURFACE" -> <<LengthFromZero(units, id, params[3]), SemiAngle(units, id, params[4])>>
    [] OTHER -> [i \in 1..(Len(params) - 2) |-> PositiveLength(units, id, params[i + 2])]

OtherGeometry == [kind |-> "other"]

Surface(units, id) ==
  LET name == FirstRecord(id).name
  IN  IF ~Defined(id) THEN Failed("Missing", id)
      ELSE IF IsComplex(id) \/ name \notin DOMAIN SurfaceCounts THEN Ok(OtherGeometry)
      ELSE Then(CountedParams(id, SurfaceCounts[name]), LAMBDA params :
             Then(Position(units, id, params), LAMBDA position :
               Then(AllOk(Sizes(units, id, name, params)), LAMBDA sizes :
                 Ok([kind |-> name, position |-> position, sizes |-> sizes]))))

(* read_curve, of a curve that is not read through: lines and circles.      *)
Line(units, id, params) ==
  Then(RequiredPoint(units, id, params[2]), LAMBDA pnt :
    Then(RequiredRef(id, params[3]), LAMBDA ref :
      Then(Vector(units, ref, id), LAMBDA dir : Ok([kind |-> "LINE", pnt |-> pnt, dir |-> dir]))))

Circle(units, id, params) ==
  Then(Position(units, id, params), LAMBDA position :
    Then(PositiveLength(units, id, params[3]), LAMBDA radius :
      Ok([kind |-> "CIRCLE", position |-> position, radius |-> radius])))

BasicCurve(units, id, from) ==
  LET name == FirstRecord(id).name
  IN  IF ~Defined(id) THEN Failed("Missing", from)
      ELSE IF IsComplex(id) \/ name \notin {"LINE", "CIRCLE"} THEN Ok(OtherGeometry)
      ELSE Then(CountedParams(id, 3), LAMBDA params :
             IF name = "LINE" THEN Line(units, id, params) ELSE Circle(units, id, params))

(* master_representation, and the surface curves, read one level deep.      *)
SurfaceCurves == {"SURFACE_CURVE", "SEAM_CURVE", "INTERSECTION_CURVE"}
Masters == {"CURVE_3D", "PCURVE_S1", "PCURVE_S2"}

Master(id, p) ==
  IF p.kind = "unset" THEN Failed("MissingAttribute", id)
  ELSE IF p.kind = "enumeration" /\ p.value \in Masters THEN Ok(p.value)
  ELSE Failed("UnknownEnumeration", id)

Curve(units, id) ==
  IF ~Defined(id) \/ IsComplex(id) \/ FirstRecord(id).name \notin SurfaceCurves
  THEN BasicCurve(units, id, id)
  ELSE Then(CountedParams(id, 4), LAMBDA params :
         Then(RequiredRef(id, params[2]), LAMBDA ref :
           Then(BasicCurve(units, ref, id), LAMBDA curve :
             IF params[3].kind # "list" THEN Failed("NotAList", id)
             ELSE Then(Master(id, params[4]), LAMBDA master :
                    Ok([kind |-> FirstRecord(id).name, curve |-> curve, master |-> master])))))
=============================================================================
