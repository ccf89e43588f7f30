------------------------------- MODULE Readers -------------------------------
(***************************************************************************)
(* What a program asks of a part: the topology of a solid, then the        *)
(* surfaces of its faces and the curves of its edges in the units of a      *)
(* representation (topology.rs holds only their names; geometry.rs reads    *)
(* them), the items its tolerances apply to, the units of an item, and       *)
(* whether its records are those of a schema.                              *)
(*                                                                         *)
(*   reader      a set of at most one outcome of the units                  *)
(*   geometry    a set of at most one [surfaces, curves], of outcomes       *)
(***************************************************************************)
EXTENDS Topology, Geometry, PmiItems, SchemaCheck, ItemUnits

VARIABLES reader, geometry

measuring == <<reader, geometry>>
readers == <<file, users, topology, measuring, pmi, schema, checking, itemUnits>>

StartReaders == StartTopology /\ StartPmi /\ StartCheck /\ StartItemUnits /\ reader = {} /\ geometry = {}

(* Solid::read, to its end.                                                *)
ReadTopology(ids) == NextTopology(ids) /\ UNCHANGED <<file, users, measuring, pmi, schema, checking, itemUnits>>

(* Reader::for_representation. *)
OpenReader(rep) ==
  /\ reader = {} /\ \E s \in solids : s.ok
  /\ reader' = {OfRepresentation(rep)}
  /\ UNCHANGED <<file, users, topology, geometry, pmi, schema, checking, itemUnits>>

Measure ==
  /\ geometry = {}
  /\ \E r \in reader : \E s \in solids :
       /\ r.ok
       /\ geometry' = {[surfaces |-> [f \in DOMAIN s.value.faces |-> Surface(r.value, s.value.faces[f].surface)],
                        curves |-> [e \in DOMAIN s.value.edges |-> Curve(r.value, s.value.edges[e].curve)]]}
  /\ UNCHANGED <<file, users, topology, reader, pmi, schema, checking, itemUnits>>

AskPmi(definitions, items) ==
  NextPmi(definitions, items) /\ UNCHANGED <<file, users, topology, measuring, schema, checking, itemUnits>>

(* ContextUnits::of_item, to its end. *)
ReadUnits(items) == NextItemUnits(items) /\ UNCHANGED <<topology, measuring, pmi, schema, checking>>

(* express::check, to its end. *)
CheckFile == CheckInstance /\ UNCHANGED <<file, users, topology, measuring, pmi, schema, itemUnits>>

-----------------------------------------------------------------------------
IsSquare(position) ==
  /\ Dot(position.x, position.z) = 0
  /\ Normalised(Cross(position.z, position.x)) = position.y
  /\ Normalised(position.z) = position.z /\ Normalised(position.x) = position.x

Positive(sizes) == \A i \in DOMAIN sizes : sizes[i] > 0

(* A surface or curve is read in range or refused: right-handed, square      *)
(* axes, and sizes above zero in millimetres and radians as well as in the   *)
(* units written; a cone alone may have a radius of zero.                    *)
GeometrySound ==
  \A g \in geometry :
    /\ \A f \in DOMAIN g.surfaces :
         LET surface == g.surfaces[f].value
         IN  g.surfaces[f].ok /\ surface.kind # "other" =>
               /\ IsSquare(surface.position)
               /\ IF surface.kind = "CONICAL_SURFACE"
                  THEN surface.sizes[1] >= 0 /\ surface.sizes[2] \in MinSemiAngle..MaxSemiAngle
                  ELSE Positive(surface.sizes)
    /\ \A e \in DOMAIN g.curves :
         LET curve == g.curves[e].value
             basic == IF curve.kind \in SurfaceCurves THEN curve.curve ELSE curve
         IN  g.curves[e].ok =>
               /\ basic.kind = "CIRCLE" => IsSquare(basic.position) /\ basic.radius > 0
               /\ basic.kind = "LINE" =>
                    /\ basic.dir.magnitude >= 0
                    /\ Normalised(basic.dir.orientation) = basic.dir.orientation
=============================================================================
