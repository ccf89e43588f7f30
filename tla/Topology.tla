------------------------------- MODULE Topology -------------------------------
(***************************************************************************)
(* Solid::read (src/src/topology.rs): the shells, faces, bounds, edges and *)
(* vertices of one solid, depth first, each instance read once.            *)
(*                                                                         *)
(*   walk    what has been read: [solid, shells, faces, edges, vertices,    *)
(*           listed, bounding, oriented, reads].  Faces, edges and vertices *)
(*           refer to one another by index.  A face is there from the time  *)
(*           its attributes are read, and its bounds and their edges join   *)
(*           it.  `reads` lists the instances read so far: a history        *)
(*           variable of the properties, that no step reads.               *)
(*   todo    what is still to be read, next first: [does, id, in]           *)
(*   solids  a set of at most one outcome: the walk, or the first error     *)
(*                                                                         *)
(* A loop is [kind, instance, edges, vertex], of one kind or the other.     *)
(*                                                                         *)
(*   slot   what may stand in an attribute: [read, unsupported |-> entity   *)
(*          types, others |-> BOOLEAN]                                     *)
(*   read   [id, name, params]                                             *)
(*                                                                         *)
(* Types a rule of the schema forbids in a slot are malformed, as any other *)
(* wrong type is; the rule is only named in the message.                   *)
(***************************************************************************)
EXTENDS Records

VARIABLES walk, todo, solids

topology == <<walk, todo, solids>>

Slot(read, unsupported) == [read |-> read, unsupported |-> unsupported, others |-> FALSE]

SOLID == [Slot({"MANIFOLD_SOLID_BREP", "BREP_WITH_VOIDS"}, {}) EXCEPT !.others = TRUE]
OUTER == Slot({"CLOSED_SHELL", "ORIENTED_CLOSED_SHELL"}, {"TESSELLATED_CLOSED_SHELL"})
VOIDS == Slot({"ORIENTED_CLOSED_SHELL"}, {})
SHELL_ELEMENT == Slot({"CLOSED_SHELL"}, {"TESSELLATED_CLOSED_SHELL"})
FACES == Slot({"ADVANCED_FACE"}, {"FACE_SURFACE", "ORIENTED_FACE", "SUBFACE", "TESSELLATED_FACE_SURFACE"})
BOUNDS == Slot({"FACE_BOUND", "FACE_OUTER_BOUND"}, {})
LOOP == Slot({"EDGE_LOOP", "VERTEX_LOOP"}, {"KINEMATIC_LOOP"})
EDGE_LIST == Slot({"ORIENTED_EDGE"}, {"SEAM_EDGE", "ORIENTED_JOINT"})
EDGE_ELEMENT == Slot({"EDGE_CURVE"}, {"EDGE_BOUNDED_CURVE_WITH_LENGTH"})
VERTEX == Slot({"VERTEX_POINT"}, {})

COUNTS == [ADVANCED_FACE |-> 4, FACE_BOUND |-> 3, FACE_OUTER_BOUND |-> 3, EDGE_LOOP |-> 2,
           VERTEX_LOOP |-> 2, ORIENTED_EDGE |-> 5, EDGE_CURVE |-> 5, VERTEX_POINT |-> 2]

Malformed(id) == Failed("Malformed", id)

(* Walk::read: from names id in the slot.                                   *)
Read(from, id, slot) ==
  LET record == FirstRecord(id)
      count == IF IsContainer(record) THEN Containers[record.name].params ELSE COUNTS[record.name]
  IN  IF ~Defined(id) THEN Failed("UnresolvedReference", from)
      ELSE IF IsComplex(id) THEN Failed("Unsupported", id)
      ELSE IF record.name \notin slot.read
           THEN IF slot.others \/ record.name \in slot.unsupported
                THEN Failed("Unsupported", id) ELSE Malformed(id)
      ELSE IF Len(record.params) # count THEN Malformed(id)
      ELSE Ok([id |-> id, name |-> record.name, params |-> record.params])

(* Read::reference, set, boolean and derived, of attribute i.               *)
ReadReference(read, i) ==
  IF read.params[i].kind = "reference" THEN Ok(read.params[i].ref) ELSE Malformed(read.id)

ReadSet(read, i) ==
  LET p == read.params[i]
  IN  IF p.kind = "list" /\ p.items # << >> /\ \A k \in DOMAIN p.items : p.items[k].kind = "reference"
      THEN Ok(Held(p)) ELSE Malformed(read.id)

ReadBoolean(read, i) ==
  LET p == read.params[i]
  IN  IF p.kind = "enumeration" /\ p.value \in {"T", "F"} THEN Ok(p.value = "T") ELSE Malformed(read.id)

ReadDerived(read, i) == IF read.params[i].kind = "derived" THEN Ok(i) ELSE Malformed(read.id)

-----------------------------------------------------------------------------
(* The attributes of each entity, in the order their errors are found.      *)
ReadShell(solid, id, slot) ==
  Then(Read(solid, id, slot), LAMBDA shell :
    IF shell.name = "CLOSED_SHELL" THEN Ok([closed |-> shell, oriented |-> {}])
    ELSE LET element == ReadReference(shell, 3)
             orientation == ReadBoolean(shell, 4)
         IN  Then(Provided(<<ReadDerived(shell, 2), element, orientation>>, id), LAMBDA checked :
               Then(Read(id, element.value, SHELL_ELEMENT), LAMBDA closed :
                 Ok([closed |-> closed, oriented |-> {orientation.value}]))))

ReadFace(shell, id) ==
  Then(Read(shell, id, FACES), LAMBDA face :
    LET bounds == ReadSet(face, 2)
        surface == ReadReference(face, 3)
        sense == ReadBoolean(face, 4)
    IN  Provided(<<bounds, surface, sense>>,
                 [bounds |-> bounds.value, surface |-> surface.value, same_sense |-> sense.value]))

ReadOrientedEdge(loop, id) ==
  Then(Read(loop, id, EDGE_LIST), LAMBDA oriented :
    LET element == ReadReference(oriented, 4)
        orientation == ReadBoolean(oriented, 5)
    IN  Provided(<<ReadDerived(oriented, 2), ReadDerived(oriented, 3), element, orientation>>,
                 [element |-> element.value, orientation |-> orientation.value]))

ReadEdge(oriented, id) ==
  Then(Read(oriented, id, EDGE_ELEMENT), LAMBDA edge :
    LET start == ReadReference(edge, 2)
        end == ReadReference(edge, 3)
        curve == ReadReference(edge, 4)
        sense == ReadBoolean(edge, 5)
    IN  Provided(<<start, end, curve, sense>>,
                 [start |-> start.value, end |-> end.value,
                  curve |-> curve.value, same_sense |-> sense.value]))

ReadVertex(from, id) == Then(Read(from, id, VERTEX), LAMBDA vertex : ReadReference(vertex, 2))

-----------------------------------------------------------------------------
Task(does, id, in) == [does |-> does, id |-> id, in |-> in]
Tasks(does, ids, in) == [i \in DOMAIN ids |-> Task(does, ids[i], in)]

Fresh(id) == [solid |-> id, shells |-> << >>, faces |-> << >>, edges |-> << >>, vertices |-> << >>,
              listed |-> {}, bounding |-> << >>, oriented |-> << >>, reads |-> << >>]

Noted(w, id) == [w EXCEPT !.reads = Append(@, id)]

IndexOf(elements, id) ==
  LET at == {i \in DOMAIN elements : elements[i].instance = id}
  IN  IF at = {} THEN 0 ELSE CHOOSE i \in at : TRUE

-----------------------------------------------------------------------------
(* vertex, edge and oriented_edge: the walk with them read, now or before.  *)
WithVertex(w, from, id) ==
  IF IndexOf(w.vertices, id) # 0 THEN Ok(w)
  ELSE Then(ReadVertex(from, id), LAMBDA point :
         Ok([Noted(w, id) EXCEPT !.vertices = Append(@, [instance |-> id, point |-> point])]))

WithEdge(w, from, id) ==
  IF IndexOf(w.edges, id) # 0 THEN Ok(w)
  ELSE Then(ReadEdge(from, id), LAMBDA edge :
         Then(WithVertex(Noted(w, id), id, edge.start), LAMBDA started :
           Then(WithVertex(started, id, edge.end), LAMBDA ended :
             Ok([ended EXCEPT !.edges = Append(@,
                   [instance |-> id, start |-> IndexOf(ended.vertices, edge.start),
                    end |-> IndexOf(ended.vertices, edge.end),
                    curve |-> edge.curve, same_sense |-> edge.same_sense])]))))

(* Mutant of WithOrientedEdge: read again for every loop that lists it.     *)
WithEveryOrientedEdge(w, from, id) ==
  Then(ReadOrientedEdge(from, id), LAMBDA oriented :
    Then(WithEdge(Noted(w, id), id, oriented.element), LAMBDA read :
      Ok([read EXCEPT !.oriented = (id :> <<IndexOf(read.edges, oriented.element), oriented.orientation>>) @@ @])))

WithOrientedEdge(w, from, id) ==
  IF id \in DOMAIN w.oriented THEN Ok(w)
  ELSE Then(ReadOrientedEdge(from, id), LAMBDA oriented :
         Then(WithEdge(Noted(w, id), id, oriented.element), LAMBDA read :
           Ok([read EXCEPT !.oriented =
                 (id :> <<IndexOf(read.edges, oriented.element), oriented.orientation>>) @@ @])))

-----------------------------------------------------------------------------
(* The next task: the walk it leaves, and the tasks it finds.               *)
Done(w, more) == Ok([walk |-> w, more |-> more])

(* shell, but its faces. *)
OpenShell(w, task) ==
  Then(ReadShell(w.solid, task.id, task.in), LAMBDA shell :
    Then(ReadSet(shell.closed, 2), LAMBDA faces :
      LET held == IF shell.oriented = {} THEN Noted(w, task.id) ELSE Noted(Noted(w, task.id), shell.closed.id)
      IN  Done([held EXCEPT !.shells = Append(@, [instance |-> task.id, closed_shell |-> shell.closed.id,
                                                  orientation |-> shell.oriented])],
               Tasks("face", faces, shell.closed.id))))

(* face, but its bounds. *)
OpenFace(w, task) ==
  IF task.id \in w.listed THEN Malformed(task.id)
  ELSE Then(ReadFace(task.in, task.id), LAMBDA face :
         Done([Noted(w, task.id) EXCEPT !.listed = @ \cup {task.id},
                 !.faces = Append(@, [instance |-> task.id, shell |-> Len(w.shells), bounds |-> << >>,
                                      surface |-> face.surface, same_sense |-> face.same_sense])],
              Tasks("bound", face.bounds, task.id)))

(* bounds_once: a bound or loop bounds one face, once.                      *)
BoundsOnce(w, read, face) ==
  IF read.id \notin DOMAIN w.bounding THEN Ok(read)
  ELSE IF w.bounding[read.id] = face /\ read.name \in BOUNDS.read THEN Malformed(read.id)
  ELSE Failed("Unsupported", read.id)

Bounding(w, id, face) == [Noted(w, id) EXCEPT !.bounding = (id :> face) @@ @]

WithBound(w, bound) == [w EXCEPT !.faces[Len(w.faces)].bounds = Append(@, bound)]

(* bound_loop, but the oriented edges of an edge loop.                      *)
OpenLoop(w, face, bound, id) ==
  Then(Read(bound.instance, id, LOOP), LAMBDA read :
    Then(BoundsOnce(w, read, face), LAMBDA once :
      IF read.name = "VERTEX_LOOP"
      THEN Then(ReadReference(read, 2), LAMBDA vertex :
             Then(WithVertex(Bounding(w, id, face), id, vertex), LAMBDA v :
               Done(WithBound(v, bound @@ [bound |-> [kind |-> "vertex", instance |-> id, edges |-> << >>,
                                                      vertex |-> IndexOf(v.vertices, vertex)]]), << >>)))
      ELSE Then(ReadSet(read, 2), LAMBDA edges :
             Done(WithBound(Bounding(w, id, face),
                            bound @@ [bound |-> [kind |-> "edges", instance |-> id, edges |-> << >>, vertex |-> 0]]),
                  Append(Tasks("edge", edges, id), Task("close", id, id))))))

OpenBound(w, task) ==
  LET face == Last(w.faces)
  IN  Then(Read(task.in, task.id, BOUNDS), LAMBDA read :
        LET outer == read.name = "FACE_OUTER_BOUND"
            second == outer /\ \E i \in DOMAIN face.bounds : face.bounds[i].outer
            loop == ReadReference(read, 2)
            orientation == ReadBoolean(read, 3)
        IN  Then(Provided(<<BoundsOnce(w, read, task.in),
                            IF second THEN Malformed(task.in) ELSE Ok(read), loop, orientation>>, read),
                 LAMBDA checked :
                   OpenLoop(Bounding(w, task.id, task.in), task.in,
                            [instance |-> task.id, outer |-> outer, orientation |-> orientation.value],
                            loop.value)))

(* An oriented edge of the last loop: a LIST OF UNIQUE.                     *)
LoopOf(w) == LET face == Last(w.faces) IN Last(face.bounds).bound

TakeEdge(w, task) ==
  IF IndexOf(LoopOf(w).edges, task.id) # 0 THEN Malformed(task.in)
  ELSE Then(WithOrientedEdge(w, task.in, task.id), LAMBDA read :
         LET oriented == read.oriented[task.id]
             edge == read.edges[oriented[1]]
             f == Len(read.faces)
         IN  Done([read EXCEPT !.faces[f].bounds[Len(read.faces[f].bounds)].bound.edges =
                     Append(@, [instance |-> task.id, edge |-> oriented[1], orientation |-> oriented[2],
                                start |-> IF oriented[2] THEN edge.start ELSE edge.end,
                                end |-> IF oriented[2] THEN edge.end ELSE edge.start])], << >>))

(* Each edge ends where the next starts, and the last where the first does. *)
CloseLoop(w, task) ==
  LET edges == LoopOf(w).edges
  IN  IF \A k \in DOMAIN edges : edges[k].end = edges[(k % Len(edges)) + 1].start
      THEN Done(w, << >>) ELSE Malformed(task.id)

-----------------------------------------------------------------------------
(* Solid::read: the solid itself, and then its shells.                      *)
OpenSolid(id) ==
  IF ~Defined(id) THEN Failed("Missing", id)
  ELSE IF IsComplex(id) THEN Failed("Unsupported", id)
  ELSE Then(Read(id, id, SOLID), LAMBDA solid :
         Then(ReadReference(solid, 2), LAMBDA outer :
           Done(Noted(Fresh(id), id),
                <<Task("shell", outer, OUTER)>>
                  \o (IF solid.name = "BREP_WITH_VOIDS" THEN <<Task("voids", id, solid)>> ELSE << >>))))

(* The voids are looked at when the outer shell has been read.              *)
OpenVoids(w, task) ==
  Then(ReadSet(task.in, 3), LAMBDA voids : Done(w, Tasks("shell", voids, VOIDS)))

Handled(w, task) ==
  CASE task.does = "shell" -> OpenShell(w, task)
    [] task.does = "voids" -> OpenVoids(w, task)
    [] task.does = "face" -> OpenFace(w, task)
    [] task.does = "bound" -> OpenBound(w, task)
    [] task.does = "edge" -> TakeEdge(w, task)
    [] task.does = "close" -> CloseLoop(w, task)

StartTopology == walk = Fresh(0) /\ todo = << >> /\ solids = {}

(* Nothing of a solid is read if any part of it cannot be.                  *)
Advance(outcome, rest) ==
  IF ~outcome.ok
  THEN solids' = {outcome} /\ walk' = Fresh(walk.solid) /\ todo' = << >>
  ELSE /\ walk' = outcome.value.walk
       /\ todo' = outcome.value.more \o rest
       /\ solids' = IF todo' = << >> THEN {Ok(walk')} ELSE {}

ReadSolid(id) == solids = {} /\ todo = << >> /\ walk = Fresh(0) /\ Advance(OpenSolid(id), << >>)
TakeTask == todo # << >> /\ Advance(Handled(walk, Head(todo)), Tail(todo))

NextTopology(ids) == TakeTask \/ \E id \in ids : ReadSolid(id)

-----------------------------------------------------------------------------
(* What a solid says of itself: the sense of a face, and the uses of an     *)
(* edge, face by face.                                                     *)
Orientation(solid, f) == TRUE \in solid.shells[solid.faces[f].shell].orientation
                           \/ solid.shells[solid.faces[f].shell].orientation = {}

FaceSense(solid, f) == solid.faces[f].same_sense = Orientation(solid, f)

LoopEdges(solid, f) ==
  FlattenSeq([b \in DOMAIN solid.faces[f].bounds |->
    LET bound == solid.faces[f].bounds[b]
    IN  [i \in DOMAIN bound.bound.edges |-> [bound |-> b, index |-> i] @@ bound.bound.edges[i]]])

(* Mutant of EdgeUses: as the shell writes the face, reversed or not.        *)
EdgeUsesAsWritten(solid, e) ==
  FlattenSeq([f \in DOMAIN solid.faces |->
    LET mine == SelectSeq(LoopEdges(solid, f), LAMBDA o : o.edge = e)
    IN  [i \in DOMAIN mine |-> [face |-> f, bound |-> mine[i].bound, index |-> mine[i].index,
           forward |-> mine[i].orientation = solid.faces[f].bounds[mine[i].bound].orientation]]])

(* edge_uses. *)
EdgeUses(solid, e) ==
  FlattenSeq([f \in DOMAIN solid.faces |->
    LET mine == SelectSeq(LoopEdges(solid, f), LAMBDA o : o.edge = e)
    IN  [i \in DOMAIN mine |-> [face |-> f, bound |-> mine[i].bound, index |-> mine[i].index,
           forward |-> (mine[i].orientation = solid.faces[f].bounds[mine[i].bound].orientation)
                         = Orientation(solid, f)]]])

IsSeam(solid, e) ==
  LET uses == EdgeUses(solid, e) IN Len(uses) > 1 /\ \A i \in DOMAIN uses : uses[i].face = uses[1].face

Neighbours(solid, f) ==
  LET edges == {o.edge : o \in ToSet(LoopEdges(solid, f))}
  IN  UNION {{u.face : u \in ToSet(EdgeUses(solid, e))} : e \in edges} \ {f}

(* face_vertices: the start of each oriented edge, and the vertex of each    *)
(* vertex loop.                                                            *)
FaceVertices(solid, f) ==
  LET bounds == ToSet(solid.faces[f].bounds)
  IN  {o.start : o \in ToSet(LoopEdges(solid, f))}
        \cup {b.bound.vertex : b \in {c \in bounds : c.bound.kind = "vertex"}}

-----------------------------------------------------------------------------
(* What the attributes of a solid's parts lead to, by the schema.            *)
Holds(id) ==
  LET r == FirstRecord(id)
  IN  CASE IsContainer(r) -> UNION {ToSet(held) : held \in ContainerHolds(r)}
        [] r.name \in {"ADVANCED_FACE", "FACE_BOUND", "FACE_OUTER_BOUND", "EDGE_LOOP", "VERTEX_LOOP"} ->
             RefsIn(r.params[2])
        [] r.name = "ORIENTED_EDGE" -> RefsIn(r.params[4])
        [] r.name = "EDGE_CURVE" -> RefsIn(r.params[2]) \cup RefsIn(r.params[3])
        [] OTHER -> {}

Within(id) ==
  LET step[n \in Nat] == IF n = 0 THEN {id} ELSE LET prev == step[n - 1] IN prev \cup UNION {Holds(p) : p \in prev}
  IN  step[8]

(* No instance is read twice, however many others share it: all that a     *)
(* reading that fails can have read again is a shell, whose faces it then   *)
(* refuses.  A solid that is read has read everything it is made of, once.  *)
ReadOnce ==
  /\ Len(walk.reads) <= Cardinality(ToSet(walk.reads)) + 2
  /\ \A s \in solids : s.ok => IsInjective(s.value.reads) /\ ToSet(s.value.reads) = Within(s.value.solid)

(* The path around a face along one bound as the solid holds the face: the  *)
(* loop, turned round once for a bound and once for a shell that is .F.     *)
Steps(solid, f, b) ==
  LET bound == solid.faces[f].bounds[b]
      edges == bound.bound.edges
      Step(i, o, back) == [edge |-> o.edge, index |-> i, from |-> IF back THEN o.end ELSE o.start,
                           to |-> IF back THEN o.start ELSE o.end, along |-> o.orientation # back]
      flips == (IF bound.orientation THEN 0 ELSE 1)
                 + (IF solid.shells[solid.faces[f].shell].orientation = {FALSE} THEN 1 ELSE 0)
      back == flips = 1
      path == [i \in DOMAIN edges |-> Step(i, edges[i], back)]
  IN  IF back THEN Reverse(path) ELSE path

(* The boundary of every face of a solid is made of closed paths, that run   *)
(* along an edge as its uses say, from its start to its end or back; each    *)
(* step is one use, and neighbours are so of each other.                     *)
UsesRunAlong ==
  \A s \in solids : s.ok =>
    LET solid == s.value
        uses == [e \in DOMAIN solid.edges |-> EdgeUses(solid, e)]
        UseOf(f, b, step, u) == u.face = f /\ u.bound = b /\ u.index = step.index
    IN  /\ \A f \in DOMAIN solid.faces : \A b \in DOMAIN solid.faces[f].bounds :
             LET path == Steps(solid, f, b)
             IN  \A i \in DOMAIN path :
                   LET step == path[i]
                       edge == solid.edges[step.edge]
                       mine == {u \in ToSet(uses[step.edge]) : UseOf(f, b, step, u)}
                   IN  /\ step.to = path[(i % Len(path)) + 1].from
                       /\ Cardinality(mine) = 1
                       /\ \A u \in mine :
                            /\ u.forward => step.from = edge.start /\ step.to = edge.end
                            /\ ~u.forward => step.from = edge.end /\ step.to = edge.start
                            /\ u.forward = step.along
                       /\ {step.from, step.to} \subseteq FaceVertices(solid, f)
        /\ \A e \in DOMAIN solid.edges : IsInjective(uses[e]) /\ uses[e] # << >>
        /\ \A f, g \in DOMAIN solid.faces : (g \in Neighbours(solid, f)) = (f \in Neighbours(solid, g))
=============================================================================
