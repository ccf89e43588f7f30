------------------------------ MODULE PmiItems -------------------------------
(***************************************************************************)
(* What shape aspects state about their items (src/src/pmi/items.rs):       *)
(* item-identified usages, relationships between aspects, and what they     *)
(* mean for the classes of aspect they are between.                        *)
(*                                                                         *)
(*   usage          [instance, kind, definition, items |-> set of names]    *)
(*   relationship   [instance, kind, relating, related |-> set of at most   *)
(*                  one name]                                              *)
(*   step           [relationship, kind, aspect]                           *)
(*                                                                         *)
(* Of the subtypes that the tables below treat alike, a few stand for all.  *)
(*                                                                         *)
(* AspectItems::resolve and naming (src/src/pmi/items.rs): from a shape     *)
(* aspect to the items the file names for it, and back from an item to the  *)
(* definitions that list it.                                               *)
(*                                                                         *)
(*   links     [usages, relationships]: the index, read once                *)
(*   asked     [does |-> "resolve" or "naming", id], or NotAsked            *)
(*   doing     "walking", "spreading", "cycling" or "answered"              *)
(*   walked    [reached |-> aspects -> [depth, via], order, edges, stops]:   *)
(*             naming keeps its depths in reached, its steps in edges        *)
(*   queue     the aspects reached and not expanded                        *)
(*   routes    aspects -> the sets of kinds of step their routes take       *)
(*   work      the aspects whose routes are to be handed on                 *)
(*   trail     the depth-first path, [at, next]; colour, which aspects it    *)
(*             has met; back, the steps that lead back into it              *)
(***************************************************************************)
EXTENDS Records

SAR == "SHAPE_ASPECT_RELATIONSHIP"
DERIVING == "SHAPE_ASPECT_DERIVING_RELATIONSHIP"
TARGET_FEATURE == "FEATURE_FOR_DATUM_TARGET_RELATIONSHIP"
IIRU == "ITEM_IDENTIFIED_REPRESENTATION_USAGE"
GISU == "GEOMETRIC_ITEM_SPECIFIC_USAGE"

LOCATIONS == {"ANGULAR_LOCATION", "DIMENSIONAL_LOCATION", "DIMENSIONAL_LOCATION_WITH_DATUM_FEATURE"}
RELATIONSHIPS ==
  {SAR, DERIVING, TARGET_FEATURE, "CONNECTION_ZONE_INTERFACE_PLANE_RELATIONSHIP",
   "PATTERN_OFFSET_MEMBERSHIP", "SHAPE_ASPECT_ASSOCIATIVITY", "SHAPE_ASPECT_TRANSITION"} \cup LOCATIONS
RelationshipOffset(name) ==
  IF name \in {"CONNECTION_ZONE_INTERFACE_PLANE_RELATIONSHIP", "DIMENSIONAL_LOCATION_WITH_DATUM_FEATURE"}
  THEN 4 ELSE 0
SIZES == {"ANGULAR_SIZE", "DIMENSIONAL_SIZE", "DIMENSIONAL_SIZE_WITH_DATUM_FEATURE"}
PRESENTATION == {"DRAUGHTING_MODEL_ITEM_ASSOCIATION"}
USAGES == {IIRU, GISU, "CHAIN_BASED_GEOMETRIC_ITEM_SPECIFIC_USAGE"} \cup PRESENTATION

(* Class::of: an aspect may be of several.                                  *)
ClassNames ==
  [COMPOSITE |-> {"ALL_AROUND_SHAPE_ASPECT", "BETWEEN_SHAPE_ASPECT", "COMMON_DATUM", "COMPOSITE_SHAPE_ASPECT",
                  "COMPOSITE_GROUP_SHAPE_ASPECT", "CONTINUOUS_SHAPE_ASPECT"},
   DERIVED |-> {"APEX", "CENTRE_OF_SYMMETRY", "DERIVED_SHAPE_ASPECT", "EXTENSION", "TANGENT"},
   DATUM_FEATURE |-> {"DATUM_FEATURE", "DIMENSIONAL_LOCATION_WITH_DATUM_FEATURE",
                      "DIMENSIONAL_SIZE_WITH_DATUM_FEATURE"},
   DATUM_TARGET |-> {"DATUM_TARGET", "PLACED_DATUM_TARGET_FEATURE"},
   DATUM |-> {"COMMON_DATUM", "DATUM"},
   BETWEEN |-> {"BETWEEN_SHAPE_ASPECT"}]

ClassOf(aspect) ==
  {class \in DOMAIN ClassNames : Defined(aspect) /\ HasAny(aspect, ClassNames[class])}

-----------------------------------------------------------------------------
(* identified_items: one reference, or a typed set or list of them.         *)
IdentifiedItems(p) ==
  IF p.kind = "reference" THEN {{p.ref}}
  ELSE IF /\ p.kind = "typed" /\ p.name \in {"SET_REPRESENTATION_ITEM", "LIST_REPRESENTATION_ITEM"}
          /\ p.param.kind = "list" /\ p.param.items # << >>
          /\ \A i \in DOMAIN p.param.items : p.param.items[i].kind = "reference"
       THEN {ToSet(Held(p.param))}
       ELSE {}

(* usage: a set of at most one. *)
UsageKind(id, items) ==
  IF HasAny(id, PRESENTATION) THEN "Presentation"
  ELSE IF items # {} /\ (IsSimple(id, GISU) \/ IsSimple(id, IIRU)) THEN "Followed" ELSE "Other"

UsageOf(id) ==
  LET records == IF IsComplex(id) THEN Partial(id, IIRU) ELSE {FirstRecord(id)}
      Usage(r, definition) ==
        LET items == UNION {IdentifiedItems(p) : p \in ParamAt(r, 5)}
        IN  [instance |-> id, kind |-> UsageKind(id, items), definition |-> definition, items |-> UNION items]
  IN  UNION {{Usage(r, definition) : definition \in ReferenceAt(r, 3)} : r \in records}

(* relationship: a set of at most one.  Without a relating aspect it belongs *)
(* to none.                                                                *)
RelationshipKind(id, related) ==
  IF related = {} THEN "Other"
  ELSE IF HasAny(id, LOCATIONS) THEN "Location"
  ELSE IF IsSimple(id, SAR) THEN "Plain"
  ELSE IF IsSimple(id, DERIVING) THEN "Deriving"
  ELSE IF IsSimple(id, TARGET_FEATURE) THEN "TargetFeature" ELSE "Other"

RelationshipOf(id) ==
  LET records == IF IsComplex(id) THEN Partial(id, SAR) ELSE {FirstRecord(id)}
      offset == IF IsComplex(id) THEN 0 ELSE RelationshipOffset(FirstRecord(id).name)
      Link(relating, related) ==
        [instance |-> id, kind |-> RelationshipKind(id, related), relating |-> relating, related |-> related]
  IN  UNION {{Link(relating, ReferenceAt(r, offset + 4)) : relating \in ReferenceAt(r, offset + 3)} : r \in records}

(* AspectItems::new: every usage, and every relationship that is none, in    *)
(* file order.                                                             *)
UsagesOfFile == UNION {UsageOf(id) : id \in ToSet(InstancesOf(USAGES))}

RelationshipsOfFile ==
  LET ids == SelectSeq(InstancesOf(RELATIONSHIPS), LAMBDA id : ~HasAny(id, USAGES) /\ RelationshipOf(id) # {})
  IN  [i \in DOMAIN ids |-> CHOOSE r \in RelationshipOf(ids[i]) : TRUE]

(* stop: at an aspect of these types its usages are not read; nor are those  *)
(* of one that is not defined.                                             *)
StopAt(aspect) ==
  IF ~Defined(aspect) THEN {"Missing"}
  ELSE IF Has(aspect, "PRODUCT_DEFINITION_SHAPE") THEN {"WholeShape"}
  ELSE IF Has(aspect, "COMPONENT_PATH_SHAPE_ASPECT") THEN {"ComponentPath"}
  ELSE IF HasAny(aspect, SIZES \cup RELATIONSHIPS) /\ "DATUM_FEATURE" \notin ClassOf(aspect)
       THEN {"UnsupportedDefinition"}
       ELSE {}

-----------------------------------------------------------------------------
StepOf(r, kind, aspect) == [does |-> "step", relationship |-> r.instance, kind |-> kind, aspect |-> aspect]
Refusal(reason, r) == [does |-> "refused", reason |-> reason, relationship |-> r.instance]
Other(r) == Refusal("UnsupportedRelationship", r)
Nothing == [does |-> "nothing"]

(* A datum feature or target names its datum, which is not its component.   *)
IsBasis(from, to) == from \cap {"DATUM_FEATURE", "DATUM_TARGET"} # {} /\ "DATUM" \in to

(* The two loops of steps: what a relationship states of its relating       *)
(* aspect ...                                                              *)
FromRelating(aspect, r) ==
  LET class == ClassOf(aspect)
      related == CHOOSE a \in r.related : TRUE
      excluded == IsBasis(class, ClassOf(related)) \/ "BETWEEN" \in class
  IN  CASE r.kind = "Plain" /\ ~excluded /\ "COMPOSITE" \in class -> StepOf(r, "Component", related)
        [] r.kind = "Plain" /\ ~excluded /\ "COMPOSITE" \notin class -> Refusal("NotFollowed", r)
        [] r.kind = "Deriving" /\ "DERIVED" \in class -> StepOf(r, "DerivedFrom", related)
        [] r.kind = "Other" \/ (r.kind = "Deriving" /\ "DERIVED" \notin class) -> Other(r)
        [] OTHER -> Nothing

(* ... and of its related one: what leads into a datum, or a target's        *)
(* feature.  A common datum's component is read from its own side.          *)
FromRelated(aspect, r) ==
  LET class == ClassOf(aspect)
      from == ClassOf(r.relating)
      plain == r.kind = "Plain" /\ "DATUM" \in class
  IN  CASE plain /\ "DATUM_FEATURE" \in from -> StepOf(r, "DatumFeature", r.relating)
        [] plain /\ "DATUM_FEATURE" \notin from /\ "DATUM_TARGET" \in from -> StepOf(r, "DatumTarget", r.relating)
        [] plain /\ from \cap {"DATUM_FEATURE", "DATUM_TARGET", "COMPOSITE"} = {} -> Refusal("NotFollowed", r)
        [] r.kind = "TargetFeature" /\ "DATUM_TARGET" \in class -> StepOf(r, "TargetFeature", r.relating)
        [] r.kind = "Other" /\ class \cap {"DATUM", "DATUM_TARGET"} # {} -> Other(r)
        [] OTHER -> Nothing

-----------------------------------------------------------------------------
(* Mutant of StepsIntoFrom: a datum feature's plain relationship to its      *)
(* datum is a component's, if the feature is composite as well.             *)
StepsIntoFromBasis(aspect, r) ==
  LET from == ClassOf(r.relating)
  IN  IF r.kind = "Plain" /\ "COMPOSITE" \in from /\ "BETWEEN" \notin from THEN {[aspect |-> r.relating, kind |-> "Component"]}
      ELSE IF r.kind = "Deriving" /\ "DERIVED" \in from THEN {[aspect |-> r.relating, kind |-> "DerivedFrom"]}
      ELSE {}

(* The two loops of steps_into: from where a step leads to the aspect, as    *)
(* the related side of a relationship ...                                   *)
StepsIntoFrom(aspect, r) ==
  LET from == ClassOf(r.relating)
  IN  IF /\ r.kind = "Plain" /\ "COMPOSITE" \in from
         /\ ~IsBasis(from, ClassOf(aspect)) /\ "BETWEEN" \notin from
      THEN {[aspect |-> r.relating, kind |-> "Component"]}
      ELSE IF r.kind = "Deriving" /\ "DERIVED" \in from THEN {[aspect |-> r.relating, kind |-> "DerivedFrom"]}
      ELSE {}

(* ... and as its relating side.                                           *)
StepsIntoTo(aspect, r) ==
  LET class == ClassOf(aspect)
      related == CHOOSE a \in r.related : TRUE
      to == ClassOf(related)
      Into(kind) == {[aspect |-> related, kind |-> kind]}
  IN  IF r.kind = "Plain" /\ "DATUM" \in to
      THEN IF "DATUM_FEATURE" \in class THEN Into("DatumFeature")
           ELSE IF "DATUM_TARGET" \in class THEN Into("DatumTarget") ELSE {}
      ELSE IF r.kind = "TargetFeature" /\ "DATUM_TARGET" \in to THEN Into("TargetFeature") ELSE {}

-----------------------------------------------------------------------------
CONSTANT MaxPmiDepth

ASSUME PmiDepth == MaxPmiDepth \in Nat

VARIABLES links, asked, doing, walked, queue, routes, work, trail, colour, back

walking == <<walked, queue>>
spreading == <<routes, work>>
cycling == <<trail, colour, back>>
pmi == <<links, asked, doing, walking, spreading, cycling>>

NotAsked == [does |-> "nothing", id |-> 0]
Unread == [usages |-> {}, relationships |-> << >>, read |-> FALSE]
NothingWalked == [reached |-> << >>, order |-> << >>, edges |-> << >>, stops |-> {}]

Followed(aspect) == {u \in links.usages : u.kind = "Followed" /\ u.definition = aspect}
Unsupported(aspect) == {u \in links.usages : u.kind = "Other" /\ u.definition = aspect}
Naming(item) == {u \in links.usages : u.kind = "Followed" /\ item \in u.items /\ Defined(item)}

From(aspect) == SelectSeq(links.relationships, LAMBDA r : r.relating = aspect)
To(aspect) == SelectSeq(links.relationships, LAMBDA r : aspect \in r.related)

-----------------------------------------------------------------------------
(* steps: all that the relationships of an aspect say, in order.            *)
Stated(aspect) ==
  LET from == From(aspect)
      to == To(aspect)
  IN  [i \in DOMAIN from |-> FromRelating(aspect, from[i])] \o [i \in DOMAIN to |-> FromRelated(aspect, to[i])]

StepsOf(stated) == SelectSeq(stated, LAMBDA s : s.does = "step")

Stop(aspect, reason, at) == [aspect |-> aspect, reason |-> reason, at |-> at]

(* facts: where the routes stop at an aspect, and why.                      *)
Facts(aspect, stated) ==
  LET missing == {Stop(aspect, "MissingItem", u.instance) : u \in {v \in Followed(aspect) : \E i \in v.items : ~Defined(i)}}
      unsupported == {Stop(aspect, "UnsupportedUsage", u.instance) : u \in Unsupported(aspect)}
      refused == {Stop(aspect, s.reason, s.relationship) : s \in {t \in ToSet(stated) : t.does = "refused"}}
      silent == Followed(aspect) = {} /\ unsupported = {} /\ \A s \in ToSet(stated) : s.does = "nothing"
  IN  missing \cup unsupported \cup refused \cup (IF silent THEN {Stop(aspect, "NoUsage", 0)} ELSE {})

(* steps_into, from where a step leads to the aspect.                       *)
StepsInto(aspect) ==
  UNION {StepsIntoFrom(aspect, r) : r \in ToSet(To(aspect))}
    \cup UNION {StepsIntoTo(aspect, r) : r \in {q \in ToSet(From(aspect)) : q.related # {}}}

-----------------------------------------------------------------------------
StartPmi ==
  /\ links = Unread /\ asked = NotAsked /\ doing = "nothing"
  /\ walked = NothingWalked /\ queue = << >>
  /\ routes = << >> /\ work = {}
  /\ trail = << >> /\ colour = << >> /\ back = {}

ReadLinks ==
  /\ ~links.read
  /\ links' = [usages |-> UsagesOfFile, relationships |-> RelationshipsOfFile, read |-> TRUE]
  /\ UNCHANGED <<asked, doing, walking, spreading, cycling>>

(* Each question starts from the index alone.                              *)
Ask(question, seeds) ==
  /\ links.read /\ asked = NotAsked
  /\ asked' = question /\ doing' = "walking"
  /\ walked' = [NothingWalked EXCEPT !.reached = [a \in ToSet(seeds) |-> [depth |-> 0, via |-> << >>]]]
  /\ queue' = seeds
  /\ UNCHANGED <<links, spreading, cycling>>

Resolve(definition) == Ask([does |-> "resolve", id |-> definition], <<definition>>)

(* The definitions that name the item themselves, in any order.             *)
Name(item) ==
  LET named == {u.definition : u \in Naming(item)}
  IN  Ask([does |-> "naming", id |-> item], SetToSeq({d \in named : StopAt(d) = {}}))

(* What is reached for the first time, by steps in their order.             *)
Reaches(reached, steps, aspect) ==
  FoldLeft(LAMBDA found, s :
             IF s.aspect \in DOMAIN found THEN found
             ELSE (s.aspect :> [depth |-> reached[aspect].depth + 1, via |-> <<aspect, s>>]) @@ found,
           reached, steps)

Later(steps, reached) ==
  LET first == {i \in DOMAIN steps : /\ steps[i].aspect \notin DOMAIN reached
                                     /\ \A j \in 1..i - 1 : steps[j].aspect # steps[i].aspect}
  IN  [k \in 1..Cardinality(first) |->
         steps[CHOOSE i \in first : Cardinality({j \in first : j <= i}) = k].aspect]

Here == Head(queue)

(* The steps on from an aspect, expanded once.                             *)
Expand(aspect, steps, stops) ==
  /\ walked' = [walked EXCEPT !.reached = Reaches(@, steps, aspect),
                              !.edges = (aspect :> steps) @@ @, !.stops = @ \cup stops,
                              !.order = IF asked.does = "resolve" THEN Append(@, aspect) ELSE @]
  /\ queue' = Tail(queue) \o Later(steps, walked.reached)
  /\ UNCHANGED <<links, asked, doing, spreading, cycling>>

(* Mutant of WalkTooDeep: an aspect at the limit is not reported.           *)
WalkTooDeepSilently ==
  LET stated == Stated(Here)
  IN  /\ doing = "walking" /\ queue # << >> /\ asked.does = "resolve" /\ StopAt(Here) = {}
      /\ StepsOf(stated) # << >> /\ walked.reached[Here].depth >= MaxPmiDepth
      /\ walked' = [walked EXCEPT !.order = Append(@, Here), !.stops = @ \cup Facts(Here, stated)]
      /\ queue' = Tail(queue)
      /\ UNCHANGED <<links, asked, doing, spreading, cycling>>

(* walk, at an aspect whose items are not read, ...                         *)
WalkStop ==
  /\ doing = "walking" /\ queue # << >> /\ asked.does = "resolve" /\ StopAt(Here) # {}
  /\ walked' = [walked EXCEPT !.stops = @ \cup {Stop(Here, reason, 0) : reason \in StopAt(Here)}]
  /\ queue' = Tail(queue)
  /\ UNCHANGED <<links, asked, doing, spreading, cycling>>

(* ... at one that lies at the limit, ...                                   *)
WalkTooDeep ==
  LET stated == Stated(Here)
  IN  /\ doing = "walking" /\ queue # << >> /\ asked.does = "resolve" /\ StopAt(Here) = {}
      /\ StepsOf(stated) # << >> /\ walked.reached[Here].depth >= MaxPmiDepth
      /\ walked' = [walked EXCEPT !.order = Append(@, Here),
                                  !.stops = @ \cup Facts(Here, stated) \cup {Stop(Here, "TooDeep", 0)}]
      /\ queue' = Tail(queue)
      /\ UNCHANGED <<links, asked, doing, spreading, cycling>>

(* ... and at any other.                                                   *)
WalkOn ==
  LET stated == Stated(Here)
  IN  /\ doing = "walking" /\ queue # << >> /\ asked.does = "resolve" /\ StopAt(Here) = {}
      /\ StepsOf(stated) = << >> \/ walked.reached[Here].depth < MaxPmiDepth
      /\ Expand(Here, StepsOf(stated), Facts(Here, stated))

(* naming: the way back, within the same limit, past aspects that stop.     *)
WalkBack ==
  /\ doing = "walking" /\ queue # << >> /\ asked.does = "naming"
  /\ LET steps == SetToSeq({s \in StepsInto(Here) : StopAt(s.aspect) = {}})
     IN  Expand(Here, IF walked.reached[Here].depth < MaxPmiDepth THEN steps ELSE << >>, {})

(* The kinds of the direct routes: none.  naming starts from every aspect    *)
(* that names the item.                                                    *)
StartSpreading ==
  /\ doing = "walking" /\ queue = << >>
  /\ LET seeds == {a \in DOMAIN walked.reached : walked.reached[a].depth = 0}
     IN  routes' = [a \in seeds |-> {{}}] /\ work' = seeds
  /\ doing' = "spreading"
  /\ UNCHANGED <<links, asked, walking, cycling>>

(* Routes::then. *)
Extended(sets, kind) == {kinds \cup {kind} : kinds \in sets}

RoutesAt(aspect) == IF aspect \in DOMAIN routes THEN routes[aspect] ELSE {}
EdgesAt(aspect) == IF aspect \in DOMAIN walked.edges THEN walked.edges[aspect] ELSE << >>

(* Mutant of Grown: only an aspect without routes is handed on.             *)
GrownOnce(aspect, steps) ==
  {s.aspect : s \in {t \in steps : RoutesAt(t.aspect) = {}}}

(* The aspects whose routes grow by a step from this one.                   *)
Grown(aspect, steps) ==
  {s.aspect : s \in {t \in steps : ~Extended(routes[aspect], t.kind) \subseteq RoutesAt(t.aspect)}}

(* One pass of the fixed point, in any order: the code's order is a hash     *)
(* map's.                                                                  *)
Spread ==
  /\ doing = "spreading"
  /\ \E aspect \in work :
       LET steps == ToSet(EdgesAt(aspect))
           Added(a) == UNION {Extended(routes[aspect], s.kind) : s \in {t \in steps : t.aspect = a}}
       IN  /\ routes' = [a \in DOMAIN routes \cup {s.aspect : s \in steps} |-> RoutesAt(a) \cup Added(a)]
           /\ work' = (work \ {aspect}) \cup Grown(aspect, steps)
  /\ UNCHANGED <<links, asked, doing, walking, cycling>>

StartCycles ==
  /\ doing = "spreading" /\ work = {}
  /\ IF asked.does = "resolve"
     THEN /\ doing' = "cycling"
          /\ trail' = <<[at |-> asked.id, next |-> 1]>> /\ colour' = (asked.id :> "grey")
     ELSE doing' = "answered" /\ UNCHANGED <<trail, colour>>
  /\ UNCHANGED <<links, asked, walking, spreading, back>>

(* back_edges: the next step of the aspect on top, ...                      *)
FollowEdge ==
  /\ doing = "cycling" /\ trail # << >>
  /\ LET top == Last(trail)
         step == EdgesAt(top.at)[top.next]
         on == [trail EXCEPT ![Len(trail)].next = @ + 1]
     IN  /\ top.next <= Len(EdgesAt(top.at))
         /\ IF step.aspect \in DOMAIN colour
            THEN /\ back' = IF colour[step.aspect] = "grey" THEN back \cup {<<top.at, step>>} ELSE back
                 /\ trail' = on /\ UNCHANGED colour
            ELSE /\ trail' = Append(on, [at |-> step.aspect, next |-> 1])
                 /\ colour' = (step.aspect :> "grey") @@ colour
                 /\ UNCHANGED back
  /\ UNCHANGED <<links, asked, doing, walking, spreading>>

(* ... or, after the last, the aspect below.                                *)
LeaveAspect ==
  /\ doing = "cycling" /\ trail # << >>
  /\ Last(trail).next > Len(EdgesAt(Last(trail).at))
  /\ colour' = [colour EXCEPT ![Last(trail).at] = "black"]
  /\ trail' = Front(trail)
  /\ UNCHANGED <<links, asked, doing, walking, spreading, back>>

EndCycles ==
  /\ doing = "cycling" /\ trail = << >>
  /\ doing' = "answered"
  /\ UNCHANGED <<links, asked, walking, spreading, cycling>>

NextPmi(definitions, items) ==
  \/ ReadLinks
  \/ \E definition \in definitions : Resolve(definition)
  \/ \E item \in items : Name(item)
  \/ WalkStop \/ WalkTooDeep \/ WalkOn \/ WalkBack
  \/ StartSpreading \/ Spread \/ StartCycles
  \/ FollowEdge \/ LeaveAspect \/ EndCycles

-----------------------------------------------------------------------------
(* What resolve returns: each item of the aspects in order, with the first   *)
(* aspect that lists it and the kinds of all routes.                        *)
ItemsListed(aspect) == {i \in UNION {u.items : u \in Followed(aspect)} : Defined(i)}

Via(aspect) ==
  LET route[n \in Nat, a \in Nat] ==
        LET via == walked.reached[a].via
        IN  IF n = 0 \/ via = << >> THEN << >> ELSE LET before == route[n - 1, via[1]] IN Append(before, via[2])
  IN  route[Cardinality(DOMAIN walked.reached), aspect]

ResolvedItems ==
  LET listing(item) == {k \in DOMAIN walked.order : item \in ItemsListed(walked.order[k])}
  IN  {[item |-> item,
        via |-> Via(walked.order[CHOOSE k \in listing(item) : \A j \in listing(item) : k <= j]),
        kinds |-> UNION {RoutesAt(walked.order[k]) : k \in listing(item)}] :
         item \in UNION {ItemsListed(a) : a \in ToSet(walked.order)}}

IsComplete == walked.stops = {} /\ back = {}

Named == {[definition |-> a, kinds |-> routes[a]] : a \in DOMAIN routes}

-----------------------------------------------------------------------------
(* The steps on from an aspect that is not a stop, and what n of them lead   *)
(* to from a definition: aspects with the kinds of a route to them.         *)
Onward(aspect) == IF StopAt(aspect) # {} THEN {} ELSE ToSet(StepsOf(Stated(aspect)))

RoutesWithin(definition, limit) ==
  LET within[n \in Nat] ==
        IF n = 0 THEN {<<definition, {}>>}
        ELSE LET prev == within[n - 1]
             IN  prev \cup UNION {{<<s.aspect, r[2] \cup {s.kind}>> : s \in Onward(r[1])} : r \in prev}
  IN  {r \in within[limit] : StopAt(r[1]) = {}}

(* Enough steps for a route of every set of kinds in a small file.          *)
Long == 10

Lists(route, item) == item \in ItemsListed(route[1])

(* A resolution has the items of every aspect within the limit, and no       *)
(* others: with the kinds of each route within it, no kinds that no route    *)
(* has, and a route that is a shortest one.                                 *)
ResolvesAll ==
  doing = "answered" /\ asked.does = "resolve" =>
    LET near == RoutesWithin(asked.id, MaxPmiDepth)
        all == RoutesWithin(asked.id, Long)
        Kinds(of, item) == {r[2] : r \in {q \in of : Lists(q, item)}}
    IN  /\ {found.item : found \in ResolvedItems} = UNION {ItemsListed(r[1]) : r \in near}
        /\ \A found \in ResolvedItems :
             /\ Kinds(near, found.item) \subseteq found.kinds
             /\ found.kinds \subseteq Kinds(all, found.item)
             /\ LET via == found.via
                    ends == [i \in 0..Len(via) |-> IF i = 0 THEN asked.id ELSE via[i].aspect]
                IN  /\ \A i \in DOMAIN via : via[i] \in Onward(ends[i - 1])
                    /\ found.item \in ItemsListed(ends[Len(via)])
                    /\ \A n \in 0..Len(via) - 1 :
                         \A r \in RoutesWithin(asked.id, n) : ~Lists(r, found.item)

(* A resolution without a report is the whole answer: however far one goes,  *)
(* each aspect is one that was walked, and has a followed usage or steps on; *)
(* no usage was passed over, and the steps never lead back.  A cycle is      *)
(* reported only where there is one.                                       *)
NothingSkipped ==
  doing = "answered" /\ asked.does = "resolve" =>
    LET Below(a) == {r[1] : r \in UNION {RoutesWithin(s.aspect, Long) : s \in ToSet(EdgesAt(a))}}
        aspects == {asked.id} \cup UNION {{r[1]} \cup {s.aspect : s \in Onward(r[1])} : r \in RoutesWithin(asked.id, Long)}
    IN  /\ IsComplete =>
             \A a \in aspects :
               /\ a \in ToSet(walked.order)
               /\ StopAt(a) = {} /\ Unsupported(a) = {}
               /\ Followed(a) # {} \/ EdgesAt(a) # << >>
               /\ \A u \in Followed(a) : \A i \in u.items : Defined(i)
               /\ a \notin Below(a)
        /\ \A b \in back : b[1] \in {b[2].aspect} \cup Below(b[2].aspect)

(* naming is the inverse of resolve: it lists the definitions that reach an  *)
(* aspect with the item within the limit, and the kinds agree on routes      *)
(* within it.                                                              *)
NamingAgrees ==
  doing = "answered" /\ asked.does = "naming" =>
    LET aspects == {a \in DOMAIN file : StopAt(a) = {}}
        Near(a) == {r \in RoutesWithin(a, MaxPmiDepth) : Lists(r, asked.id)}
        All(a) == {r \in RoutesWithin(a, Long) : Lists(r, asked.id)}
    IN  /\ {n.definition : n \in Named} = {a \in aspects : Near(a) # {}}
        /\ \A n \in Named : /\ {r[2] : r \in Near(n.definition)} \subseteq n.kinds
                            /\ n.kinds \subseteq {r[2] : r \in All(n.definition)}
=============================================================================
