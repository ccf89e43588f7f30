-------------------------------- MODULE Shape --------------------------------
(***************************************************************************)
(* The shapes of the definitions of a file (src/src/model/shape.rs): the   *)
(* index of which definitions reach which representation, built once per   *)
(* structure, and the walk of each definition over its own shape, which    *)
(* refuses what another definition reaches too.                            *)
(*                                                                         *)
(*   owners   [representation -> definitions found to reach it]             *)
(*   walk     [frames, seen, visits, exhausted, listed, notFollowed]        *)
(*   frames   the representations on the walk's path, outermost first:     *)
(*            [rep, mapped |-> the mapped item that leads there, or none,   *)
(*             items, users |-> what is left of the two loops]              *)
(*   shapes   the finished walks' [listed, notFollowed], per definition     *)
(*                                                                         *)
(* What is not followed is a set of instances with their reasons, as the    *)
(* set `reported` of the code holds it.                                    *)
(***************************************************************************)
EXTENDS ProductStructure

CONSTANTS Files,       \* the files
          MaxShapeDepth, MaxShapeVisits

ASSUME FilesAssumption == \A f \in Files : DOMAIN f \subseteq Nat /\ IsFiniteSet(DOMAIN f)

(* What any parser yields: records, their parameters and lists in sequence.  *)
ASSUME SequencesAssumption ==
  \A f \in Files : \A id \in DOMAIN f :
    /\ IsSequence(f[id].records) /\ Len(f[id].records) # 0
    /\ \A r \in ToSet(f[id].records) :
         /\ IsSequence(r.params)
         /\ \A p \in ToSet(r.params) : p.kind = "list" => IsSequence(p.items)

ASSUME ShapeLimits == MaxShapeDepth \in Nat /\ MaxShapeVisits \in Nat

VARIABLES structure, owners,
          phase, definition,   \* which loop runs, and the definition it is at
          pending,             \* index: the representations still to look at
          roots,               \* the shape representations still to walk
          walk, shapes

vars == <<file, users, structure, owners, phase, definition, pending, roots, walk, shapes>>

Count == Len(structure.definitions)
Owners(rep) == IF rep \in DOMAIN owners THEN owners[rep] ELSE {}
Others(rep) == Owners(rep) \ {definition}

NoWalk == [frames |-> << >>, seen |-> {}, visits |-> 0, exhausted |-> FALSE,
           listed |-> << >>, notFollowed |-> {}]

-----------------------------------------------------------------------------
(* The graph, then the product structure over it.                           *)
BuildGraph ==
  /\ phase = "graph"
  /\ users' = UsersOfFile
  /\ phase' = "structure"
  /\ UNCHANGED <<file, structure, owners, definition, pending, roots, walk, shapes>>

BuildStructure ==
  /\ phase = "structure"
  /\ structure' = StructureOfFile
  /\ phase' = IF Len(structure'.definitions) > 0 THEN "index" ELSE "occurrences"
  /\ UNCHANGED <<file, users, owners, definition, pending, roots, walk, shapes>>

(* index: definition by definition, over what the walks follow.  The code    *)
(* keeps a stack; any order, of which that is one, finds the same owners.    *)
BeginIndex ==
  /\ phase = "index"
  /\ pending' = ToSet(Shapes(structure, definition))
  /\ phase' = "indexing"
  /\ UNCHANGED <<file, users, structure, owners, definition, roots, walk, shapes>>

(* Mutant of Expands: only for its first owner.                             *)
ExpandsOnce(rep) == Owners(rep) = {}

(* A representation is expanded for its first and its second owner only.    *)
Expands(rep) == definition \notin Owners(rep) /\ Cardinality(Owners(rep)) < 2

Index(rep) ==
  /\ phase = "indexing"
  /\ owners' = [r \in DOMAIN owners \cup {rep} |->
                  IF r = rep THEN Owners(r) \cup {definition} ELSE owners[r]]
  /\ pending' = (pending \ {rep})
                   \cup (IF Expands(rep) THEN Followed(structure, rep, definition) ELSE {})
  /\ UNCHANGED <<file, users, structure, phase, definition, roots, walk, shapes>>

IndexNext ==
  /\ phase = "indexing" /\ pending = {}
  /\ IF definition < Count
     THEN definition' = definition + 1 /\ phase' = "index"
     ELSE definition' = 1 /\ phase' = "shape"
  /\ UNCHANGED <<file, users, structure, owners, pending, roots, walk, shapes>>

-----------------------------------------------------------------------------
(* Walk::refuse, Walk::count.                                              *)
Refuse(w, id, reason) == [w EXCEPT !.notFollowed = @ \cup {[instance |-> id, reason |-> reason]}]

Counted(w, id) ==
  IF w.exhausted THEN w
  ELSE IF w.visits < MaxShapeVisits THEN [w EXCEPT !.visits = @ + 1]
  ELSE Refuse([w EXCEPT !.exhausted = TRUE], id, "too_large")

Frame(rep, mapped) ==
  LET items == UNION {{r.items} : r \in Representation(rep)}
  IN  [rep |-> rep, mapped |-> mapped, users |-> Referrers(rep),
       items |-> IF items = {} THEN << >> ELSE CHOOSE s \in items : TRUE]

OnPath(w) == {w.frames[i].rep : i \in DOMAIN w.frames}
Depth(w) == Len(w.frames) - 1

(* The mapped items that place what a walk is at, at.mapped.                *)
Placing(w) == FlattenSeq([i \in DOMAIN w.frames |-> w.frames[i].mapped])

(* Walk::visit, up to its loops.                                           *)
Visit(w, rep, mapped) ==
  LET c == Counted(w, rep)
      key == <<rep, Placing(w) \o mapped>>
      entered == [c EXCEPT !.seen = @ \cup {key}]
  IN  IF c.exhausted \/ key \in w.seen THEN c
      ELSE IF Representation(rep) = {} THEN Refuse(entered, rep, UnreadableReason(rep))
      ELSE [entered EXCEPT !.frames = Append(@, Frame(rep, mapped))]

(* Mutant of Descend: a limit that is kept silently.                        *)
DescendSilent(w, id, rep, mapped) ==
  IF Others(rep) # {} THEN Refuse(w, id, "other_definition")
  ELSE IF Depth(w) >= MaxShapeDepth THEN w
  ELSE Visit(w, rep, mapped)

(* The end of Walk::mapped and Walk::link: to a representation not on the    *)
(* path, unless it is another definition's or too deep.                     *)
Descend(w, id, rep, mapped) ==
  IF Others(rep) # {} THEN Refuse(w, id, "other_definition")
  ELSE IF Depth(w) >= MaxShapeDepth THEN Refuse(w, id, "too_large")
  ELSE Visit(w, rep, mapped)

(* Walk::mapped. *)
Mapped(w, item, mapped) ==
  IF Others(mapped.representation) = {} /\ mapped.representation \in OnPath(w)
  THEN Refuse(w, item, "cycle")
  ELSE Descend(w, item, mapped.representation, <<item>>)

(* Walk::item: frames and components are skipped, mapped items followed, and *)
(* what is left is listed, once for each placing.                           *)
Listed(w, item) ==
  LET key == <<item, Placing(w)>>
  IN  IF key \in w.seen THEN w
      ELSE [w EXCEPT !.seen = @ \cup {key},
                     !.listed = Append(@, [item |-> item, solid |-> HasAny(item, Solids),
                                           representation |-> Last(w.frames).rep,
                                           root |-> w.frames[1].rep, mapped |-> Placing(w)])]

Item(w, item) ==
  LET mapped == MappedItem(item)
  IN  IF ~Defined(item) THEN Refuse(w, item, UnreadableReason(item))
      ELSE IF Entity(item) = <<"AXIS2_PLACEMENT_3D">> \/ PlacesComponent(structure, item, definition)
      THEN w
      ELSE CASE mapped.kind = "plain" -> Mapped(w, item, mapped)
             [] mapped.kind = "malformed" -> Refuse(w, item, "malformed")
             [] mapped.kind = "other" -> Refuse(w, item, "not_plain_mapped_item")
             [] mapped.kind = "no" -> Listed(w, item)

(* What a relationship of a usage must lead to: a shape representation of    *)
(* the other definition of the usage.                                       *)
LeadsToUsage(link) ==
  LET usages == structure.usages
      named == {k \in DOMAIN usages : usages[k].instance \in link.usage}
      others == UNION {IF usages[k].parent = definition THEN {usages[k].child}
                       ELSE IF usages[k].child = definition THEN {usages[k].parent} ELSE {} :
                         k \in named}
  IN  \E other \in others : link.far \in ToSet(Shapes(structure, other))

(* Walk::link: follows, skips or reports a user of the representation.       *)
Link(w, user) ==
  LET link == LinkFrom(user, Last(w.frames).rep)
      expected == \/ link.kind = "usage" /\ LeadsToUsage(link)
                  \/ link.kind = "constructive" /\ Defined(link.far) /\ IsConstructive(link.far)
  IN  IF StatesExternal(user) THEN Refuse(w, user, "external")
      ELSE CASE link.kind = "none" -> w
             [] link.kind = "refused" -> Refuse(w, user, link.reason)
             [] link.kind \in {"usage", "constructive"} ->
                  IF expected THEN w ELSE Refuse(w, user, "unexpected_target")
             [] link.kind = "follow" ->
                  IF link.far \in OnPath(w) THEN w ELSE Descend(w, user, link.far, << >>)

-----------------------------------------------------------------------------
(* ProductStructure::shape: the documents, then each shape representation.  *)
Begin ==
  /\ phase = "shape"
  /\ LET id == structure.definitions[definition].instance
         documents == AssociatedDocuments(id) \cup {u \in ToSet(Referrers(id)) : NamesDocument(u)}
     IN  walk' = [NoWalk EXCEPT !.notFollowed =
                    {[instance |-> d, reason |-> "external"] : d \in documents}]
  /\ roots' = WithoutRepeats(Shapes(structure, definition))
  /\ phase' = "walking"
  /\ UNCHANGED <<file, users, structure, owners, definition, pending, shapes>>

Root ==
  /\ phase = "walking" /\ walk.frames = << >> /\ roots # << >>
  /\ roots' = Tail(roots)
  /\ walk' = IF Others(Head(roots)) # {} THEN Refuse(walk, Head(roots), "other_definition")
             ELSE Visit([walk EXCEPT !.seen = {}], Head(roots), << >>)
  /\ UNCHANGED <<file, users, structure, owners, phase, definition, pending, shapes>>

Top == Last(walk.frames)
Without(w, loop) == [w EXCEPT !.frames[Len(w.frames)][loop] = Tail(@)]

(* One pass of the loop over the items, and of the one over the users; once  *)
(* exhausted, every loop on the path ends.                                  *)
VisitItem ==
  /\ phase = "walking" /\ walk.frames # << >> /\ ~walk.exhausted /\ Top.items # << >>
  /\ LET c == Counted(Without(walk, "items"), Head(Top.items))
     IN  walk' = IF c.exhausted THEN c ELSE Item(c, Head(Top.items))
  /\ UNCHANGED <<file, users, structure, owners, phase, definition, pending, roots, shapes>>

VisitUser ==
  /\ phase = "walking" /\ walk.frames # << >> /\ ~walk.exhausted
  /\ Top.items = << >> /\ Top.users # << >>
  /\ LET c == Counted(Without(walk, "users"), Top.rep)
     IN  walk' = IF c.exhausted THEN c ELSE Link(c, Head(Top.users))
  /\ UNCHANGED <<file, users, structure, owners, phase, definition, pending, roots, shapes>>

Return ==
  /\ phase = "walking" /\ walk.frames # << >>
  /\ walk.exhausted \/ (Top.items = << >> /\ Top.users = << >>)
  /\ walk' = [walk EXCEPT !.frames = Front(@)]
  /\ UNCHANGED <<file, users, structure, owners, phase, definition, pending, roots, shapes>>

Finish ==
  /\ phase = "walking" /\ walk.frames = << >> /\ roots = << >>
  /\ shapes' = Append(shapes, [listed |-> walk.listed, notFollowed |-> walk.notFollowed])
  /\ walk' = NoWalk
  /\ IF definition < Count
     THEN definition' = definition + 1 /\ phase' = "shape"
     ELSE definition' = 1 /\ phase' = "occurrences"
  /\ UNCHANGED <<file, users, structure, owners, pending, roots>>

Init ==
  /\ file \in Files
  /\ users = << >> /\ structure = [definitions |-> << >>, usages |-> << >>]
  /\ owners = [rep \in {} |-> {}]
  /\ phase = "graph" /\ definition = 1
  /\ pending = {} /\ roots = << >> /\ walk = NoWalk /\ shapes = << >>

Next ==
  \/ BuildGraph \/ BuildStructure \/ BeginIndex \/ (\E rep \in pending : Index(rep)) \/ IndexNext
  \/ Begin \/ Root \/ VisitItem \/ VisitUser \/ Return \/ Finish

Spec == Init /\ [][Next]_vars

-----------------------------------------------------------------------------
(* What a shape is, without an algorithm: the representations reached from   *)
(* a shape representation, each under the mapped items that place it, along  *)
(* at most n links.                                                        *)
MappedOf(d, rep) ==
  {i \in UNION {ToSet(r.items) : r \in Representation(rep)} :
     MappedItem(i).kind = "plain" /\ ~PlacesComponent(structure, i, d)}

FollowedFrom(rep) ==
  {l.far : l \in {x \in {LinkFrom(u, rep) : u \in ToSet(Referrers(rep))} : x.kind = "follow"}}

Onwards(d, at) ==
  {<<far, at[2]>> : far \in FollowedFrom(at[1])}
    \cup {<<MappedItem(i).representation, Append(at[2], i)>> : i \in MappedOf(d, at[1])}

Within(d, root, n) ==
  LET Reached[k \in 0..n] ==
        IF k = 0 THEN {<<root, << >>>>}
        ELSE Reached[k - 1] \cup UNION {Onwards(d, at) : at \in Reached[k - 1]}
  IN  Reached

ReachedFrom(d, root, n) == Within(d, root, n)[n]

(* The items to list at such a place.                                       *)
OwnItems(d, rep) ==
  {i \in UNION {ToSet(r.items) : r \in Representation(rep)} :
     Defined(i) /\ MappedItem(i).kind = "no" /\ Entity(i) # <<"AXIS2_PLACEMENT_3D">>
     /\ ~PlacesComponent(structure, i, d)}

WholeShape(d, n) ==
  UNION {UNION {{<<i, at[2], root>> : i \in OwnItems(d, at[1])} : at \in ReachedFrom(d, root, n)} :
           root \in ToSet(Shapes(structure, d))}

ListedShape(d) == {<<l.item, l.mapped, l.root>> : l \in ToSet(shapes[d].listed)}

(* Every state of the file in which a mapped item leads, over further links,  *)
(* back to the representation that lists it.                                *)
PlacesItself(d, n) ==
  \E root \in ToSet(Shapes(structure, d)) :
    \E at, again \in ReachedFrom(d, root, n) :
      at[1] = again[1] /\ at[2] # again[2] /\ IsPrefix(at[2], again[2])

(* The representations that a walk of the definition comes to.               *)
ReachedReps(d, n) ==
  {at[1] : at \in UNION {ReachedFrom(d, root, n) : root \in ToSet(Shapes(structure, d))}}

(* No item to list is also walked as a representation: the walk remembers    *)
(* both in one set, by instance name, and so it would lose one of the two.   *)
ItemsAreNoShapes(d, n) ==
  \A rep \in ReachedReps(d, n) : OwnItems(d, rep) \cap ReachedReps(d, n) = {}

(* A shape without anything left unfollowed is the whole shape: every item   *)
(* of every representation the links reach, under each placing, once.  A     *)
(* limit, a refusal or a representation seen before must never lose one in   *)
(* silence.                                                                *)
CompleteIsWhole ==
  \A d \in DOMAIN shapes :
    /\ shapes[d].notFollowed = {}
    /\ ItemsAreNoShapes(d, MaxShapeDepth + 2)
    /\ ~PlacesItself(d, MaxShapeDepth + 2)
    => /\ ListedShape(d) = WholeShape(d, MaxShapeDepth + 2)
       /\ Len(shapes[d].listed) = Cardinality(ListedShape(d))

(* The least set that holds the members of `from` and, with each of its       *)
(* members, what that one links to.                                         *)
Least(from, links) ==
  {rep \in DOMAIN links :
     \A C \in SUBSET DOMAIN links :
       from \subseteq C /\ (\A r \in C : links[r] \subseteq C) => rep \in C}

Starts(d) == ToSet(Shapes(structure, d))
Linked(d) == Starts(d) \cup UNION {Followed(structure, rep, d) : rep \in DOMAIN file}

(* The links that a walk follows whichever definition it is of: all but      *)
(* those that place a component of one.                                     *)
FollowedByAll(rep) ==
  {far \in Followed(structure, rep, 1) : \A d \in 1..Count : far \in Followed(structure, rep, d)}

(* The representations that a definition's links lead to, and those that     *)
(* they lead to whatever places components.                                 *)
Claimed(d) == Least(Starts(d), [rep \in Linked(d) |-> Followed(structure, rep, d)])
ClaimedPlainly(d) == Least(Starts(d), [rep \in Linked(d) |-> FollowedByAll(rep)])

(* No representation in which a component is placed belongs to three.        *)
FewShareComponents ==
  \A rep \in DOMAIN file :
    (\E d, e \in 1..Count : Followed(structure, rep, d) # Followed(structure, rep, e))
      => ~\E c, d, e \in 1..Count :
            c # d /\ d # e /\ c # e /\ rep \in Claimed(c) \cap Claimed(d) \cap Claimed(e)

ListedIn(d) == {l.representation : l \in ToSet(shapes[d].listed)}

(* What a definition lists lies in no representation that another            *)
(* definition's links reach: the index expands a representation for two      *)
(* owners only, and finds every other claim all the same, unless the third   *)
(* owner's links are other ones, as where a component is placed.  And only   *)
(* who claims a representation counts as its owner, so that nothing is      *)
(* refused for another definition's sake without cause.                     *)
OneOwner ==
  phase = "occurrences" =>
    /\ \A d, e \in DOMAIN shapes :
         d # e => /\ ListedIn(d) \cap ClaimedPlainly(e) = {}
                  /\ FewShareComponents => ListedIn(d) \cap Claimed(e) = {}
    /\ \A rep \in DOMAIN owners : \A d \in owners[rep] : rep \in Claimed(d)
=============================================================================
