----------------------------- MODULE ShapeProofs -----------------------------
(***************************************************************************)
(* Two facts about the shapes of definitions, for any file and any limits.  *)
(*                                                                         *)
(* What a definition's shape lists is no other definition's (OneOwner): the *)
(* index finds every claim that matters before a walk starts, though it     *)
(* expands a representation for two owners only.  The invariant (ShapeInv)   *)
(* says of the index that either all owners of a representation have passed *)
(* it on along their links, or two of them have (SpreadInv).  Along a link   *)
(* that both follow it then has two owners again, and whoever else claims it *)
(* need not be found: nobody lists it.                                      *)
(*                                                                         *)
(* A shape with nothing left unfollowed is whole (CompleteIsWhole).  The     *)
(* invariant (WholeInv) says of a walk with nothing to report that every     *)
(* place it has seen is dealt with, or still in a loop of its path (Done),   *)
(* and that it lists what belongs to the shape, once, and from the roots it  *)
(* is done with all of it (Listings).                                       *)
(***************************************************************************)
EXTENDS Shape, SequenceLemmas, FiniteSetTheorems, TLAPS

-----------------------------------------------------------------------------
(* What an unchanged file and unchanged users leave as it is.               *)

FileKept == file' = file /\ users' = users

LEMMA RecordsKept ==
  ASSUME FileKept, NEW id
  PROVE  /\ Defined(id)' = Defined(id) /\ IsExternal(id)' = IsExternal(id)
         /\ IsComplex(id)' = IsComplex(id) /\ RecordsOf(id)' = RecordsOf(id)
         /\ FirstRecord(id)' = FirstRecord(id) /\ Entity(id)' = Entity(id)
         /\ \A name : Has(id, name)' = Has(id, name)
         /\ \A names : HasAny(id, names)' = HasAny(id, names)
         /\ \A name : IsSimple(id, name)' = IsSimple(id, name)
         /\ \A name : FirstIs(id, name)' = FirstIs(id, name)
         /\ \A name : Partial(id, name)' = Partial(id, name)
         /\ \A i : FirstReference(id, i)' = FirstReference(id, i)
         /\ RepeatsPartial(id)' = RepeatsPartial(id)
         /\ Referrers(id)' = Referrers(id)
BY DEF FileKept, Defined, IsExternal, IsComplex, RecordsOf, FirstRecord, Entity, Has, HasAny, IsSimple, FirstIs, Partial,
       FirstReference, RepeatsPartial, Referrers

LEMMA RepresentationKept ==
  ASSUME FileKept, NEW id
  PROVE  /\ Representation(id)' = Representation(id)
         /\ UnreadableReason(id)' = UnreadableReason(id)
BY RecordsKept DEF Representation, RepresentationParams, UnreadableReason

LEMMA MappedKept ==
  ASSUME FileKept, NEW id
  PROVE  MappedItem(id)' = MappedItem(id)
<1>1. \A map, target : ReadMap(map, target)' = ReadMap(map, target)
  BY RecordsKept DEF ReadMap
<1>2. MappedParams(id)' = MappedParams(id)
  BY RecordsKept DEF MappedParams
<1>3. /\ Defined(id)' = Defined(id) /\ IsComplex(id)' = IsComplex(id)
      /\ HasAny(id, MappedItemTypes)' = HasAny(id, MappedItemTypes)
      /\ RepeatsPartial(id)' = RepeatsPartial(id)
      /\ Entity(id)' = Entity(id) /\ Has(id, "MAPPED_ITEM")' = Has(id, "MAPPED_ITEM")
  BY RecordsKept
<1>4. MapsOf(id)' = MapsOf(id)
  BY <1>1, <1>2 DEF MapsOf
<1> QED
  BY ONLY <1>3, <1>4 DEF MappedItem

LEMMA LinkKept ==
  ASSUME FileKept, NEW id, NEW rep
  PROVE  LinkFrom(id, rep)' = LinkFrom(id, rep)
<1>1. SidesOf(id)' = SidesOf(id)
  BY RecordsKept DEF SidesOf
<1>2. UsageNaming(id)' = UsageNaming(id)
  <2>1. \A link : UNION {ReferenceAt(FirstRecord(shape), 3) : shape \in {s \in FirstReference(link, 2) : Defined(s)}}'
                   = UNION {ReferenceAt(FirstRecord(shape), 3) : shape \in {s \in FirstReference(link, 2) : Defined(s)}}
    BY RecordsKept
  <2>2. Referrers(id)' = Referrers(id) /\ \A link : Has(link, CDSR)' = Has(link, CDSR)
    BY RecordsKept
  <2> QED
    BY ONLY <2>1, <2>2 DEF UsageNaming
<1>3. PlainRelationship(id)' = PlainRelationship(id)
  <2>1. /\ IsComplex(id)' = IsComplex(id) /\ Entity(id)' = Entity(id) /\ RecordsOf(id)' = RecordsOf(id)
        /\ FirstIs(id, SRR)' = FirstIs(id, SRR) /\ FirstRecord(id)' = FirstRecord(id)
    BY RecordsKept
  <2> QED
    BY ONLY <2>1, FileKept DEF PlainRelationship, FileKept
<1>4. \A far : SameSpace(rep, far)' = SameSpace(rep, far)
  BY RepresentationKept DEF SameSpace
<1>5. \A far : LinkTo(id, rep, far)' = LinkTo(id, rep, far)
  BY <1>2, <1>3, <1>4, RecordsKept DEF LinkTo
<1> QED
  BY <1>1, <1>5, RecordsKept DEF LinkFrom

LEMMA FollowedKept ==
  ASSUME FileKept, NEW s, NEW rep, NEW d
  PROVE  Followed(s, rep, d)' = Followed(s, rep, d)
BY RecordsKept, RepresentationKept, MappedKept, LinkKept DEF Followed

LEMMA ClaimedKept ==
  ASSUME FileKept, structure' = structure, NEW d
  PROVE  Starts(d)' = Starts(d) /\ Claimed(d)' = Claimed(d)
<1>1. \A rep : Followed(structure, rep, d)' = Followed(structure, rep, d)
  BY FollowedKept
<1>2. Starts(d)' = Starts(d)
  BY DEF Starts
<1>3. Linked(d)' = Linked(d)
  BY <1>1, <1>2 DEF Linked, FileKept
<1> QED
  BY <1>1, <1>2, <1>3 DEF Claimed

-----------------------------------------------------------------------------
LEMMA DefinitionsCounted ==
  ASSUME DOMAIN file \subseteq Nat, IsFiniteSet(DOMAIN file)
  PROVE  /\ Len(StructureOfFile.definitions) \in Nat
         /\ \A d \in 1..Len(StructureOfFile.definitions) :
              \E id : Shapes(StructureOfFile, d) = ShapeRepresentations(id)
<1> DEFINE U == {id \in DOMAIN file : HasAny(id, UsageEntities) /\ Ends(id) # {}}
           P == {id \in DOMAIN file : HasAny(id, {"PRODUCT_DEFINITION"})}
           usages == UsageNodes
           ends == [k \in DOMAIN usages |-> EndsOf(usages[k])]
           S == UNION {{EndsOf(id)[1], EndsOf(id)[2]} : id \in U}
           all == InstancesOf({"PRODUCT_DEFINITION"}) \o FlattenSeq(ends)
           places == {k \in DOMAIN all : \A j \in 1..k - 1 : all[j] # all[k]}
<1>1. /\ U \subseteq Nat /\ IsFiniteSet(U) /\ P \subseteq Nat /\ IsFiniteSet(P)
  <2>1. U \subseteq DOMAIN file /\ P \subseteq DOMAIN file
    OBVIOUS
  <2> HIDE DEF U, P
  <2> QED
    BY <2>1, FS_Subset
<1>2. usages = InOrder(U) /\ InstancesOf({"PRODUCT_DEFINITION"}) = InOrder(P)
  BY DEF UsageNodes, InstancesOf
<1>3. \A id \in U : EndsOf(id) \in Seq(S)
  <2> SUFFICES ASSUME NEW id \in U PROVE EndsOf(id) \in Seq(S)
    OBVIOUS
  <2>1. EndsOf(id) \in Ends(id)
    BY DEF EndsOf
  <2>2. PICK a, b : EndsOf(id) = <<a, b>>
    BY <2>1 DEF Ends
  <2>3. a \in S /\ b \in S
    BY <2>2
  <2> HIDE DEF S
  <2> QED
    BY <2>2, <2>3
<1> HIDE DEF U, P, S
<1>4. ends \in Seq(Seq(S))
  <2> HIDE DEF usages
  <2>1. usages \in Seq(U)
    BY <1>1, <1>2, InOrderLists
  <2>2. ends \in [1..Len(usages) -> Seq(S)]
    BY <2>1, <1>3
  <2> QED
    BY <2>1, <2>2
<1>5. IsSequence(InOrder(P)) /\ IsSequence(FlattenSeq(ends))
  <2>1. InOrder(P) \in Seq(P) /\ FlattenSeq(ends) \in Seq(S)
    BY <1>1, <1>4, InOrderLists, FlattenPlaces
  <2> QED
    BY <2>1, SeqIsSequence
<1>6. IsSequence(all)
  BY <1>2, <1>5, ConcatSequence
<1>7. places \in SUBSET Nat /\ IsFiniteSet(places)
  <2> HIDE DEF all
  <2>1. places \subseteq DOMAIN all
    OBVIOUS
  <2> HIDE DEF places
  <2> QED
    BY <1>6, <2>1, PlacesFinite
<1>8. DefinitionNodes(usages) = ElementsAt(all, places)
  BY DEF DefinitionNodes, WithoutRepeats
<1> HIDE DEF all, places, usages
<1>9. IsSequence(DefinitionNodes(usages))
  BY <1>7, <1>8, ElementsAtLists
<1> DEFINE nodes == DefinitionNodes(usages)
<1>10. StructureOfFile.definitions = Definitions(nodes)
  BY DEF StructureOfFile, usages
<1>11. Definitions(nodes) = [d \in DOMAIN nodes |-> Definitions(nodes)[d]]
  BY DEF Definitions
<1>12. \A d \in DOMAIN nodes : Definitions(nodes)[d].shapes = ShapeRepresentations(nodes[d])
  BY DEF Definitions
<1> HIDE DEF nodes
<1>13. IsSequence(Definitions(nodes)) /\ Len(Definitions(nodes)) = Len(nodes)
  BY <1>9, <1>11, SameDomainSequence DEF nodes
<1>14. Len(nodes) \in Nat /\ DOMAIN nodes = 1..Len(nodes)
  BY <1>9, SequenceOf DEF nodes
<1> QED
  BY <1>10, <1>12, <1>13, <1>14 DEF Shapes

-----------------------------------------------------------------------------
(* The definitions that the index is done with, and what it has found or is  *)
(* about to.                                                               *)
Indexed == IF phase \in {"index", "indexing"} THEN 1..definition - 1 ELSE 1..Count

Found(d, rep) ==
  \/ d \in Owners(rep)
  \/ phase = "indexing" /\ d = definition /\ rep \in pending

(* An owner that has passed a representation on along all its links.        *)
Spread(d, rep) ==
  d \in Owners(rep) /\ \A far \in Followed(structure, rep, d) : Found(d, far)

FileInv == DOMAIN file \subseteq Nat /\ IsFiniteSet(DOMAIN file)

RangeInv ==
  /\ phase \in {"graph", "structure", "index", "indexing", "shape", "walking", "occurrences"}
  /\ Count \in Nat
  /\ phase \in {"graph", "structure"} => DOMAIN owners = {} /\ definition = 1
  /\ phase \in {"index", "indexing", "shape", "walking"} => definition \in 1..Count

(* Every definition owns its shape representations.                        *)
StartsInv ==
  /\ phase \notin {"graph", "structure"} =>
       \A d \in Indexed : \A rep \in Starts(d) : d \in Owners(rep)
  /\ phase = "indexing" => \A rep \in Starts(definition) : Found(definition, rep)

(* All owners have passed a representation on, or two have.                *)
SpreadInv ==
  \A rep \in DOMAIN owners :
    \/ \A d \in Owners(rep) : Spread(d, rep)
    \/ \E d, e \in Owners(rep) : d # e /\ Spread(d, rep) /\ Spread(e, rep)

(* Owners are definitions that claim what they own.                         *)
SoundInv ==
  /\ \A rep \in DOMAIN owners : owners[rep] \subseteq 1..Count /\ \A d \in owners[rep] : rep \in Claimed(d)
  /\ phase = "indexing" => pending \subseteq Claimed(definition)

(* No other definition owns the representation.                             *)
Apart(d, rep) == Owners(rep) \subseteq {d}

IsWalk(w) ==
  /\ w = [field \in {"frames", "seen", "visits", "exhausted", "listed", "notFollowed"} |-> w[field]]
  /\ IsSequence(w.frames) /\ IsSequence(w.listed)

IsFrame(f) == f = [field \in {"rep", "mapped", "users", "items"} |-> f[field]]

(* A walk is at, and has listed from, such representations only.            *)
Own(w) ==
  /\ IsWalk(w)
  /\ \A i \in DOMAIN w.frames : IsFrame(w.frames[i]) /\ Apart(definition, w.frames[i].rep)
  /\ \A i \in DOMAIN w.listed : Apart(definition, w.listed[i].representation)

WalkInv ==
  /\ phase = "walking" => Own(walk)
  /\ IsSequence(shapes)
  /\ phase \in {"graph", "structure", "index", "indexing"} => Len(shapes) = 0
  /\ phase \in {"shape", "walking"} => Len(shapes) = definition - 1
  /\ phase = "occurrences" => Len(shapes) = Count
  /\ \A d \in DOMAIN shapes : \A i \in DOMAIN shapes[d].listed :
       Apart(d, shapes[d].listed[i].representation)

ShapeInv == FileInv /\ RangeInv /\ StartsInv /\ SpreadInv /\ SoundInv /\ WalkInv

-----------------------------------------------------------------------------
LEMMA FollowedDefined ==
  ASSUME NEW rep, rep \notin DOMAIN file, NEW d
  PROVE  Followed(structure, rep, d) = {}
<1>1. Representation(rep) = {} /\ Referrers(rep) = << >>
  BY DEF Representation, Referrers, Defined
<1>2. ToSet(Referrers(rep)) = {}
  BY <1>1 DEF ToSet
<1> QED
  BY <1>1, <1>2 DEF Followed

LEMMA ClaimedClosed ==
  ASSUME NEW d
  PROVE  /\ Starts(d) \subseteq Claimed(d)
         /\ \A rep \in Claimed(d) : Followed(structure, rep, d) \subseteq Claimed(d)
<1> DEFINE links == [rep \in Linked(d) |-> Followed(structure, rep, d)]
           IsClosed(C) == Starts(d) \subseteq C /\ \A r \in C : links[r] \subseteq C
<1>1. Claimed(d) = {rep \in Linked(d) : \A C \in SUBSET Linked(d) : IsClosed(C) => rep \in C}
  BY DEF Claimed, Least
<1>2. Starts(d) \subseteq Linked(d) /\ \A rep : Followed(structure, rep, d) \subseteq Linked(d)
  BY FollowedDefined DEF Linked
<1>3. Starts(d) \subseteq Claimed(d)
  BY <1>1, <1>2
<1>4. ASSUME NEW rep \in Claimed(d), NEW far \in Followed(structure, rep, d)
      PROVE  far \in Claimed(d)
  <2>1. rep \in Linked(d) /\ far \in Linked(d)
    BY <1>1, <1>2, <1>4
  <2>2. links[rep] = Followed(structure, rep, d)
    BY <2>1
  <2>3. ASSUME NEW C \in SUBSET Linked(d), IsClosed(C)
        PROVE  far \in C
    BY <1>1, <1>4, <2>2, <2>3
  <2> QED
    BY <1>1, <2>1, <2>3
<1> QED
  BY <1>3, <1>4

(* A set that holds the starts and, with each of its claimed members, what   *)
(* that one links to, holds everything claimed.                             *)
LEMMA ClaimedLeast ==
  ASSUME NEW d, NEW T, Starts(d) \subseteq T,
         \A rep \in Claimed(d) \cap T : Followed(structure, rep, d) \subseteq T
  PROVE  Claimed(d) \subseteq T
<1> DEFINE links == [rep \in Linked(d) |-> Followed(structure, rep, d)]
           C == Claimed(d) \cap T
<1>1. C \in SUBSET Linked(d)
  BY DEF Claimed, Least
<1>2. Starts(d) \subseteq C /\ \A r \in C : links[r] \subseteq C
  BY <1>1, ClaimedClosed
<1>3. ASSUME NEW rep \in Claimed(d) PROVE rep \in C
  BY <1>1, <1>2, <1>3 DEF Claimed, Least
<1> QED
  BY <1>3

LEMMA ClaimedPlainlyLeast ==
  ASSUME NEW d \in 1..Count, NEW T, Starts(d) \subseteq T,
         \A rep \in T : FollowedByAll(rep) \subseteq T
  PROVE  ClaimedPlainly(d) \subseteq T
<1> DEFINE links == [rep \in Linked(d) |-> FollowedByAll(rep)]
           C == Linked(d) \cap T
<1>1. Starts(d) \subseteq Linked(d) /\ \A rep : Followed(structure, rep, d) \subseteq Linked(d)
  BY FollowedDefined DEF Linked
<1>2. \A rep : FollowedByAll(rep) \subseteq Followed(structure, rep, d)
  BY DEF FollowedByAll
<1>3. Starts(d) \subseteq C /\ \A r \in C : links[r] \subseteq C
  BY <1>1, <1>2
<1>4. ASSUME NEW rep \in ClaimedPlainly(d) PROVE rep \in C
  BY <1>3, <1>4 DEF ClaimedPlainly, Least
<1> QED
  BY <1>4

-----------------------------------------------------------------------------
LEMMA TwoMembers ==
  ASSUME NEW S, IsFiniteSet(S), ~(Cardinality(S) < 2)
  PROVE  \E d, e \in S : d # e
<1>1. Cardinality(S) \in Nat
  BY FS_CardinalityType
<1>2. S # {}
  BY <1>1, FS_EmptySet
<1>3. PICK d \in S : TRUE
  BY <1>2
<1>4. CASE S = {d}
  BY <1>1, <1>4, FS_Singleton
<1> QED
  BY <1>3, <1>4

LEMMA FewMembers ==
  ASSUME NEW S, IsFiniteSet(S), Cardinality(S) < 2, NEW d \in S, NEW e \in S
  PROVE  d = e
<1> SUFFICES ASSUME d # e PROVE FALSE
  OBVIOUS
<1>1. IsFiniteSet({d, e}) /\ Cardinality({d, e}) = 2
  <2>1. IsFiniteSet({d}) /\ Cardinality({d}) = 1 /\ e \notin {d}
    BY FS_Singleton
  <2>2. {d, e} = {d} \cup {e}
    OBVIOUS
  <2>3. IsFiniteSet({d} \cup {e}) /\ Cardinality({d} \cup {e}) = Cardinality({d}) + 1
    BY <2>1, FS_AddElement
  <2> QED
    BY <2>1, <2>2, <2>3
<1>2. {d, e} \subseteq S
  OBVIOUS
<1>3. Cardinality({d, e}) <= Cardinality(S)
  BY <1>2, FS_Subset
<1>4. Cardinality(S) \in Nat
  BY FS_CardinalityType
<1> QED
  BY <1>1, <1>3, <1>4

(* Every owner is a definition, so that owners can be counted.              *)
LEMMA OwnersFinite ==
  ASSUME RangeInv, SoundInv, NEW rep
  PROVE  Owners(rep) \subseteq 1..Count /\ IsFiniteSet(Owners(rep))
<1>1. Owners(rep) \subseteq 1..Count
  BY DEF Owners, SoundInv
<1>2. IsFiniteSet(1..Count)
  BY FS_Interval DEF RangeInv
<1> QED
  BY <1>1, <1>2, FS_Subset

LEMMA IndexFacts ==
  ASSUME NEW rep \in pending, Index(rep)
  PROVE  /\ FileKept /\ structure' = structure /\ phase = "indexing" /\ phase' = phase
         /\ definition' = definition
         /\ DOMAIN owners' = DOMAIN owners \cup {rep}
         /\ \A r : Owners(r)' = IF r = rep THEN Owners(r) \cup {definition} ELSE Owners(r)
         /\ \A far \in pending : far # rep => far \in pending'
         /\ Expands(rep) => Followed(structure, rep, definition) \subseteq pending'
         /\ pending' \subseteq pending \cup Followed(structure, rep, definition)
<1>1. \A r : Owners(r)' = IF r = rep THEN Owners(r) \cup {definition} ELSE Owners(r)
  <2>1. DOMAIN owners' = DOMAIN owners \cup {rep}
        /\ \A r \in DOMAIN owners \cup {rep} : 
             owners'[r] = IF r = rep THEN Owners(r) \cup {definition} ELSE owners[r]
    BY DEF Index
  <2> QED
    BY <2>1 DEF Owners
<1> QED
  BY <1>1 DEF Index, FileKept

LEMMA IndexKeepsFound ==
  ASSUME NEW rep \in pending, Index(rep), NEW d, NEW r
  PROVE  /\ Found(d, r) => Found(d, r)'
         /\ Spread(d, r) => Spread(d, r)'
<1>1. \A far : Found(d, far) => Found(d, far)'
  BY IndexFacts DEF Found
<1>2. Followed(structure, r, d)' = Followed(structure, r, d)
  BY IndexFacts, FollowedKept
<1>3. structure' = structure /\ (d \in Owners(r) => d \in Owners(r)')
  BY IndexFacts
<1> QED
  BY <1>1, <1>2, <1>3 DEF Spread

LEMMA IndexSpreads ==
  ASSUME RangeInv, SpreadInv, SoundInv, NEW rep \in pending, Index(rep)
  PROVE  SpreadInv'
<1> SUFFICES ASSUME NEW r \in (DOMAIN owners)'
             PROVE  \/ \A d \in Owners(r)' : Spread(d, r)'
                    \/ \E d, e \in Owners(r)' : d # e /\ Spread(d, r)' /\ Spread(e, r)'
  BY DEF SpreadInv
<1>1. \A d \in Owners(r) : d \in Owners(r)'
  BY IndexFacts
<1>2. \A d : Spread(d, r) => Spread(d, r)'
  BY IndexKeepsFound
<1>3. CASE Owners(r)' = Owners(r) /\ r \in DOMAIN owners
  BY <1>2, <1>3 DEF SpreadInv
<1>4. CASE r = rep /\ Expands(rep)
  <2>1. \A d \in Owners(rep) : Spread(d, rep)
    <3>1. CASE rep \in DOMAIN owners
      BY <1>4, <3>1, FewMembers, OwnersFinite DEF SpreadInv, Expands
    <3>2. CASE rep \notin DOMAIN owners
      BY <3>2 DEF Owners
    <3> QED
      BY <3>1, <3>2
  <2>2. Spread(definition, rep)'
    <3>1. definition \in Owners(rep)' /\ definition' = definition /\ phase' = "indexing"
      BY IndexFacts
    <3>2. Followed(structure, rep, definition)' = Followed(structure, rep, definition)
      BY IndexFacts, FollowedKept
    <3> QED
      BY <1>4, <3>1, <3>2, IndexFacts DEF Spread, Found
  <2>3. Owners(rep)' = Owners(rep) \cup {definition}
    BY IndexFacts
  <2> QED
    BY <1>2, <1>4, <2>1, <2>2, <2>3, IndexFacts
<1>5. CASE r = rep /\ ~Expands(rep) /\ definition \notin Owners(rep)
  <2>1. PICK d, e \in Owners(rep) : d # e
    BY <1>5, OwnersFinite, TwoMembers DEF Expands
  <2>2. rep \in DOMAIN owners
    BY <2>1 DEF Owners
  <2>3. \E c, f \in Owners(rep) : c # f /\ Spread(c, rep) /\ Spread(f, rep)
    BY <2>1, <2>2 DEF SpreadInv
  <2> QED
    BY <1>1, <1>2, <1>5, <2>3
<1>6. CASE r = rep /\ definition \in Owners(rep)
  <2>1. Owners(rep)' = Owners(rep)
    <3>1. Owners(rep)' = Owners(rep) \cup {definition}
      BY IndexFacts
    <3> QED
      BY <1>6, <3>1
  <2>2. rep \in DOMAIN owners
    BY <1>6 DEF Owners
  <2> QED
    BY <1>3, <1>6, <2>1, <2>2
<1>7. CASE r # rep
  BY <1>3, <1>7, IndexFacts
<1> QED
  BY <1>4, <1>5, <1>6, <1>7

LEMMA IndexStep ==
  ASSUME RangeInv, StartsInv, SpreadInv, SoundInv, NEW rep \in pending, Index(rep)
  PROVE  (RangeInv /\ StartsInv /\ SpreadInv /\ SoundInv)'
<1>1. RangeInv'
  BY IndexFacts DEF RangeInv, Count
<1>2. StartsInv'
  <2>1. \A d : Starts(d)' = Starts(d)
    BY IndexFacts, ClaimedKept
  <2>2. \A d, r : Found(d, r) => Found(d, r)'
    BY IndexKeepsFound
  <2>3. \A d, r : d \in Owners(r) => d \in Owners(r)'
    BY IndexFacts
  <2>4. Indexed' = Indexed /\ phase = "indexing" /\ phase' = "indexing" /\ definition' = definition
    BY IndexFacts DEF Indexed
  <2> QED
    BY <2>1, <2>2, <2>3, <2>4 DEF StartsInv
<1>3. SpreadInv'
  BY IndexSpreads
<1>4. SoundInv'
  <2>1. \A d : Claimed(d)' = Claimed(d)
    BY IndexFacts, ClaimedKept
  <2>2. \A far \in pending : far \in Claimed(definition)
    BY IndexFacts DEF SoundInv
  <2>3. Followed(structure, rep, definition) \subseteq Claimed(definition)
    BY <2>2, ClaimedClosed
  <2>4. definition \in 1..Count /\ Count' = Count
    BY IndexFacts DEF RangeInv, Count
  <2>5. ASSUME NEW r \in (DOMAIN owners)'
        PROVE  owners'[r] \subseteq 1..Count /\ \A d \in owners'[r] : r \in Claimed(d)
    <3>1. owners'[r] = Owners(r)'
      BY <2>5 DEF Owners
    <3>2. Owners(r) \subseteq 1..Count /\ \A d \in Owners(r) : r \in Claimed(d)
      BY DEF SoundInv, Owners
    <3>3. Owners(r)' = IF r = rep THEN Owners(r) \cup {definition} ELSE Owners(r)
      BY IndexFacts
    <3> QED
      BY <2>2, <2>4, <3>1, <3>2, <3>3
  <2>6. pending' \subseteq Claimed(definition)
    BY <2>2, <2>3, IndexFacts
  <2>7. definition' = definition
    BY IndexFacts
  <2> QED
    BY <2>1, <2>4, <2>5, <2>6, <2>7 DEF SoundInv
<1> QED
  BY <1>1, <1>2, <1>3, <1>4

-----------------------------------------------------------------------------
(* What each part of the walk leaves so.                                    *)
LEMMA SameWalk ==
  ASSUME NEW w, Own(w), NEW v, IsWalk(v), v.frames = w.frames, v.listed = w.listed
  PROVE  Own(v)
BY DEF Own

LEMMA RefuseOwn ==
  ASSUME NEW w, Own(w), NEW id, NEW reason
  PROVE  Own(Refuse(w, id, reason))
<1> DEFINE v == Refuse(w, id, reason)
<1>1. IsWalk(w) /\ IsWalk(v) /\ v.frames = w.frames /\ v.listed = w.listed
  BY DEF Own, IsWalk, Refuse
<1> QED
  BY <1>1, SameWalk

LEMMA CountedOwn ==
  ASSUME NEW w, Own(w), NEW id
  PROVE  Own(Counted(w, id)) /\ Counted(w, id).frames = w.frames /\ Counted(w, id).listed = w.listed
<1>1. \A v : v \in {[w EXCEPT !.visits = @ + 1], [w EXCEPT !.exhausted = TRUE]}
        => IsWalk(v) /\ v.frames = w.frames /\ v.listed = w.listed
  BY DEF Own, IsWalk
<1>2. \A v : IsWalk(v) => Refuse(v, id, "too_large").frames = v.frames
                           /\ Refuse(v, id, "too_large").listed = v.listed
  BY DEF IsWalk, Refuse
<1>3. Own([w EXCEPT !.visits = @ + 1]) /\ Own([w EXCEPT !.exhausted = TRUE])
  BY <1>1, SameWalk
<1> QED
  BY <1>1, <1>2, <1>3, RefuseOwn DEF Counted

LEMMA VisitOwn ==
  ASSUME NEW w, Own(w), NEW rep, Apart(definition, rep), NEW mapped
  PROVE  Own(Visit(w, rep, mapped))
<1> DEFINE c == Counted(w, rep)
           key == <<rep, Placing(w) \o mapped>>
           entered == [c EXCEPT !.seen = @ \cup {key}]
           frame == Frame(rep, mapped)
           v == [entered EXCEPT !.frames = Append(@, frame)]
<1>1. Own(c)
  BY CountedOwn
<1>2. Own(entered)
  <2> HIDE DEF c, key
  <2>1. IsWalk(c) /\ IsWalk(entered) /\ entered.frames = c.frames /\ entered.listed = c.listed
    BY <1>1 DEF Own, IsWalk
  <2> QED
    BY <1>1, <2>1, SameWalk
<1> HIDE DEF entered
<1>3. Own(v)
  <2>1. frame.rep = rep /\ IsFrame(frame)
    BY DEF Frame, IsFrame
  <2> HIDE DEF frame
  <2>2. IsWalk(entered) /\ IsSequence(entered.frames)
    BY <1>2 DEF Own, IsWalk
  <2>3. /\ v.frames = Append(entered.frames, frame) /\ v.listed = entered.listed
        /\ v = [field \in {"frames", "seen", "visits", "exhausted", "listed", "notFollowed"} |-> v[field]]
    BY <2>2 DEF IsWalk
  <2>4. /\ IsSequence(v.frames) /\ Len(v.frames) = Len(entered.frames) + 1
        /\ \A i \in 1..Len(entered.frames) : v.frames[i] = entered.frames[i]
        /\ v.frames[Len(entered.frames) + 1] = frame
    BY <2>2, <2>3, AppendSequence
  <2>5. DOMAIN v.frames = 1..Len(v.frames) /\ DOMAIN entered.frames = 1..Len(entered.frames)
        /\ Len(entered.frames) \in Nat
    BY <2>2, <2>4, SequenceOf
  <2>6. IsWalk(v)
    BY <2>2, <2>3, <2>4 DEF IsWalk
  <2>7. ASSUME NEW i \in DOMAIN v.frames
        PROVE  IsFrame(v.frames[i]) /\ Apart(definition, v.frames[i].rep)
    <3>1. CASE i = Len(entered.frames) + 1
      BY <2>1, <2>4, <3>1
    <3>2. CASE i \in 1..Len(entered.frames)
      BY <1>2, <2>4, <2>5, <3>2 DEF Own
    <3> QED
      BY <2>4, <2>5, <2>7, <3>1, <3>2
  <2> QED
    BY <1>2, <2>3, <2>6, <2>7 DEF Own
<1> QED
  BY <1>1, <1>2, <1>3, RefuseOwn DEF Visit, entered

LEMMA DescendOwn ==
  ASSUME NEW w, Own(w), NEW id, NEW rep, NEW mapped
  PROVE  Own(Descend(w, id, rep, mapped))
<1>1. Others(rep) = {} => Apart(definition, rep)
  BY DEF Others, Apart
<1> QED
  BY <1>1, RefuseOwn, VisitOwn DEF Descend

LEMMA ListedOwn ==
  ASSUME NEW w, Own(w), w.frames # << >>, NEW item
  PROVE  Own(Listed(w, item))
<1> DEFINE key == <<item, Placing(w)>>
           entry == [item |-> item, solid |-> HasAny(item, Solids), representation |-> Last(w.frames).rep,
                     root |-> w.frames[1].rep, mapped |-> Placing(w)]
           v == [w EXCEPT !.seen = @ \cup {key}, !.listed = Append(@, entry)]
<1>1. IsWalk(w) /\ IsSequence(w.frames) /\ IsSequence(w.listed)
  BY DEF Own, IsWalk
<1>2. Apart(definition, entry.representation)
  <2>1. Len(w.frames) \in DOMAIN w.frames
    <3>1. Len(w.frames) # 0
      BY <1>1 DEF IsSequence
    <3> QED
      BY <1>1, <3>1, SequenceOf
  <2>2. entry.representation = w.frames[Len(w.frames)].rep
    BY DEF Last
  <2> QED
    BY <2>1, <2>2 DEF Own
<1> HIDE DEF entry, key
<1>3. /\ v.frames = w.frames /\ v.listed = Append(w.listed, entry)
      /\ v = [field \in {"frames", "seen", "visits", "exhausted", "listed", "notFollowed"} |-> v[field]]
  BY <1>1 DEF IsWalk
<1>4. /\ IsSequence(v.listed) /\ Len(v.listed) = Len(w.listed) + 1
      /\ \A i \in 1..Len(w.listed) : v.listed[i] = w.listed[i]
      /\ v.listed[Len(w.listed) + 1] = entry
  BY <1>1, <1>3, AppendSequence
<1>5. DOMAIN v.listed = 1..Len(v.listed) /\ DOMAIN w.listed = 1..Len(w.listed) /\ Len(w.listed) \in Nat
  BY <1>1, <1>4, SequenceOf
<1>6. ASSUME NEW i \in DOMAIN v.listed PROVE Apart(definition, v.listed[i].representation)
  <2>1. CASE i = Len(w.listed) + 1
    BY <1>2, <1>4, <2>1
  <2>2. CASE i \in 1..Len(w.listed)
    BY <1>4, <1>5, <2>2 DEF Own
  <2> QED
    BY <1>4, <1>5, <1>6, <2>1, <2>2
<1>7. IsWalk(v)
  BY <1>1, <1>3, <1>4 DEF IsWalk
<1>8. Own(v)
  BY <1>3, <1>6, <1>7 DEF Own
<1> QED
  BY <1>8 DEF Listed, key, entry

LEMMA ItemOwn ==
  ASSUME NEW w, Own(w), w.frames # << >>, NEW item
  PROVE  Own(Item(w, item))
<1>1. \A id, reason : Own(Refuse(w, id, reason))
  BY RefuseOwn
<1>2. \A mapped : Own(Mapped(w, item, mapped))
  BY <1>1, DescendOwn DEF Mapped
<1>3. Own(Listed(w, item))
  BY ListedOwn
<1>4. MappedItem(item).kind \in {"plain", "malformed", "other", "no"}
  <2>1. \A mapped \in MapsOf(item) : mapped.kind = "plain"
    BY DEF MapsOf, ReadMap
  <2> QED
    BY <2>1 DEF MappedItem
<1> QED
  BY <1>1, <1>2, <1>3, <1>4 DEF Item

LEMMA LinkOwn ==
  ASSUME NEW w, Own(w), NEW user
  PROVE  Own(Link(w, user))
<1>1. \A id, reason : Own(Refuse(w, id, reason))
  BY RefuseOwn
<1>2. \A id, rep, mapped : Own(Descend(w, id, rep, mapped))
  BY DescendOwn
<1>3. \A rep : LinkFrom(user, rep).kind \in {"none", "refused", "usage", "constructive", "follow"}
  BY DEF LinkFrom, LinkTo, SameSpace, Refused
<1> QED
  BY <1>1, <1>2, <1>3 DEF Link

(* One pass of a loop: the frame on top stays that of its representation.    *)
LEMMA WithoutOwn ==
  ASSUME NEW w, Own(w), w.frames # << >>, NEW loop \in {"items", "users"}
  PROVE  Own(Without(w, loop)) /\ Without(w, loop).frames # << >>
<1> DEFINE v == Without(w, loop)
           n == Len(w.frames)
<1>1. IsWalk(w) /\ IsSequence(w.frames)
  BY DEF Own, IsWalk
<1>2. n \in Nat /\ n # 0 /\ DOMAIN w.frames = 1..n
  <2>1. n # 0
    BY <1>1 DEF IsSequence
  <2> QED
    BY <1>1, <2>1, SequenceOf
<1>3. /\ v.frames = [w.frames EXCEPT ![n][loop] = Tail(@)] /\ v.listed = w.listed
      /\ v = [field \in {"frames", "seen", "visits", "exhausted", "listed", "notFollowed"} |-> v[field]]
  BY <1>1 DEF IsWalk, Without
<1> HIDE DEF v, n
<1>4. /\ v.frames = [j \in DOMAIN w.frames |-> v.frames[j]]
      /\ \A i \in DOMAIN w.frames : v.frames[i] = IF i = n THEN [w.frames[n] EXCEPT ![loop] = Tail(@)]
                                                   ELSE w.frames[i]
  BY <1>2, <1>3
<1>9. \A i \in DOMAIN w.frames : v.frames[i].rep = w.frames[i].rep /\ IsFrame(v.frames[i])
  <2>1. IsFrame(w.frames[n])
    BY <1>2 DEF Own
  <2>2. [w.frames[n] EXCEPT ![loop] = Tail(@)].rep = w.frames[n].rep
        /\ IsFrame([w.frames[n] EXCEPT ![loop] = Tail(@)])
    BY <2>1 DEF IsFrame
  <2> QED
    BY <1>4, <2>1, <2>2 DEF Own
<1>5. IsSequence(v.frames) /\ Len(v.frames) = n /\ DOMAIN v.frames = DOMAIN w.frames
  <2>1. IsSequence(v.frames) /\ Len(v.frames) = Len(w.frames)
    BY <1>1, <1>4, SameDomainSequence
  <2> QED
    BY <1>2, <2>1, SequenceOf DEF n
<1>6. IsWalk(v)
  BY <1>1, <1>3, <1>5 DEF IsWalk
<1>7. Own(v)
  BY <1>3, <1>5, <1>6, <1>9 DEF Own
<1>8. v.frames # << >>
  BY <1>2, <1>5
<1> QED
  BY <1>7, <1>8 DEF v

-----------------------------------------------------------------------------
LEMMA OwnersKept ==
  ASSUME owners' = owners, NEW d, NEW rep
  PROVE  Owners(rep)' = Owners(rep) /\ Apart(d, rep)' = Apart(d, rep)
BY DEF Owners, Apart

(* The walks leave what the index has found as it is.                       *)
LEMMA WalksKeepIndex ==
  ASSUME RangeInv, StartsInv, SpreadInv, SoundInv, FileKept, structure' = structure, owners' = owners,
         phase \in {"shape", "walking"}, phase' \in {"shape", "walking", "occurrences"}
  PROVE  (StartsInv /\ SpreadInv /\ SoundInv)'
<1>1. \A d : Starts(d)' = Starts(d) /\ Claimed(d)' = Claimed(d)
  BY ClaimedKept
<1>2. \A rep : Owners(rep)' = Owners(rep)
  BY OwnersKept
<1>3. Count' = Count
  BY DEF Count
<1>4. \A d, rep : Found(d, rep) => Found(d, rep)'
  BY <1>2 DEF Found
<1>5. \A d, rep : Followed(structure, rep, d)' = Followed(structure, rep, d)
  BY FollowedKept
<1>6. StartsInv'
  <2>1. Indexed' = Indexed
    BY <1>3 DEF Indexed
  <2> QED
    BY <1>1, <1>2, <2>1 DEF StartsInv
<1>7. SpreadInv'
  <2>1. \A d, rep : Spread(d, rep) => Spread(d, rep)'
    BY <1>2, <1>4, <1>5 DEF Spread
  <2> QED
    BY <1>2, <2>1 DEF SpreadInv
<1>8. SoundInv'
  BY <1>1, <1>3 DEF SoundInv
<1> QED
  BY <1>6, <1>7, <1>8

LEMMA WalkOn ==
  ASSUME ShapeInv, phase = "walking", phase' = "walking", FileKept, structure' = structure,
         owners' = owners, definition' = definition, shapes' = shapes,
         NEW w, walk' = w, Own(w)
  PROVE  ShapeInv'
<1>1. (FileInv /\ RangeInv)'
  BY DEF ShapeInv, FileInv, FileKept, RangeInv, Count
<1>2. (StartsInv /\ SpreadInv /\ SoundInv)'
  BY WalksKeepIndex DEF ShapeInv
<1>3. \A d, rep : Apart(d, rep)' = Apart(d, rep)
  BY OwnersKept
<1>4. \A rep : Apart(definition, rep)' = Apart(definition, rep)
  BY OwnersKept DEF Apart
<1>5. Own(walk)'
  BY <1>4 DEF Own, IsWalk, IsFrame
<1>6. WalkInv'
  BY <1>3, <1>5 DEF ShapeInv, WalkInv
<1> QED
  BY <1>1, <1>2, <1>6 DEF ShapeInv

LEMMA BuildSteps ==
  ASSUME ShapeInv, BuildGraph \/ BuildStructure
  PROVE  ShapeInv'
<1>1. phase \in {"graph", "structure"} /\ DOMAIN owners = {} /\ owners' = owners
  BY DEF BuildGraph, BuildStructure, ShapeInv, RangeInv
<1>2. RangeInv'
  <2>1. CASE BuildGraph
    BY <2>1 DEF BuildGraph, ShapeInv, RangeInv, Count
  <2>2. CASE BuildStructure
    <3>1. Count' \in Nat
      BY <2>2, DefinitionsCounted DEF BuildStructure, Count, ShapeInv, FileInv
    <3>2. definition' = 1
      BY <2>2 DEF BuildStructure, ShapeInv, RangeInv
    <3>3. phase' \in {"index", "occurrences"} /\ (phase' = "index" => Count' > 0)
      BY <2>2 DEF BuildStructure, Count
    <3> QED
      BY <1>1, <2>2, <3>1, <3>2, <3>3 DEF BuildStructure, RangeInv
  <2> QED
    BY <2>1, <2>2
<1>3. FileInv'
  BY DEF BuildGraph, BuildStructure, ShapeInv, FileInv
<1>4. phase' \in {"structure", "index", "occurrences"} /\ (phase' = "occurrences" => Count' = 0)
  <2>1. CASE BuildGraph
    BY <2>1 DEF BuildGraph
  <2>2. CASE BuildStructure
    BY <1>2, <2>2 DEF BuildStructure, RangeInv, Count
  <2> QED
    BY <2>1, <2>2
<1>5. StartsInv'
  <2>1. phase' = "structure" \/ Indexed' = {}
    <3>1. phase' = "index" => definition' = 1
      <4>1. CASE BuildGraph
        BY <4>1 DEF BuildGraph
      <4>2. CASE BuildStructure
        BY <4>2 DEF BuildStructure, ShapeInv, RangeInv
      <4> QED
        BY <4>1, <4>2
    <3> QED
      BY <1>4, <3>1 DEF Indexed
  <2> QED
    BY <1>4, <2>1 DEF StartsInv
<1>6. SpreadInv' /\ SoundInv'
  BY <1>1, <1>4 DEF SpreadInv, SoundInv
<1>7. WalkInv'
  <2>1. shapes' = shapes /\ IsSequence(shapes) /\ Len(shapes) = 0
    BY <1>1 DEF BuildGraph, BuildStructure, ShapeInv, WalkInv
  <2>2. DOMAIN shapes = {}
    BY <2>1, SequenceOf
  <2> QED
    BY <1>4, <2>1, <2>2 DEF WalkInv
<1> QED
  BY <1>2, <1>3, <1>5, <1>6, <1>7 DEF ShapeInv

LEMMA IndexSteps ==
  ASSUME ShapeInv, BeginIndex \/ IndexNext
  PROVE  ShapeInv'
<1>1. /\ FileKept /\ structure' = structure /\ owners' = owners /\ shapes' = shapes
      /\ phase \in {"index", "indexing"} /\ phase' \in {"index", "indexing", "shape"}
  BY DEF BeginIndex, IndexNext, FileKept
<1>2. \A d : Starts(d)' = Starts(d) /\ Claimed(d)' = Claimed(d)
  BY <1>1, ClaimedKept
<1>3. \A rep : Owners(rep)' = Owners(rep)
  BY <1>1, OwnersKept
<1>4. Count' = Count /\ Count \in Nat /\ definition \in 1..Count
  BY <1>1 DEF Count, ShapeInv, RangeInv
<1>5. (FileInv /\ RangeInv)'
  <2>1. FileInv'
    BY <1>1 DEF FileKept, FileInv, ShapeInv
  <2>2. definition' \in 1..Count
    BY <1>4 DEF BeginIndex, IndexNext
  <2> QED
    BY <1>1, <1>4, <2>1, <2>2 DEF RangeInv
<1>6. \A d, rep : Found(d, rep) => d \in Owners(rep)
  BY DEF Found, BeginIndex, IndexNext
<1>7. \A d, rep : d \in Owners(rep) => Found(d, rep)'
  BY <1>3 DEF Found
<1>8. StartsInv'
  <2>1. CASE BeginIndex
    <3>1. /\ Indexed' = Indexed /\ phase = "index" /\ phase' = "indexing" /\ definition' = definition
          /\ pending' = Starts(definition)
      BY <2>1 DEF BeginIndex, Indexed, Starts
    <3>2. \A rep \in Starts(definition) : Found(definition, rep)'
      BY <3>1 DEF Found
    <3> QED
      BY <1>2, <1>3, <3>1, <3>2 DEF StartsInv, ShapeInv
  <2>2. CASE IndexNext
    <3>1. phase = "indexing" /\ phase' \in {"index", "shape"} /\ Indexed = 1..definition - 1
      BY <2>2 DEF IndexNext, Indexed
    <3>2. Indexed' = 1..definition
      BY <1>4, <2>2 DEF IndexNext, Indexed
    <3>3. \A rep \in Starts(definition) : definition \in Owners(rep)
      BY <1>6, <3>1 DEF StartsInv, ShapeInv
    <3>4. \A d \in Indexed' : d \in Indexed \/ d = definition
      BY <1>4, <3>1, <3>2
    <3>5. \A d \in Indexed' : \A rep \in Starts(d) : d \in Owners(rep)
      BY <3>1, <3>3, <3>4 DEF StartsInv, ShapeInv
    <3> QED
      BY <1>2, <1>3, <3>1, <3>5 DEF StartsInv
  <2> QED
    BY <2>1, <2>2
<1>9. SpreadInv'
  <2>1. \A d, rep : Followed(structure, rep, d)' = Followed(structure, rep, d)
    BY <1>1, FollowedKept
  <2>2. \A d, rep : Spread(d, rep) => Spread(d, rep)'
    BY <1>1, <1>3, <1>6, <1>7, <2>1 DEF Spread
  <2> QED
    BY <1>1, <1>3, <2>2 DEF SpreadInv, ShapeInv
<1>10. SoundInv'
  <2>1. phase' = "indexing" => pending' \subseteq Claimed(definition)'
    <3>1. CASE BeginIndex
      <4>1. pending' = Starts(definition) /\ definition' = definition
        BY <3>1 DEF BeginIndex, Starts
      <4>2. Claimed(definition)' = Claimed(definition)
        BY <1>2, <4>1 DEF Claimed, Linked, Starts
      <4> QED
        BY <4>1, <4>2, ClaimedClosed
    <3>2. CASE IndexNext
      BY <3>2 DEF IndexNext
    <3> QED
      BY <3>1, <3>2
  <2> QED
    BY <1>1, <1>2, <1>4, <2>1 DEF SoundInv, ShapeInv
<1>11. WalkInv'
  <2>1. IsSequence(shapes) /\ Len(shapes) = 0
    BY <1>1 DEF ShapeInv, WalkInv
  <2>2. DOMAIN shapes = {}
    BY <2>1, SequenceOf
  <2>3. phase' = "shape" => definition' = 1
    BY DEF BeginIndex, IndexNext
  <2> QED
    BY <1>1, <2>1, <2>2, <2>3 DEF WalkInv
<1> QED
  BY <1>5, <1>8, <1>9, <1>10, <1>11 DEF ShapeInv

LEMMA WalkSteps ==
  ASSUME ShapeInv, Root \/ VisitItem \/ VisitUser \/ Return
  PROVE  ShapeInv'
<1>1. /\ phase = "walking" /\ phase' = "walking" /\ FileKept /\ structure' = structure
      /\ owners' = owners /\ definition' = definition /\ shapes' = shapes
  BY DEF Root, VisitItem, VisitUser, Return, FileKept
<1>2. Own(walk)
  BY <1>1 DEF ShapeInv, WalkInv
<1>3. CASE Root
  <2> DEFINE rep == Head(roots)
             fresh == [walk EXCEPT !.seen = {}]
  <2>1. Own(fresh)
    <3>1. IsWalk(walk) /\ IsWalk(fresh) /\ fresh.frames = walk.frames /\ fresh.listed = walk.listed
      BY <1>2 DEF Own, IsWalk
    <3> QED
      BY <1>2, <3>1, SameWalk
  <2> HIDE DEF fresh
  <2>2. CASE Others(rep) # {}
    <3>1. walk' = Refuse(walk, rep, "other_definition")
      BY <1>3, <2>2 DEF Root
    <3> QED
      BY <1>1, <1>2, <3>1, RefuseOwn, WalkOn
  <2>3. CASE Others(rep) = {}
    <3>1. walk' = Visit(fresh, rep, << >>)
      BY <1>3, <2>3 DEF Root, fresh
    <3>2. Apart(definition, rep)
      BY <2>3 DEF Others, Apart
    <3> QED
      BY <1>1, <2>1, <3>1, <3>2, VisitOwn, WalkOn
  <2> QED
    BY <2>2, <2>3
<1>4. CASE VisitItem
  <2> DEFINE item == Head(Top.items)
             v == Without(walk, "items")
             c == Counted(v, item)
  <2>1. Own(v) /\ v.frames # << >>
    BY <1>2, <1>4, WithoutOwn DEF VisitItem
  <2>2. Own(c) /\ c.frames # << >>
    <3> HIDE DEF v, item
    <3> QED
      BY <2>1, CountedOwn
  <2>3. walk' = IF c.exhausted THEN c ELSE Item(c, item)
    BY <1>4 DEF VisitItem
  <2> HIDE DEF c, item
  <2>4. Own(IF c.exhausted THEN c ELSE Item(c, item))
    BY <2>2, ItemOwn
  <2> QED
    BY <1>1, <2>3, <2>4, WalkOn
<1>5. CASE VisitUser
  <2> DEFINE user == Head(Top.users)
             v == Without(walk, "users")
             c == Counted(v, Top.rep)
  <2>1. Own(v) /\ v.frames # << >>
    BY <1>2, <1>5, WithoutOwn DEF VisitUser
  <2>2. Own(c)
    <3> HIDE DEF v
    <3> QED
      BY <2>1, CountedOwn
  <2>3. walk' = IF c.exhausted THEN c ELSE Link(c, user)
    BY <1>5 DEF VisitUser
  <2> HIDE DEF c, user
  <2>4. Own(IF c.exhausted THEN c ELSE Link(c, user))
    BY <2>2, LinkOwn
  <2> QED
    BY <1>1, <2>3, <2>4, WalkOn
<1>6. CASE Return
  <2> DEFINE v == [walk EXCEPT !.frames = Front(@)]
  <2>1. IsWalk(walk) /\ IsSequence(walk.frames) /\ Len(walk.frames) # 0
    BY <1>2, <1>6 DEF Return, Own, IsWalk, IsSequence
  <2>2. /\ v.frames = Front(walk.frames) /\ v.listed = walk.listed
        /\ v = [field \in {"frames", "seen", "visits", "exhausted", "listed", "notFollowed"} |-> v[field]]
    BY <2>1 DEF IsWalk
  <2>3. walk' = v
    BY <1>6 DEF Return
  <2> HIDE DEF v
  <2>4. /\ IsSequence(v.frames) /\ Len(v.frames) = Len(walk.frames) - 1
        /\ \A i \in 1..Len(walk.frames) - 1 : v.frames[i] = walk.frames[i]
    BY <2>1, <2>2, FrontSequence
  <2>5. DOMAIN v.frames = 1..Len(v.frames) /\ DOMAIN walk.frames = 1..Len(walk.frames)
        /\ Len(walk.frames) \in Nat
    BY <2>1, <2>4, SequenceOf
  <2>6. \A i \in DOMAIN v.frames : i \in DOMAIN walk.frames /\ v.frames[i] = walk.frames[i]
    BY <2>4, <2>5
  <2>7. IsWalk(v)
    BY <2>1, <2>2, <2>4 DEF IsWalk
  <2>8. Own(v)
    BY <1>2, <2>2, <2>6, <2>7 DEF Own
  <2> QED
    BY <1>1, <2>3, <2>8, WalkOn
<1> QED
  BY <1>3, <1>4, <1>5, <1>6

LEMMA NoWalkOwn ==
  /\ Own(NoWalk)
  /\ \A reported : Own([NoWalk EXCEPT !.notFollowed = reported])
<1>1. IsSequence(<< >>) /\ DOMAIN << >> = {}
  BY ShortSequences, SequenceOf
<1>2. Own(NoWalk)
  BY <1>1 DEF Own, IsWalk, NoWalk
<1>3. ASSUME NEW reported PROVE Own([NoWalk EXCEPT !.notFollowed = reported])
  <2> DEFINE v == [NoWalk EXCEPT !.notFollowed = reported]
  <2>1. IsWalk(v) /\ v.frames = NoWalk.frames /\ v.listed = NoWalk.listed
    BY <1>1 DEF IsWalk, NoWalk
  <2> QED
    BY <1>2, <2>1, SameWalk
<1> QED
  BY <1>2, <1>3

LEMMA BeginStep ==
  ASSUME ShapeInv, Begin
  PROVE  ShapeInv'
<1>1. /\ phase = "shape" /\ phase' = "walking" /\ FileKept /\ structure' = structure
      /\ owners' = owners /\ definition' = definition /\ shapes' = shapes
  BY DEF Begin, FileKept
<1>2. (FileInv /\ RangeInv)'
  BY <1>1 DEF ShapeInv, FileInv, FileKept, RangeInv, Count
<1>3. (StartsInv /\ SpreadInv /\ SoundInv)'
  BY <1>1, WalksKeepIndex DEF ShapeInv
<1>4. PICK w : walk' = w /\ Own(w)
  <2>1. \E reported : walk' = [NoWalk EXCEPT !.notFollowed = reported]
    BY DEF Begin
  <2> QED
    BY <2>1, NoWalkOwn
<1>5. \A d, rep : Apart(d, rep)' = Apart(d, rep)
  BY <1>1, OwnersKept
<1>6. \A rep : Apart(definition, rep)' = Apart(definition, rep)
  BY <1>1, OwnersKept DEF Apart
<1>7. Own(walk)'
  BY <1>4, <1>6 DEF Own, IsWalk, IsFrame
<1>8. WalkInv'
  BY <1>1, <1>5, <1>7 DEF ShapeInv, WalkInv
<1> QED
  BY <1>2, <1>3, <1>8 DEF ShapeInv

LEMMA FinishStep ==
  ASSUME ShapeInv, Finish
  PROVE  ShapeInv'
<1>1. /\ phase = "walking" /\ phase' \in {"shape", "occurrences"} /\ FileKept /\ structure' = structure
      /\ owners' = owners
  BY DEF Finish, FileKept
<1>2. definition \in 1..Count /\ Count \in Nat /\ Count' = Count
  BY <1>1 DEF ShapeInv, RangeInv, Count
<1>3. definition' \in 1..Count /\ (phase' = "shape" => definition' = definition + 1)
      /\ (phase' = "occurrences" => definition = Count)
  BY <1>2 DEF Finish
<1>4. (FileInv /\ RangeInv)'
  BY <1>1, <1>2, <1>3 DEF ShapeInv, FileInv, FileKept, RangeInv
<1>5. (StartsInv /\ SpreadInv /\ SoundInv)'
  BY <1>1, WalksKeepIndex DEF ShapeInv
<1>6. \A d, rep : Apart(d, rep)' = Apart(d, rep)
  BY <1>1, OwnersKept
<1> DEFINE entry == [listed |-> walk.listed, notFollowed |-> walk.notFollowed]
<1>7. IsSequence(shapes) /\ Len(shapes) = definition - 1
  BY <1>1 DEF ShapeInv, WalkInv
<1>8. /\ IsSequence(shapes') /\ Len(shapes') = definition
      /\ \A i \in 1..definition - 1 : shapes'[i] = shapes[i]
      /\ shapes'[definition] = entry
  <2>1. shapes' = Append(shapes, entry)
    BY DEF Finish
  <2> HIDE DEF entry
  <2>2. /\ IsSequence(shapes') /\ Len(shapes') = Len(shapes) + 1
        /\ \A i \in 1..Len(shapes) : shapes'[i] = shapes[i]
        /\ shapes'[Len(shapes) + 1] = entry
    BY <1>7, <2>1, AppendSequence
  <2> QED
    BY <1>2, <1>7, <2>2
<1>9. DOMAIN shapes' = 1..definition /\ DOMAIN shapes = 1..definition - 1
  BY <1>7, <1>8, SequenceOf
<1>10. ASSUME NEW d \in DOMAIN shapes', NEW i \in DOMAIN shapes'[d].listed
       PROVE  Apart(d, shapes'[d].listed[i].representation)
  <2>1. CASE d = definition
    <3>1. Own(walk)
      BY <1>1 DEF ShapeInv, WalkInv
    <3> QED
      BY <1>8, <1>10, <2>1, <3>1 DEF Own
  <2>2. CASE d \in 1..definition - 1
    BY <1>8, <1>9, <1>10, <2>2 DEF ShapeInv, WalkInv
  <2> QED
    BY <1>2, <1>9, <2>1, <2>2
<1>11. WalkInv'
  <2>1. \A d \in DOMAIN shapes' : \A i \in DOMAIN shapes'[d].listed :
          LET rep == shapes'[d].listed[i].representation
          IN  (IF rep \in DOMAIN owners' THEN owners'[rep] ELSE {}) \subseteq {d}
    BY <1>1, <1>10 DEF Apart, Owners
  <2>2. (\A d \in DOMAIN shapes : \A i \in DOMAIN shapes[d].listed :
           Apart(d, shapes[d].listed[i].representation))'
    BY <2>1 DEF Apart, Owners
  <2> QED
    <3>1. /\ phase' = "shape" => Len(shapes') = definition' - 1
          /\ phase' = "occurrences" => Len(shapes') = Count'
      <4>1. Len(shapes') = definition
        BY <1>8
      <4> QED
        <5>1. ASSUME phase' = "shape" PROVE Len(shapes') = definition' - 1
          <6>1. definition' = definition + 1 /\ definition \in Nat
            BY <1>2, <1>3, <5>1
          <6> QED
            BY <4>1, <6>1
        <5>2. ASSUME phase' = "occurrences" PROVE Len(shapes') = Count'
          BY <1>2, <1>3, <4>1, <5>2
        <5> QED
          BY <5>1, <5>2
    <3>2. phase' \notin {"graph", "structure", "index", "indexing", "walking"}
      BY <1>1
    <3> QED
      BY <1>8, <2>2, <3>1, <3>2 DEF WalkInv
<1> QED
  BY <1>4, <1>5, <1>11 DEF ShapeInv

LEMMA ShapeInvInit == Init => ShapeInv
<1> SUFFICES ASSUME Init PROVE ShapeInv
  OBVIOUS
<1>1. FileInv
  BY FilesAssumption DEF Init, FileInv
<1>2. phase = "graph" /\ definition = 1 /\ DOMAIN owners = {} /\ shapes = << >>
  BY DEF Init
<1>3. RangeInv
  <2>1. Count = 0
    BY ShortSequences DEF Init, Count
  <2> QED
    BY <1>2, <2>1 DEF RangeInv
<1>4. StartsInv /\ SpreadInv /\ SoundInv
  BY <1>2 DEF StartsInv, SpreadInv, SoundInv
<1>5. WalkInv
  <2>1. IsSequence(shapes) /\ Len(shapes) = 0 /\ DOMAIN shapes = {}
    BY <1>2, ShortSequences, SequenceOf
  <2> QED
    BY <1>2, <2>1 DEF WalkInv
<1> QED
  BY <1>1, <1>3, <1>4, <1>5 DEF ShapeInv

LEMMA ShapeInvStep == ShapeInv /\ [Next]_vars => ShapeInv'
<1> SUFFICES ASSUME ShapeInv, [Next]_vars PROVE ShapeInv'
  OBVIOUS
<1>1. CASE BuildGraph \/ BuildStructure
  BY <1>1, BuildSteps
<1>2. CASE BeginIndex \/ IndexNext
  BY <1>2, IndexSteps
<1>3. ASSUME NEW rep \in pending, Index(rep) PROVE ShapeInv'
  <2>1. (RangeInv /\ StartsInv /\ SpreadInv /\ SoundInv)'
    BY <1>3, IndexStep DEF ShapeInv
  <2>2. FileInv'
    BY <1>3 DEF Index, ShapeInv, FileInv
  <2>3. phase = "indexing" /\ phase' = "indexing" /\ shapes' = shapes
    BY <1>3 DEF Index
  <2>4. IsSequence(shapes) /\ Len(shapes) = 0 /\ DOMAIN shapes = {}
    <3>1. IsSequence(shapes) /\ Len(shapes) = 0
      BY <2>3 DEF ShapeInv, WalkInv
    <3> QED
      BY <3>1, SequenceOf
  <2>5. WalkInv'
    BY <2>3, <2>4 DEF WalkInv
  <2> QED
    BY <2>1, <2>2, <2>5 DEF ShapeInv
<1>4. CASE Begin
  BY <1>4, BeginStep
<1>5. CASE Root \/ VisitItem \/ VisitUser \/ Return
  BY <1>5, WalkSteps
<1>6. CASE Finish
  BY <1>6, FinishStep
<1>7. CASE UNCHANGED vars
  <2>1. /\ FileKept /\ structure' = structure /\ owners' = owners /\ shapes' = shapes /\ phase' = phase
        /\ definition' = definition /\ pending' = pending /\ walk' = walk
    BY <1>7 DEF vars, FileKept
  <2>2. \A d : Starts(d)' = Starts(d) /\ Claimed(d)' = Claimed(d)
    BY <2>1, ClaimedKept
  <2>3. \A d, rep : Followed(structure, rep, d)' = Followed(structure, rep, d)
    BY <2>1, FollowedKept
  <2>4. (FileInv /\ RangeInv /\ WalkInv)'
    BY <2>1 DEF ShapeInv, FileKept, FileInv, RangeInv, Count, WalkInv, Own, IsWalk, IsFrame, Apart, Owners
  <2>5. StartsInv'
    BY <2>1, <2>2 DEF ShapeInv, StartsInv, Indexed, Count, Found, Owners
  <2>6. SpreadInv'
    BY <2>1, <2>3 DEF ShapeInv, SpreadInv, Spread, Found, Owners
  <2>7. SoundInv'
    <3>1. Claimed(definition)' = Claimed(definition)
      BY <2>1, <2>2 DEF Claimed, Linked, Starts
    <3> QED
      BY <2>1, <2>2, <3>1 DEF ShapeInv, SoundInv, Count
  <2> QED
    BY <2>4, <2>5, <2>6, <2>7 DEF ShapeInv
<1> QED
  BY <1>1, <1>2, <1>3, <1>4, <1>5, <1>6, <1>7 DEF Next

LEMMA ShapeInvHolds == Spec => []ShapeInv
<1> QED
  BY ShapeInvInit, ShapeInvStep, PTL DEF Spec

-----------------------------------------------------------------------------
(* After the index: the representations that a definition owns, or that      *)
(* two own whoever they are.  They hold its starts and follow its links.     *)
Owned(d, rep) == d \in Owners(rep) \/ \E c, e \in Owners(rep) : c # e

LEMMA TwoOwnersPassOn ==
  ASSUME SpreadInv, phase # "indexing", NEW rep, NEW c \in Owners(rep), NEW e \in Owners(rep), c # e
  PROVE  \E x, y \in Owners(rep) :
           /\ x # y
           /\ \A far \in Followed(structure, rep, x) : x \in Owners(far)
           /\ \A far \in Followed(structure, rep, y) : y \in Owners(far)
<1>1. rep \in DOMAIN owners
  BY DEF Owners
<1>2. \E x, y \in Owners(rep) : x # y /\ Spread(x, rep) /\ Spread(y, rep)
  BY <1>1 DEF SpreadInv
<1> QED
  BY <1>2 DEF Spread, Found

LEMMA OneOwnerPassesOn ==
  ASSUME SpreadInv, phase # "indexing", NEW rep, NEW d \in Owners(rep),
         ~\E c, e \in Owners(rep) : c # e
  PROVE  \A far \in Followed(structure, rep, d) : d \in Owners(far)
<1>1. rep \in DOMAIN owners
  BY DEF Owners
<1>2. Spread(d, rep)
  BY <1>1 DEF SpreadInv
<1> QED
  BY <1>2 DEF Spread, Found

LEMMA LinkedIsClosed ==
  ASSUME NEW d
  PROVE  Starts(d) \subseteq Linked(d) /\ \A rep : Followed(structure, rep, d) \subseteq Linked(d)
BY FollowedDefined DEF Linked

LEMMA StartsHeld ==
  ASSUME StartsInv, phase = "occurrences", NEW d \in 1..Count
  PROVE  \A rep \in Starts(d) : Owned(d, rep)
BY DEF StartsInv, Indexed, Owned

LEMMA PlainlyHeld ==
  ASSUME ShapeInv, phase = "occurrences", NEW d \in 1..Count
  PROVE  \A rep \in ClaimedPlainly(d) : Owned(d, rep)
<1> DEFINE T == {rep \in Linked(d) : Owned(d, rep)}
<1>1. Starts(d) \subseteq T
  BY StartsHeld, LinkedIsClosed DEF ShapeInv
<1>2. ASSUME NEW rep \in T, NEW far \in FollowedByAll(rep)
      PROVE  far \in T
  <2>1. \A e \in 1..Count : far \in Followed(structure, rep, e)
    BY <1>2 DEF FollowedByAll
  <2>2. far \in Linked(d)
    BY <2>1, LinkedIsClosed
  <2>3. CASE \E c, e \in Owners(rep) : c # e
    <3>1. PICK x, y \in Owners(rep) :
            /\ x # y
            /\ \A f \in Followed(structure, rep, x) : x \in Owners(f)
            /\ \A f \in Followed(structure, rep, y) : y \in Owners(f)
      BY <2>3, TwoOwnersPassOn DEF ShapeInv
    <3>2. x \in 1..Count /\ y \in 1..Count
      BY OwnersFinite DEF ShapeInv
    <3> QED
      BY <2>1, <2>2, <3>1, <3>2 DEF Owned
  <2>4. CASE ~\E c, e \in Owners(rep) : c # e
    <3>1. d \in Owners(rep)
      BY <1>2, <2>4 DEF Owned
    <3> QED
      BY <2>1, <2>2, <2>4, <3>1, OneOwnerPassesOn DEF Owned, ShapeInv
  <2> QED
    BY <2>3, <2>4
<1>3. ClaimedPlainly(d) \subseteq T
  <2>1. \A rep \in T : FollowedByAll(rep) \subseteq T
    BY <1>2
  <2> HIDE DEF T
  <2> QED
    BY <1>1, <2>1, ClaimedPlainlyLeast
<1> QED
  BY <1>3

LEMMA ClaimedHeld ==
  ASSUME ShapeInv, phase = "occurrences", FewShareComponents, NEW d \in 1..Count
  PROVE  \A rep \in Claimed(d) : Owned(d, rep)
<1> DEFINE T == {rep \in Linked(d) : Owned(d, rep)}
<1>1. Starts(d) \subseteq T
  BY StartsHeld, LinkedIsClosed DEF ShapeInv
<1>2. ASSUME NEW rep \in Claimed(d) \cap T, NEW far \in Followed(structure, rep, d)
      PROVE  far \in T
  <2>1. far \in Linked(d) /\ rep \in DOMAIN file
    BY <1>2, LinkedIsClosed, FollowedDefined
  <2>2. CASE \E c, e \in Owners(rep) : c # e
    <3>1. PICK x, y \in Owners(rep) :
            /\ x # y
            /\ \A f \in Followed(structure, rep, x) : x \in Owners(f)
            /\ \A f \in Followed(structure, rep, y) : y \in Owners(f)
      BY <2>2, TwoOwnersPassOn DEF ShapeInv
    <3>2. x \in 1..Count /\ y \in 1..Count
      BY OwnersFinite DEF ShapeInv
    <3>3. CASE d \in {x, y}
      BY <1>2, <2>1, <3>1, <3>3 DEF Owned
    <3>4. CASE d \notin {x, y}
      <4>1. rep \in Claimed(x) /\ rep \in Claimed(y)
        BY <3>1 DEF ShapeInv, SoundInv, Owners
      <4>2. \A e \in 1..Count : Followed(structure, rep, d) = Followed(structure, rep, e)
        BY <1>2, <2>1, <3>1, <3>2, <3>4, <4>1 DEF FewShareComponents
      <4> QED
        BY <1>2, <2>1, <3>1, <3>2, <4>2 DEF Owned
    <3> QED
      BY <3>3, <3>4
  <2>3. CASE ~\E c, e \in Owners(rep) : c # e
    <3>1. d \in Owners(rep)
      BY <1>2, <2>3 DEF Owned
    <3> QED
      BY <1>2, <2>1, <2>3, <3>1, OneOwnerPassesOn DEF Owned, ShapeInv
  <2> QED
    BY <2>2, <2>3
<1>3. Claimed(d) \subseteq T
  <2>1. \A rep \in Claimed(d) \cap T : Followed(structure, rep, d) \subseteq T
    BY <1>2
  <2> HIDE DEF T
  <2> QED
    BY <1>1, <2>1, ClaimedLeast
<1> QED
  BY <1>3

LEMMA OneOwnerByInv == ShapeInv => OneOwner
<1> SUFFICES ASSUME ShapeInv, phase = "occurrences"
             PROVE  /\ \A d, e \in DOMAIN shapes :
                         d # e => /\ ListedIn(d) \cap ClaimedPlainly(e) = {}
                                  /\ FewShareComponents => ListedIn(d) \cap Claimed(e) = {}
                    /\ \A rep \in DOMAIN owners : \A d \in owners[rep] : rep \in Claimed(d)
  BY DEF OneOwner
<1>1. \A rep \in DOMAIN owners : \A d \in owners[rep] : rep \in Claimed(d)
  BY DEF ShapeInv, SoundInv
<1>2. DOMAIN shapes = 1..Count
  <2>1. IsSequence(shapes) /\ Len(shapes) = Count
    BY DEF ShapeInv, WalkInv
  <2> QED
    BY <2>1, SequenceOf
<1>3. \A d \in DOMAIN shapes : \A rep \in ListedIn(d) : Apart(d, rep)
  BY DEF ListedIn, ToSet, ShapeInv, WalkInv
<1>4. ASSUME NEW d \in DOMAIN shapes, NEW e \in DOMAIN shapes, d # e, NEW rep \in ListedIn(d)
      PROVE  ~Owned(e, rep)
  BY <1>3, <1>4 DEF Owned, Apart
<1>5. ASSUME NEW d \in DOMAIN shapes, NEW e \in DOMAIN shapes, d # e
      PROVE  /\ ListedIn(d) \cap ClaimedPlainly(e) = {}
             /\ FewShareComponents => ListedIn(d) \cap Claimed(e) = {}
  <2>1. \A rep \in ClaimedPlainly(e) : Owned(e, rep)
    BY <1>2, PlainlyHeld
  <2>2. FewShareComponents => \A rep \in Claimed(e) : Owned(e, rep)
    BY <1>2, ClaimedHeld
  <2> QED
    BY <1>4, <1>5, <2>1, <2>2
<1> QED
  BY <1>1, <1>5

(* The shape of a definition lists nothing from a representation that        *)
(* another definition's links reach: shape.rs reads each of them for two     *)
(* owners at most, and the others are found all the same.                    *)
THEOREM OneOwnerOnly == Spec => []OneOwner
BY ShapeInvHolds, OneOwnerByInv, PTL

-----------------------------------------------------------------------------
(* What a file yields: sequences, and one representation for a name.        *)
ReadsInv ==
  /\ \A id \in DOMAIN file :
       /\ IsSequence(file[id].records) /\ Len(file[id].records) # 0
       /\ \A r \in ToSet(file[id].records) :
            /\ IsSequence(r.params)
            /\ \A p \in ToSet(r.params) : p.kind = "list" => IsSequence(p.items)
  /\ phase # "graph" =>
       \A id \in DOMAIN file : IsSequence(users[id]) /\ ToSet(users[id]) \subseteq DOMAIN file
  /\ phase \notin {"graph", "structure"} => \A d \in 1..Count : IsSequence(Shapes(structure, d))

ItemsAt(rep) == UNION {ToSet(r.items) : r \in Representation(rep)}
UsersAt(rep) == ToSet(Referrers(rep))

LEMMA OneRecord ==
  ASSUME ReadsInv, NEW id, Defined(id), NEW p \in RepresentationParams(id), NEW q \in RepresentationParams(id)
  PROVE  p = q /\ IsSequence(p) /\ Len(p) >= 3 /\ \E r \in ToSet(file[id].records) : p = r.params
<1>1. IsSequence(file[id].records) /\ Len(file[id].records) # 0
  BY DEF ReadsInv, Defined
<1>2. DOMAIN file[id].records = 1..Len(file[id].records) /\ Len(file[id].records) \in Nat
  BY <1>1, SequenceOf
<1>3. CASE IsComplex(id)
  <2> DEFINE named == {i \in DOMAIN file[id].records : file[id].records[i].name = "REPRESENTATION"}
  <2>1. PICK r \in Partial(id, "REPRESENTATION") : p \in ExactParams(r, 3)
    BY <1>3 DEF RepresentationParams
  <2>2. PICK t \in Partial(id, "REPRESENTATION") : q \in ExactParams(t, 3)
    BY <1>3 DEF RepresentationParams
  <2>3. PICK i \in named : r = file[id].records[i] /\ \A k \in named : i <= k
    BY <2>1 DEF Partial
  <2>4. PICK j \in named : t = file[id].records[j] /\ \A k \in named : j <= k
    BY <2>2 DEF Partial
  <2>5. i = j
    BY <1>2, <2>3, <2>4
  <2>6. p = r.params /\ q = t.params /\ Len(p) = 3
    BY <2>1, <2>2 DEF ExactParams
  <2>7. r \in ToSet(file[id].records)
    BY <2>3 DEF ToSet
  <2>8. IsSequence(p)
    BY <2>6, <2>7 DEF ReadsInv, Defined
  <2> QED
    BY <2>3, <2>4, <2>5, <2>6, <2>7, <2>8
<1>4. CASE ~IsComplex(id)
  <2>1. p = FirstRecord(id).params /\ q = FirstRecord(id).params /\ ~(Len(p) < 3)
    BY <1>4 DEF RepresentationParams
  <2>2. FirstRecord(id) \in ToSet(file[id].records)
    BY <1>1, <1>2 DEF FirstRecord, ToSet
  <2>3. IsSequence(p)
    BY <2>1, <2>2 DEF ReadsInv, Defined
  <2>4. Len(p) \in Nat
    BY <2>3, SequenceOf
  <2> QED
    BY <2>1, <2>2, <2>3, <2>4
<1> QED
  BY <1>3, <1>4

LEMMA OneRepresentation ==
  ASSUME ReadsInv, NEW id, NEW r \in Representation(id), NEW t \in Representation(id)
  PROVE  r = t /\ IsSequence(r.items)
<1> DEFINE Read(params) == [items |-> [i \in DOMAIN params[2].items |-> params[2].items[i].ref],
                            context |-> params[3].ref]
<1>1. Defined(id)
  BY DEF Representation
<1>2. PICK p \in RepresentationParams(id) : HasLayout(p) /\ r = Read(p)
  BY <1>1 DEF Representation
<1>3. PICK q \in RepresentationParams(id) : HasLayout(q) /\ t = Read(q)
  BY <1>1 DEF Representation
<1>4. p = q /\ IsSequence(p) /\ Len(p) >= 3 /\ \E x \in ToSet(file[id].records) : p = x.params
  BY <1>1, OneRecord
<1>5. IsSequence(p[2].items)
  <2>1. PICK x \in ToSet(file[id].records) : p = x.params
    BY <1>4
  <2>2. p[2] \in ToSet(p)
    <3>1. DOMAIN p = 1..Len(p) /\ Len(p) \in Nat
      BY <1>4, SequenceOf
    <3> QED
      BY <1>4, <3>1 DEF ToSet
  <2> QED
    BY <1>1, <1>2, <2>1, <2>2 DEF HasLayout, ReadsInv, Defined
<1>6. r.items = [i \in DOMAIN p[2].items |-> p[2].items[i].ref]
  BY <1>2
<1>7. r.items = [i \in DOMAIN p[2].items |-> r.items[i]]
  BY <1>6
<1>8. IsSequence(r.items)
  BY <1>5, <1>7, SameDomainSequence
<1> QED
  BY <1>2, <1>3, <1>4, <1>8

LEMMA ReferrersRead ==
  ASSUME ReadsInv, phase # "graph", NEW id
  PROVE  IsSequence(Referrers(id))
BY ShortSequences DEF ReadsInv, Referrers, Defined

LEMMA FrameReads ==
  ASSUME ReadsInv, phase # "graph", NEW rep, NEW mapped
  PROVE  LET f == Frame(rep, mapped)
         IN  /\ IsFrame(f) /\ f.rep = rep /\ f.mapped = mapped
             /\ IsSequence(f.items) /\ ToSet(f.items) = ItemsAt(rep)
             /\ IsSequence(f.users) /\ ToSet(f.users) = UsersAt(rep)
<1> DEFINE f == Frame(rep, mapped)
           items == UNION {{r.items} : r \in Representation(rep)}
<1>1. /\ IsFrame(f) /\ f.rep = rep /\ f.mapped = mapped /\ f.users = Referrers(rep)
      /\ f.items = IF items = {} THEN << >> ELSE CHOOSE s \in items : TRUE
  BY DEF Frame, IsFrame
<1>2. IsSequence(f.items) /\ ToSet(f.items) = ItemsAt(rep)
  <2>1. CASE Representation(rep) = {}
    <3>1. items = {} /\ ItemsAt(rep) = {}
      BY <2>1 DEF ItemsAt
    <3>2. DOMAIN << >> = {}
      OBVIOUS
    <3> QED
      BY <1>1, <3>1, <3>2, ShortSequences DEF ToSet
  <2>2. CASE Representation(rep) # {}
    <3>1. PICK r \in Representation(rep) : TRUE
      BY <2>2
    <3>2. Representation(rep) = {r} /\ IsSequence(r.items)
      BY OneRepresentation
    <3>3. items = {r.items} /\ ItemsAt(rep) = ToSet(r.items)
      BY <3>2 DEF ItemsAt
    <3>4. f.items = r.items
      BY <1>1, <3>3
    <3> QED
      BY <3>2, <3>3, <3>4
  <2> QED
    BY <2>1, <2>2
<1> QED
  BY <1>1, <1>2, ReferrersRead DEF UsersAt

-----------------------------------------------------------------------------
(* What the links reach from a shape representation, link by link.          *)
Reaches(R, d, root, n) ==
  /\ R = [k \in 0..n |-> R[k]]
  /\ R[0] = {<<root, << >>>>}
  /\ \A k \in 1..n : R[k] = R[k - 1] \cup UNION {Onwards(d, at) : at \in R[k - 1]}

WithinReaches == \A d, root : \A n \in Nat : Reaches(Within(d, root, n), d, root, n)

LEMMA WithinByLinks == WithinReaches
<1> SUFFICES ASSUME NEW d, NEW root, NEW n \in Nat
             PROVE  Reaches(Within(d, root, n), d, root, n)
  BY DEF WithinReaches
<1> DEFINE Step(S) == S \cup UNION {Onwards(d, at) : at \in S}
           start == {<<root, << >>>>}
           Is(g, m) == g = [k \in 0..m |-> IF k = 0 THEN start ELSE Step(g[k - 1])]
           P == {m \in 0..n : \E g : Is(g, m)}
           W == Within(d, root, n)
<1>1. W = CHOOSE g : Is(g, n)
  BY DEF Within
<1> HIDE DEF Step, start, W
<1>2. 0 \in P
  <2> DEFINE g == [k \in 0..0 |-> start]
  <2>1. Is(g, 0)
    OBVIOUS
  <2> HIDE DEF Is, g
  <2> QED
    BY <2>1
<1>3. ASSUME NEW m \in 0..n - 1, m \in P
      PROVE  m + 1 \in P
  <2>1. PICK g : Is(g, m)
    BY <1>3
  <2> DEFINE h == [k \in 0..m + 1 |-> IF k = m + 1 THEN Step(g[m]) ELSE g[k]]
  <2>2. \A k \in 0..m : g[k] = IF k = 0 THEN start ELSE Step(g[k - 1])
    BY <2>1
  <2>3. ASSUME NEW k \in 0..m + 1 PROVE h[k] = IF k = 0 THEN start ELSE Step(h[k - 1])
    <3>1. CASE k = m + 1
      BY <3>1
    <3>2. CASE k # m + 1
      <4>1. k \in 0..m /\ (k # 0 => k - 1 \in 0..m /\ k - 1 # m + 1)
        BY <3>2
      <4> QED
        BY <2>2, <4>1
    <3> QED
      BY <3>1, <3>2
  <2>4. Is(h, m + 1)
    BY <2>3
  <2>5. m + 1 \in 0..n
    OBVIOUS
  <2> HIDE DEF Is, h
  <2> QED
    BY <2>4, <2>5
<1>4. n \in P
  <2> HIDE DEF P
  <2>1. \A m \in 0..n - 1 : m \in P => m + 1 \in P
    BY <1>3
  <2>2. 0..n \subseteq P
    BY <1>2, <2>1, IntervalInduction
  <2> QED
    BY <2>2
<1>5. Is(W, n)
  <2> HIDE DEF Is
  <2> QED
    BY <1>1, <1>4
<1>6. W[0] = start
  BY <1>5
<1>7. ASSUME NEW k \in 1..n PROVE W[k] = Step(W[k - 1])
  <2>1. k \in 0..n /\ k # 0
    OBVIOUS
  <2>2. W = [j \in 0..n |-> IF j = 0 THEN start ELSE Step(W[j - 1])]
    BY <1>5
  <2> HIDE DEF Is
  <2> QED
    BY <2>1, <2>2
<1>8. \A k \in 1..n : W[k] = Step(W[k - 1])
  BY <1>7
<1>9. W = [k \in 0..n |-> W[k]]
  BY <1>5
<1> QED
  BY <1>6, <1>8, <1>9 DEF Reaches, Step, start, W

LEMMA WithinGrows ==
  ASSUME NEW d, NEW root, NEW n \in Nat, NEW k \in 0..n
  PROVE  Within(d, root, n)[k] \subseteq ReachedFrom(d, root, n)
<1> DEFINE R == Within(d, root, n)
           P == {m \in 0..n : R[k] \subseteq (IF m < k THEN R[k] ELSE R[m])}
<1>1. Reaches(R, d, root, n)
  BY WithinByLinks DEF WithinReaches
<1> HIDE DEF R
<1>2. 0 \in P
  BY DEF P
<1>3. ASSUME NEW m \in 0..n - 1, m \in P
      PROVE  m + 1 \in P
  <2>1. m + 1 \in 1..n /\ (m + 1) - 1 = m
    OBVIOUS
  <2>2. R[m] \subseteq R[m + 1]
    BY <1>1, <2>1 DEF Reaches
  <2>3. CASE m < k
    BY <2>1, <2>3
  <2>4. CASE ~(m < k)
    <3>1. R[k] \subseteq R[m] /\ ~(m + 1 < k)
      BY <1>3, <2>4
    <3> QED
      BY <2>1, <2>2, <3>1
  <2> QED
    BY <2>3, <2>4
<1>4. n \in P
  <2> HIDE DEF P
  <2>1. \A m \in 0..n - 1 : m \in P => m + 1 \in P
    BY <1>3
  <2>2. 0..n \subseteq P
    BY <1>2, <2>1, IntervalInduction
  <2> QED
    BY <2>2
<1>5. R[k] \subseteq R[n]
  BY <1>4
<1> QED
  BY <1>5 DEF ReachedFrom, R

(* A set of places that holds the first and with each place what its links   *)
(* lead to holds all that is reached.                                      *)
LEMMA ReachedLeast ==
  ASSUME NEW d, NEW root, NEW n \in Nat, NEW S,
         <<root, << >>>> \in S,
         \A rep, m : <<rep, m>> \in S \cap ReachedFrom(d, root, n) => Onwards(d, <<rep, m>>) \subseteq S
  PROVE  \A at \in ReachedFrom(d, root, n) : at \in S /\ \E rep, m : at = <<rep, m>>
<1> DEFINE R == Within(d, root, n)
           P == {k \in 0..n : \A at \in R[k] : at \in S /\ \E rep, m : at = <<rep, m>>}
<1>1. Reaches(R, d, root, n)
  BY WithinByLinks DEF WithinReaches
<1> HIDE DEF R
<1>2. 0 \in P
  <2>1. \A at \in R[0] : at = <<root, << >>>>
    BY <1>1 DEF Reaches
  <2> QED
    BY <2>1
<1>3. ASSUME NEW k \in 0..n - 1, k \in P
      PROVE  k + 1 \in P
  <2>1. k + 1 \in 1..n /\ (k + 1) - 1 = k /\ k + 1 \in 0..n
    OBVIOUS
  <2>2. R[k + 1] = R[k] \cup UNION {Onwards(d, at) : at \in R[k]}
    BY <1>1, <2>1 DEF Reaches
  <2>3. ASSUME NEW at \in R[k], NEW on \in Onwards(d, at)
        PROVE  on \in S /\ \E rep, m : on = <<rep, m>>
    <3>1. at \in S /\ at \in ReachedFrom(d, root, n)
      <4>1. R[k] \subseteq ReachedFrom(d, root, n)
        BY <2>1, WithinGrows DEF R
      <4> QED
        BY <1>3, <4>1
    <3>2. PICK rep : \E m : at = <<rep, m>>
      BY <1>3
    <3>3. PICK m : at = <<rep, m>>
      BY <3>2
    <3>4. \E r, x : on = <<r, x>>
      BY DEF Onwards
    <3>5. on \in S
      BY <2>3, <3>1, <3>3
    <3> QED
      BY <3>4, <3>5
  <2>4. \A at \in R[k] : at \in S /\ \E rep, m : at = <<rep, m>>
    BY <1>3
  <2>5. \A at \in R[k + 1] : at \in S /\ \E rep, m : at = <<rep, m>>
    BY <2>2, <2>3, <2>4
  <2> QED
    BY <2>1, <2>5
<1>4. n \in P
  <2> HIDE DEF P
  <2>1. \A k \in 0..n - 1 : k \in P => k + 1 \in P
    BY <1>3
  <2>2. 0..n \subseteq P
    BY <1>2, <2>1, IntervalInduction
  <2> QED
    BY <2>2
<1> QED
  BY <1>4 DEF ReachedFrom, R

(* An unchanged file has the same reach.                                    *)
LEMMA LinksKept ==
  ASSUME FileKept, structure' = structure, NEW d, NEW rep, NEW m
  PROVE  /\ MappedOf(d, rep)' = MappedOf(d, rep) /\ OwnItems(d, rep)' = OwnItems(d, rep)
         /\ FollowedFrom(rep)' = FollowedFrom(rep)
         /\ Onwards(d, <<rep, m>>)' = Onwards(d, <<rep, m>>)
<1>1. /\ Representation(rep)' = Representation(rep) /\ Referrers(rep)' = Referrers(rep)
      /\ \A i : MappedItem(i)' = MappedItem(i) /\ Defined(i)' = Defined(i) /\ Entity(i)' = Entity(i)
      /\ \A u : LinkFrom(u, rep)' = LinkFrom(u, rep)
      /\ \A i : PlacesComponent(structure, i, d)' = PlacesComponent(structure, i, d)
  BY RepresentationKept, RecordsKept, MappedKept, LinkKept DEF PlacesComponent
<1>2. /\ MappedOf(d, rep)' = MappedOf(d, rep) /\ OwnItems(d, rep)' = OwnItems(d, rep)
  BY <1>1 DEF MappedOf, OwnItems
<1>3. FollowedFrom(rep)' = FollowedFrom(rep)
  BY <1>1 DEF FollowedFrom
<1>4. Onwards(d, <<rep, m>>)' = Onwards(d, <<rep, m>>)
  BY <1>1, <1>2, <1>3 DEF Onwards
<1> QED
  BY <1>2, <1>3, <1>4

LEMMA ReachedKept ==
  ASSUME FileKept, structure' = structure, NEW d, NEW root, NEW n \in Nat
  PROVE  /\ Within(d, root, n)' = Within(d, root, n)
         /\ ReachedFrom(d, root, n)' = ReachedFrom(d, root, n)
<1> DEFINE R == Within(d, root, n)
           Q == Within(d, root, n)'
           P == {k \in 0..n : Q[k] = R[k] /\ \A at \in R[k] : \E rep, m : at = <<rep, m>>}
<1>1. Reaches(R, d, root, n)
  BY WithinByLinks DEF WithinReaches
<1>2. WithinReaches'
  BY WithinByLinks, PTL
<1>3. /\ Q = [k \in 0..n |-> Q[k]]
      /\ Q[0] = {<<root, << >>>>}
      /\ \A k \in 1..n : Q[k] = Q[k - 1] \cup UNION {Onwards(d, at)' : at \in Q[k - 1]}
  BY <1>2 DEF WithinReaches, Reaches
<1> HIDE DEF R, Q
<1>4. 0 \in P
  <2>1. Q[0] = R[0] /\ \A at \in R[0] : at = <<root, << >>>>
    BY <1>1, <1>3 DEF Reaches
  <2> QED
    BY <2>1
<1>5. ASSUME NEW k \in 0..n - 1, k \in P
      PROVE  k + 1 \in P
  <2>1. k + 1 \in 1..n /\ (k + 1) - 1 = k /\ k + 1 \in 0..n
    OBVIOUS
  <2>2. R[k + 1] = R[k] \cup UNION {Onwards(d, at) : at \in R[k]}
    BY <1>1, <2>1 DEF Reaches
  <2>3. Q[k + 1] = Q[k] \cup UNION {Onwards(d, at)' : at \in Q[k]}
    BY <1>3, <2>1
  <2>4. Q[k] = R[k] /\ \A at \in R[k] : \E rep, m : at = <<rep, m>>
    BY <1>5
  <2>5. \A rep, m : Onwards(d, <<rep, m>>)' = Onwards(d, <<rep, m>>)
    BY LinksKept
  <2>6. \A at \in R[k] : Onwards(d, at)' = Onwards(d, at)
    BY <2>4, <2>5
  <2>7. Q[k + 1] = R[k + 1]
    BY <2>2, <2>3, <2>4, <2>6
  <2>8. \A at : \A on \in Onwards(d, at) : \E rep, m : on = <<rep, m>>
    BY DEF Onwards
  <2>9. \A at \in R[k + 1] : \E rep, m : at = <<rep, m>>
    BY <2>2, <2>4, <2>8
  <2> QED
    BY <2>1, <2>7, <2>9
<1>6. 0..n \subseteq P
  <2> HIDE DEF P
  <2>1. \A k \in 0..n - 1 : k \in P => k + 1 \in P
    BY <1>5
  <2> QED
    BY <1>4, <2>1, IntervalInduction
<1>7. R = [k \in 0..n |-> R[k]]
  BY <1>1 DEF Reaches
<1>8. Q = R
  BY <1>3, <1>6, <1>7
<1> QED
  BY <1>8 DEF ReachedFrom, R, Q

-----------------------------------------------------------------------------
(* Where a walk is: the place of each representation on its path, which is   *)
(* the representation with the mapped items that place it.                  *)
Placed(w, k) == FlattenSeq([i \in 1..k |-> w.frames[i].mapped])
Place(w, k) == <<w.frames[k].rep, Placed(w, k)>>

LEMMA PlacedSame ==
  ASSUME NEW v, NEW w, NEW k, \A i \in 1..k : v.frames[i].mapped = w.frames[i].mapped
  PROVE  Placed(v, k) = Placed(w, k)
<1>1. [i \in 1..k |-> v.frames[i].mapped] = [i \in 1..k |-> w.frames[i].mapped]
  OBVIOUS
<1> QED
  BY <1>1 DEF Placed

LEMMA PlacingIsPlaced ==
  ASSUME NEW w, IsSequence(w.frames)
  PROVE  Placing(w) = Placed(w, Len(w.frames))
<1>1. DOMAIN w.frames = 1..Len(w.frames)
  BY SequenceOf
<1> QED
  BY <1>1 DEF Placing, Placed

LEMMA PlacedNone ==
  ASSUME NEW w
  PROVE  Placed(w, 0) = << >>
<1>1. [i \in 1..0 |-> w.frames[i].mapped] = << >>
  OBVIOUS
<1>2. FlattenSeq(<< >>) = << >>
  BY DEF FlattenSeq
<1> QED
  BY <1>1, <1>2 DEF Placed

LEMMA PlacedOneMore ==
  ASSUME NEW w, NEW v, NEW n \in Nat, \A i \in 1..n : v.frames[i].mapped = w.frames[i].mapped
  PROVE  Placed(v, n + 1) = IF n = 0 THEN v.frames[1].mapped ELSE Placed(w, n) \o v.frames[n + 1].mapped
<1> DEFINE s == [i \in 1..n |-> w.frames[i].mapped]
           t == [i \in 1..n + 1 |-> v.frames[i].mapped]
<1>1. DOMAIN s = 1..n /\ DOMAIN t = 1..n + 1 /\ n + 1 \in Nat
  OBVIOUS
<1>2. s = [i \in 1..n |-> s[i]] /\ t = [i \in 1..n + 1 |-> t[i]]
  OBVIOUS
<1>3. Placed(v, n + 1) = FlattenSeq(t) /\ Placed(w, n) = FlattenSeq(s)
  BY DEF Placed
<1>4. /\ \A i \in 1..n : t[i] = s[i]
      /\ t[n + 1] = v.frames[n + 1].mapped /\ (n = 0 => t[1] = v.frames[1].mapped)
  BY <1>1
<1> HIDE DEF s, t
<1>5. Len(s) = n /\ Len(t) = n + 1
  BY <1>1, <1>2, BuiltSequence
<1>6. FlattenSeq(t) = IF n = 0 THEN t[1] ELSE FlattenSeq(s) \o t[n + 1]
  <2>1. \A i \in 1..n : t[i] = s[i]
    BY <1>4
  <2>2. s = [i \in 1..n |-> s[i]]
    BY <1>2
  <2> QED
    BY ONLY n \in Nat, <1>5, <2>1, <2>2, FlattenOneMore, ZenonT(40)
<1> QED
  BY <1>3, <1>4, <1>6

-----------------------------------------------------------------------------
(* What a walk that has nothing to report can have done.                    *)
Told(w) == w.exhausted => w.notFollowed # {}
Stays(v, w) == v.frames = w.frames /\ v.seen = w.seen /\ v.listed = w.listed

Enters(v, w, rep, mapped) ==
  /\ Representation(rep) # {}
  /\ v.frames = Append(w.frames, Frame(rep, mapped)) /\ v.listed = w.listed
  /\ v.seen = w.seen \cup {<<rep, Placing(w) \o mapped>>}

Silent(v, w) == v.notFollowed = {} => w.notFollowed = {}

LEMMA RefuseTells ==
  ASSUME NEW w, IsWalk(w), NEW id, NEW reason
  PROVE  /\ Refuse(w, id, reason).notFollowed # {}
         /\ Told(Refuse(w, id, reason)) /\ Silent(Refuse(w, id, reason), w)
<1>1. Refuse(w, id, reason).notFollowed = w.notFollowed \cup {[instance |-> id, reason |-> reason]}
  BY DEF Refuse, IsWalk
<1> QED
  BY <1>1 DEF Told, Silent

LEMMA CountedTells ==
  ASSUME NEW w, IsWalk(w), Told(w), NEW id
  PROVE  LET c == Counted(w, id)
         IN  /\ IsWalk(c) /\ Told(c) /\ Silent(c, w) /\ Stays(c, w)
             /\ c.notFollowed = {} => ~c.exhausted
<1> DEFINE c == Counted(w, id)
           x == [w EXCEPT !.exhausted = TRUE]
           r == Refuse(x, id, "too_large")
<1>1. CASE c = w
  BY <1>1 DEF Told, Silent, Stays
<1>2. CASE c = [w EXCEPT !.visits = @ + 1]
  <2>1. /\ IsWalk(c) /\ c.exhausted = w.exhausted /\ c.notFollowed = w.notFollowed
        /\ c.frames = w.frames /\ c.seen = w.seen /\ c.listed = w.listed
    BY <1>2 DEF IsWalk
  <2> QED
    BY <2>1 DEF Told, Silent, Stays
<1>3. CASE c = r
  <2>1. IsWalk(x) /\ x.frames = w.frames /\ x.seen = w.seen /\ x.listed = w.listed
        /\ x.notFollowed = w.notFollowed
    BY DEF IsWalk
  <2> HIDE DEF x
  <2>2. r.notFollowed # {} /\ Told(r) /\ Silent(r, x)
    BY <2>1, RefuseTells
  <2>3. IsWalk(r) /\ r.frames = x.frames /\ r.seen = x.seen /\ r.listed = x.listed
    BY <2>1 DEF IsWalk, Refuse
  <2> HIDE DEF r
  <2> QED
    BY <1>3, <2>1, <2>2, <2>3 DEF Stays, Silent
<1>4. c = w \/ c = [w EXCEPT !.visits = @ + 1] \/ c = r
  BY DEF Counted
<1> QED
  BY <1>1, <1>2, <1>3, <1>4

LEMMA VisitTells ==
  ASSUME NEW w, IsWalk(w), Told(w), NEW rep, NEW mapped
  PROVE  LET v == Visit(w, rep, mapped)
         IN  /\ Told(v) /\ Silent(v, w)
             /\ v.notFollowed = {} => \/ Stays(v, w) /\ <<rep, Placing(w) \o mapped>> \in w.seen
                                      \/ Enters(v, w, rep, mapped)
<1> DEFINE c == Counted(w, rep)
           key == <<rep, Placing(w) \o mapped>>
           entered == [c EXCEPT !.seen = @ \cup {key}]
           frame == Frame(rep, mapped)
           on == [entered EXCEPT !.frames = Append(@, frame)]
           refused == Refuse(entered, rep, UnreadableReason(rep))
           v == Visit(w, rep, mapped)
<1>1. /\ IsWalk(c) /\ Told(c) /\ Silent(c, w) /\ Stays(c, w)
      /\ c.notFollowed = {} => ~c.exhausted
  BY CountedTells
<1>2. v = IF c.exhausted \/ key \in w.seen THEN c
          ELSE IF Representation(rep) = {} THEN refused ELSE on
  BY DEF Visit
<1> HIDE DEF c, key, frame
<1>3. IsWalk(entered) /\ entered.notFollowed = c.notFollowed
  BY <1>1 DEF IsWalk
<1>4. refused.notFollowed # {} /\ Told(refused) /\ Silent(refused, w)
  <2> HIDE DEF entered
  <2>1. refused.notFollowed # {} /\ Told(refused)
    BY <1>3, RefuseTells
  <2> QED
    BY <2>1 DEF Silent
<1>5. /\ on.notFollowed = c.notFollowed /\ on.exhausted = c.exhausted /\ on.listed = c.listed
      /\ on.frames = Append(c.frames, frame) /\ on.seen = c.seen \cup {key}
  BY <1>1 DEF IsWalk
<1> HIDE DEF entered, refused, on, v
<1>6. CASE v = c /\ (c.exhausted \/ key \in w.seen)
  <2>1. c.notFollowed = {} => key \in w.seen
    BY <1>1, <1>6
  <2> QED
    BY <1>1, <1>6, <2>1 DEF v, key
<1>7. CASE v = refused
  BY <1>4, <1>7 DEF v
<1>8. CASE v = on /\ Representation(rep) # {}
  <2>1. Told(v) /\ Silent(v, w)
    BY <1>1, <1>5, <1>8 DEF Told, Silent
  <2>2. Enters(v, w, rep, mapped)
    BY <1>1, <1>5, <1>8 DEF Enters, Stays, key, frame
  <2> QED
    BY <2>1, <2>2 DEF v
<1> QED
  BY <1>2, <1>6, <1>7, <1>8

LEMMA DescendTells ==
  ASSUME NEW w, IsWalk(w), Told(w), NEW id, NEW rep, NEW mapped
  PROVE  LET v == Descend(w, id, rep, mapped)
         IN  /\ Told(v) /\ Silent(v, w)
             /\ v.notFollowed = {} => \/ Stays(v, w) /\ <<rep, Placing(w) \o mapped>> \in w.seen
                                      \/ Enters(v, w, rep, mapped) /\ ~(Depth(w) >= MaxShapeDepth)
BY RefuseTells, VisitTells DEF Descend

(* An item of a representation: listed, or followed, or of no account.       *)
Entry(w, item) ==
  [item |-> item, solid |-> HasAny(item, Solids), representation |-> Last(w.frames).rep,
   root |-> w.frames[1].rep, mapped |-> Placing(w)]

Lists(v, w, item) ==
  /\ v.frames = w.frames /\ v.seen = w.seen \cup {<<item, Placing(w)>>}
  /\ <<item, Placing(w)>> \notin w.seen
  /\ v.listed = Append(w.listed, Entry(w, item))

LEMMA ListedTells ==
  ASSUME NEW w, IsWalk(w), Told(w), NEW item
  PROVE  LET v == Listed(w, item)
         IN  /\ Told(v) /\ Silent(v, w)
             /\ \/ Stays(v, w) /\ <<item, Placing(w)>> \in w.seen
                \/ Lists(v, w, item)
<1> DEFINE key == <<item, Placing(w)>>
           e == Entry(w, item)
           x == [w EXCEPT !.seen = @ \cup {key}, !.listed = Append(@, e)]
<1>1. Listed(w, item) = IF key \in w.seen THEN w ELSE x
  BY DEF Listed, Entry
<1> HIDE DEF key, e
<1>2. /\ x.frames = w.frames /\ x.seen = w.seen \cup {key} /\ x.listed = Append(w.listed, e)
      /\ x.notFollowed = w.notFollowed /\ x.exhausted = w.exhausted
  BY DEF IsWalk
<1> HIDE DEF x
<1>3. CASE key \in w.seen
  BY <1>1, <1>3 DEF Told, Silent, Stays, key
<1>4. CASE key \notin w.seen
  BY <1>1, <1>2, <1>4 DEF Told, Silent, Lists, key, e
<1> QED
  BY <1>3, <1>4

LEMMA MappedKinds ==
  ASSUME NEW item
  PROVE  MappedItem(item).kind \in {"plain", "malformed", "other", "no"}
<1>1. \A mapped \in MapsOf(item) : mapped.kind = "plain"
  BY DEF MapsOf, ReadMap
<1> QED
  BY <1>1 DEF MappedItem

(* A frame is no mapped item.                                               *)
LEMMA FramesMapNothing ==
  ASSUME ReadsInv, NEW item, Entity(item) = <<"AXIS2_PLACEMENT_3D">>
  PROVE  MappedItem(item).kind = "no"
<1>1. CASE ~Defined(item)
  BY <1>1 DEF MappedItem
<1>2. CASE Defined(item)
  <2>1. DOMAIN <<"AXIS2_PLACEMENT_3D">> = {1} /\ <<"AXIS2_PLACEMENT_3D">>[1] = "AXIS2_PLACEMENT_3D"
    OBVIOUS
  <2>2. DOMAIN Entity(item) = DOMAIN file[item].records
        /\ \A i \in DOMAIN file[item].records : Entity(item)[i] = file[item].records[i].name
    BY DEF Entity
  <2>3. \A i \in DOMAIN file[item].records : file[item].records[i].name = "AXIS2_PLACEMENT_3D"
    BY <2>1, <2>2
  <2>4. ~HasAny(item, MappedItemTypes)
    BY <2>3 DEF HasAny, RecordsOf, ToSet, MappedItemTypes
  <2> QED
    BY <2>4 DEF MappedItem
<1> QED
  BY <1>1, <1>2

OfNoAccount(d, item) == \A rep : item \notin MappedOf(d, rep) /\ item \notin OwnItems(d, rep)

LEMMA ItemTells ==
  ASSUME ReadsInv, NEW w, IsWalk(w), Told(w), NEW item
  PROVE  LET v == Item(w, item)
             far == MappedItem(item).representation
         IN  /\ Told(v) /\ Silent(v, w)
             /\ v.notFollowed = {} =>
                  \/ Stays(v, w) /\ OfNoAccount(definition, item)
                  \/ /\ MappedItem(item).kind = "plain" /\ ~PlacesComponent(structure, item, definition)
                     /\ \/ Stays(v, w) /\ <<far, Placing(w) \o <<item>>>> \in w.seen
                        \/ Enters(v, w, far, <<item>>) /\ ~(Depth(w) >= MaxShapeDepth)
                  \/ /\ MappedItem(item).kind = "no" /\ Defined(item) /\ ~PlacesComponent(structure, item, definition)
                     /\ Entity(item) # <<"AXIS2_PLACEMENT_3D">>
                     /\ \/ Stays(v, w) /\ <<item, Placing(w)>> \in w.seen
                        \/ Lists(v, w, item)
<1> DEFINE v == Item(w, item)
           mapped == MappedItem(item)
           far == mapped.representation
<1>1. \A reason : LET r == Refuse(w, item, reason)
                  IN  r.notFollowed # {} /\ Told(r) /\ Silent(r, w)
  BY RefuseTells
<1>2. CASE \E reason : v = Refuse(w, item, reason)
  BY <1>1, <1>2
<1>3. CASE Defined(item) /\ (Entity(item) = <<"AXIS2_PLACEMENT_3D">> \/ PlacesComponent(structure, item, definition))
  <2>1. v = w
    BY <1>3 DEF Item
  <2>2. OfNoAccount(definition, item)
    <3>1. CASE PlacesComponent(structure, item, definition)
      BY <3>1 DEF OfNoAccount, MappedOf, OwnItems
    <3>2. CASE Entity(item) = <<"AXIS2_PLACEMENT_3D">>
      <4>1. mapped.kind = "no"
        BY <3>2, FramesMapNothing
      <4> QED
        BY <3>2, <4>1 DEF OfNoAccount, MappedOf, OwnItems
    <3> QED
      BY <1>3, <3>1, <3>2
  <2> QED
    BY <2>1, <2>2 DEF Stays, Silent
<1>4. ASSUME Defined(item), Entity(item) # <<"AXIS2_PLACEMENT_3D">>, ~PlacesComponent(structure, item, definition),
             mapped.kind = "plain"
      PROVE  /\ Told(v) /\ Silent(v, w)
             /\ v.notFollowed = {} =>
                   \/ Stays(v, w) /\ <<far, Placing(w) \o <<item>>>> \in w.seen
                   \/ Enters(v, w, far, <<item>>) /\ ~(Depth(w) >= MaxShapeDepth)
  <2>1. v = Mapped(w, item, mapped)
    BY <1>4 DEF Item
  <2> HIDE DEF v, mapped
  <2>2. v = Refuse(w, item, "cycle") \/ v = Descend(w, item, far, <<item>>)
    BY <2>1 DEF Mapped
  <2> QED
    BY <1>1, <2>2, DescendTells
<1>5. ASSUME Defined(item), Entity(item) # <<"AXIS2_PLACEMENT_3D">>, ~PlacesComponent(structure, item, definition),
             mapped.kind = "no"
      PROVE  /\ Told(v) /\ Silent(v, w)
             /\ \/ Stays(v, w) /\ <<item, Placing(w)>> \in w.seen
                \/ Lists(v, w, item)
  <2>1. v = Listed(w, item)
    BY <1>5 DEF Item
  <2> QED
    BY <2>1, ListedTells
<1>6. \/ \E reason : v = Refuse(w, item, reason)
      \/ Defined(item) /\ (Entity(item) = <<"AXIS2_PLACEMENT_3D">> \/ PlacesComponent(structure, item, definition))
      \/ /\ Defined(item) /\ Entity(item) # <<"AXIS2_PLACEMENT_3D">> /\ ~PlacesComponent(structure, item, definition)
         /\ mapped.kind \in {"plain", "no"}
  BY MappedKinds DEF Item
<1> QED
  <2>1. CASE mapped.kind = "plain" /\ Defined(item) /\ Entity(item) # <<"AXIS2_PLACEMENT_3D">>
             /\ ~PlacesComponent(structure, item, definition)
    <3> HIDE DEF v
    <3> QED
      BY <1>4, <2>1 DEF v
  <2>2. CASE mapped.kind = "no" /\ Defined(item) /\ Entity(item) # <<"AXIS2_PLACEMENT_3D">>
             /\ ~PlacesComponent(structure, item, definition)
    BY <1>5, <2>2
  <2> QED
    BY <1>2, <1>3, <1>6, <2>1, <2>2

LEMMA LinkTells ==
  ASSUME NEW w, IsWalk(w), Told(w), NEW user
  PROVE  LET v == Link(w, user)
             link == LinkFrom(user, Last(w.frames).rep)
         IN  /\ Told(v) /\ Silent(v, w)
             /\ v.notFollowed = {} =>
                  \/ Stays(v, w) /\ (link.kind = "follow" => link.far \in OnPath(w))
                  \/ /\ link.kind = "follow"
                     /\ \/ Stays(v, w) /\ <<link.far, Placing(w) \o << >>>> \in w.seen
                        \/ Enters(v, w, link.far, << >>) /\ ~(Depth(w) >= MaxShapeDepth)
<1> DEFINE v == Link(w, user)
           link == LinkFrom(user, Last(w.frames).rep)
<1>1. \A id, reason : LET r == Refuse(w, id, reason)
                      IN  r.notFollowed # {} /\ Told(r) /\ Silent(r, w)
  BY RefuseTells
<1>2. link.kind \in {"none", "refused", "usage", "constructive", "follow"}
  BY DEF LinkFrom, LinkTo, SameSpace, Refused
<1>3. \/ \E reason : v = Refuse(w, user, reason)
      \/ v = w /\ (link.kind = "follow" => link.far \in OnPath(w))
      \/ link.kind = "follow" /\ v = Descend(w, user, link.far, << >>)
  <2> HIDE DEF link
  <2> QED
    BY <1>2 DEF Link, link
<1>4. CASE \E reason : v = Refuse(w, user, reason)
  BY <1>1, <1>4
<1>5. CASE v = w /\ (link.kind = "follow" => link.far \in OnPath(w))
  BY <1>5 DEF Stays, Silent
<1>6. CASE link.kind = "follow" /\ v = Descend(w, user, link.far, << >>)
  <2> DEFINE far == link.far
  <2>1. LET x == Descend(w, user, far, << >>)
        IN  /\ Told(x) /\ Silent(x, w)
            /\ x.notFollowed = {} => \/ Stays(x, w) /\ <<far, Placing(w) \o << >>>> \in w.seen
                                     \/ Enters(x, w, far, << >>) /\ ~(Depth(w) >= MaxShapeDepth)
    <3> HIDE DEF far
    <3> QED
      BY DescendTells
  <2> QED
    BY <1>6, <2>1
<1> QED
  BY <1>3, <1>4, <1>5, <1>6

-----------------------------------------------------------------------------
(* What holds of a walk w of definition d that has nothing to report, rest   *)
(* being the shape representations it has not begun.                        *)
Loops(w) ==
  \A k \in DOMAIN w.frames :
    /\ IsSequence(w.frames[k].items) /\ ToSet(w.frames[k].items) \subseteq ItemsAt(w.frames[k].rep)
    /\ IsSequence(w.frames[k].users) /\ ToSet(w.frames[k].users) \subseteq UsersAt(w.frames[k].rep)

(* Its path goes along links from the root, placing on placing.             *)
Trail(d, w) ==
  /\ Len(w.frames) <= MaxShapeDepth + 1
  /\ \A k \in DOMAIN w.frames :
       /\ IsSequence(Placed(w, k)) /\ Place(w, k) \in w.seen
       /\ Place(w, k) \in Within(d, w.frames[1].rep, MaxShapeDepth + 2)[k - 1]
  /\ \A j, k \in DOMAIN w.frames : j <= k => GoesOnFrom(Placed(w, j), Placed(w, k))

ItemDone(d, w, rep, m, i) ==
  /\ i \in MappedOf(d, rep) => <<MappedItem(i).representation, Append(m, i)>> \in w.seen
  /\ i \in OwnItems(d, rep) => <<i, m>> \in w.seen

UserDone(w, rep, m, u) ==
  LinkFrom(u, rep).kind = "follow" => <<LinkFrom(u, rep).far, m>> \in w.seen

(* The representations that the links lead to.                               *)
Met(d) == ReachedReps(d, MaxShapeDepth + 2)

(* Every place it has seen is done, or still in a loop of its path.          *)
Done(d, w) ==
  \A rep, m : <<rep, m>> \in w.seen /\ rep \in Met(d) =>
    /\ \A i \in ItemsAt(rep) :
         \/ ItemDone(d, w, rep, m, i)
         \/ \E k \in DOMAIN w.frames : Place(w, k) = <<rep, m>> /\ i \in ToSet(w.frames[k].items)
    /\ \A u \in UsersAt(rep) :
         \/ UserDone(w, rep, m, u)
         \/ \E k \in DOMAIN w.frames : Place(w, k) = <<rep, m>> /\ u \in ToSet(w.frames[k].users)

Triple(entry) == <<entry.item, entry.mapped, entry.root>>

(* What it has seen from this root and is not reached, it has listed.        *)
Noted(d, w) ==
  w.frames # << >> =>
    /\ \A i, m : <<i, m>> \in w.seen /\ i \notin Met(d) =>
         \E k \in DOMAIN w.listed : Triple(w.listed[k]) = <<i, m, w.frames[1].rep>>
    /\ \A k \in DOMAIN w.listed :
         w.listed[k].root = w.frames[1].rep => <<w.listed[k].item, w.listed[k].mapped>> \in w.seen

WholeOf(d, root) ==
  UNION {{<<i, at[2], root>> : i \in OwnItems(d, at[1])} : at \in ReachedFrom(d, root, MaxShapeDepth + 2)}

IsListed(w, t) == \E k \in DOMAIN w.listed : Triple(w.listed[k]) = t

(* It lists what belongs to the shape, once, and the whole of what it is     *)
(* done with.                                                              *)
Listings(d, w, rest) ==
  /\ IsSequence(w.listed)
  /\ \A k \in DOMAIN w.listed :
       /\ w.listed[k].root \in Starts(d) \ ToSet(rest)
       /\ Triple(w.listed[k]) \in WholeOf(d, w.listed[k].root)
  /\ \A j, k \in DOMAIN w.listed : j # k => Triple(w.listed[j]) # Triple(w.listed[k])
  /\ w.frames # << >> => w.frames[1].rep \in Starts(d) \ ToSet(rest)
  /\ \A root \in Starts(d) :
       \/ root \in ToSet(rest)
       \/ w.frames # << >> /\ root = w.frames[1].rep
       \/ \A t \in WholeOf(d, root) : IsListed(w, t)

Rest(d, rest) ==
  /\ IsSequence(rest) /\ ToSet(rest) \subseteq Starts(d)
  /\ \A j, k \in DOMAIN rest : j # k => rest[j] # rest[k]

Clean(d, w) == w.notFollowed = {} /\ ItemsAreNoShapes(d, MaxShapeDepth + 2) /\ ~PlacesItself(d, MaxShapeDepth + 2)

Whole(d, w, rest) ==
  /\ Told(w) /\ Rest(d, rest)
  /\ Clean(d, w) => Loops(w) /\ Trail(d, w) /\ Done(d, w) /\ Noted(d, w) /\ Listings(d, w, rest)

-----------------------------------------------------------------------------
LEMMA StaysKeeps ==
  ASSUME NEW d, NEW v, NEW w, Stays(v, w), NEW rest
  PROVE  /\ Loops(w) => Loops(v)
         /\ Trail(d, w) => Trail(d, v)
         /\ Noted(d, w) => Noted(d, v)
         /\ Listings(d, w, rest) => Listings(d, v, rest)
         /\ \A k : Place(v, k) = Place(w, k) /\ Placed(v, k) = Placed(w, k)
<1>1. v.frames = w.frames /\ v.seen = w.seen /\ v.listed = w.listed
  BY DEF Stays
<1>2. \A k : Place(v, k) = Place(w, k) /\ Placed(v, k) = Placed(w, k)
  BY <1>1 DEF Place, Placed
<1>3. (Loops(w) => Loops(v)) /\ (Noted(d, w) => Noted(d, v))
  BY <1>1 DEF Loops, Noted
<1>4. Trail(d, w) => Trail(d, v)
  BY <1>1, <1>2 DEF Trail
<1>5. Listings(d, w, rest) => Listings(d, v, rest)
  <2>1. \A t : IsListed(w, t) <=> IsListed(v, t)
    BY <1>1 DEF IsListed
  <2> QED
    BY <1>1, <2>1 DEF Listings
<1> QED
  BY <1>2, <1>3, <1>4, <1>5

LEMMA DoneGrows ==
  ASSUME NEW d, NEW v, NEW w, w.seen \subseteq v.seen, NEW rep, NEW m, NEW x
  PROVE  /\ ItemDone(d, w, rep, m, x) => ItemDone(d, v, rep, m, x)
         /\ UserDone(w, rep, m, x) => UserDone(v, rep, m, x)
BY DEF ItemDone, UserDone

(* A step that does what it takes from the loops, and leaves to the loops    *)
(* what is new.                                                            *)
LEMMA DoneStep ==
  ASSUME NEW d, NEW v, NEW w, Done(d, w), w.seen \subseteq v.seen,
         \A k \in DOMAIN w.frames :
           /\ \A i \in ToSet(w.frames[k].items) :
                \/ ItemDone(d, v, w.frames[k].rep, Placed(w, k), i)
                \/ k \in DOMAIN v.frames /\ Place(v, k) = Place(w, k) /\ i \in ToSet(v.frames[k].items)
           /\ \A u \in ToSet(w.frames[k].users) :
                \/ UserDone(v, w.frames[k].rep, Placed(w, k), u)
                \/ k \in DOMAIN v.frames /\ Place(v, k) = Place(w, k) /\ u \in ToSet(v.frames[k].users),
         \A rep, m : <<rep, m>> \in v.seen /\ <<rep, m>> \notin w.seen /\ rep \in Met(d) =>
           /\ \A i \in ItemsAt(rep) :
                \/ ItemDone(d, v, rep, m, i)
                \/ \E k \in DOMAIN v.frames : Place(v, k) = <<rep, m>> /\ i \in ToSet(v.frames[k].items)
           /\ \A u \in UsersAt(rep) :
                \/ UserDone(v, rep, m, u)
                \/ \E k \in DOMAIN v.frames : Place(v, k) = <<rep, m>> /\ u \in ToSet(v.frames[k].users)
  PROVE  Done(d, v)
<1> SUFFICES ASSUME NEW rep \in Met(d), NEW m, <<rep, m>> \in v.seen, <<rep, m>> \in w.seen
             PROVE  /\ \A i \in ItemsAt(rep) :
                         \/ ItemDone(d, v, rep, m, i)
                         \/ \E k \in DOMAIN v.frames : Place(v, k) = <<rep, m>> /\ i \in ToSet(v.frames[k].items)
                    /\ \A u \in UsersAt(rep) :
                         \/ UserDone(v, rep, m, u)
                         \/ \E k \in DOMAIN v.frames : Place(v, k) = <<rep, m>> /\ u \in ToSet(v.frames[k].users)
  BY DEF Done
<1>1. ASSUME NEW i \in ItemsAt(rep), ~ItemDone(d, v, rep, m, i)
      PROVE  \E k \in DOMAIN v.frames : Place(v, k) = <<rep, m>> /\ i \in ToSet(v.frames[k].items)
  <2>1. ~ItemDone(d, w, rep, m, i)
    BY <1>1, DoneGrows
  <2>2. PICK k \in DOMAIN w.frames : Place(w, k) = <<rep, m>> /\ i \in ToSet(w.frames[k].items)
    BY <1>1, <2>1 DEF Done
  <2>3. w.frames[k].rep = rep /\ Placed(w, k) = m
    BY <2>2 DEF Place
  <2> QED
    BY <1>1, <2>2, <2>3
<1>2. ASSUME NEW u \in UsersAt(rep), ~UserDone(v, rep, m, u)
      PROVE  \E k \in DOMAIN v.frames : Place(v, k) = <<rep, m>> /\ u \in ToSet(v.frames[k].users)
  <2>1. ~UserDone(w, rep, m, u)
    BY <1>2, DoneGrows
  <2>2. PICK k \in DOMAIN w.frames : Place(w, k) = <<rep, m>> /\ u \in ToSet(w.frames[k].users)
    BY <1>2, <2>1 DEF Done
  <2>3. w.frames[k].rep = rep /\ Placed(w, k) = m
    BY <2>2 DEF Place
  <2> QED
    BY <1>2, <2>2, <2>3
<1> QED
  BY <1>1, <1>2

-----------------------------------------------------------------------------
(* One pass of a loop takes its head from the frame on top.                  *)
Pops(c, w, items, named) ==
  /\ IsSequence(c.frames) /\ Len(c.frames) = Len(w.frames)
  /\ c.seen = w.seen /\ c.listed = w.listed
  /\ \A k \in DOMAIN w.frames :
       /\ c.frames[k].rep = w.frames[k].rep /\ c.frames[k].mapped = w.frames[k].mapped
       /\ IsSequence(c.frames[k].items) /\ IsSequence(c.frames[k].users)
       /\ ToSet(c.frames[k].items) \subseteq ToSet(w.frames[k].items)
       /\ ToSet(c.frames[k].users) \subseteq ToSet(w.frames[k].users)
       /\ \A i \in ToSet(w.frames[k].items) :
            i \in ToSet(c.frames[k].items) \/ (k = Len(w.frames) /\ i \in items)
       /\ \A u \in ToSet(w.frames[k].users) :
            u \in ToSet(c.frames[k].users) \/ (k = Len(w.frames) /\ u \in named)

LEMMA WithoutPops ==
  ASSUME NEW w, Own(w), Loops(w), w.frames # << >>, NEW loop \in {"items", "users"},
         Last(w.frames)[loop] # << >>
  PROVE  LET x == Head(Last(w.frames)[loop])
         IN  Pops(Without(w, loop), w, IF loop = "items" THEN {x} ELSE {}, IF loop = "items" THEN {} ELSE {x})
<1> DEFINE v == Without(w, loop)
           n == Len(w.frames)
           s == w.frames[n][loop]
           x == Head(s)
           top == [w.frames[n] EXCEPT ![loop] = Tail(@)]
<1>1. IsWalk(w) /\ IsSequence(w.frames) /\ n \in Nat /\ n # 0 /\ DOMAIN w.frames = 1..n /\ n \in DOMAIN w.frames
  <2>1. IsWalk(w) /\ IsSequence(w.frames)
    BY DEF Own, IsWalk
  <2>2. n # 0
    BY <2>1 DEF IsSequence
  <2>3. n \in Nat /\ DOMAIN w.frames = 1..n
    BY <2>1, SequenceOf
  <2>4. n \in 1..n
    BY <2>2, <2>3
  <2> QED
    BY <2>1, <2>2, <2>3, <2>4
<1>2. v.frames = [w.frames EXCEPT ![n] = top] /\ v.seen = w.seen /\ v.listed = w.listed
  BY <1>1 DEF IsWalk, Without
<1>3. Last(w.frames)[loop] = s
  BY DEF Last
<1>4. IsFrame(w.frames[n])
  BY <1>1 DEF Own
<1>5. /\ top.rep = w.frames[n].rep /\ top.mapped = w.frames[n].mapped
      /\ top[loop] = Tail(s)
      /\ loop = "items" => top.users = w.frames[n].users
      /\ loop = "users" => top.items = w.frames[n].items
  BY <1>4 DEF IsFrame
<1>6. IsSequence(s)
  BY <1>1 DEF Loops
<1>7. IsSequence(Tail(s)) /\ ToSet(s) = {x} \cup ToSet(Tail(s))
  <2> HIDE DEF s
  <2> QED
    BY <1>3, <1>6, TailSet
<1> HIDE DEF top, v
<1>8. IsSequence(v.frames) /\ Len(v.frames) = n
  <2>1. v.frames = [k \in DOMAIN w.frames |-> v.frames[k]]
    BY <1>2
  <2> QED
    BY <1>1, <2>1, SameDomainSequence
<1>9. v.frames[n] = top /\ \A k \in DOMAIN w.frames : k # n => v.frames[k] = w.frames[k]
  BY <1>1, <1>2
<1> DEFINE items == IF loop = "items" THEN {x} ELSE {}
           named == IF loop = "items" THEN {} ELSE {x}
<1>10. /\ IsSequence(top.items) /\ IsSequence(top.users)
       /\ ToSet(w.frames[n].items) = ToSet(top.items) \cup items
       /\ ToSet(w.frames[n].users) = ToSet(top.users) \cup named
  <2>1. CASE loop = "items"
    <3>1. top.items = Tail(s) /\ s = w.frames[n].items /\ top.users = w.frames[n].users
      BY <1>5, <2>1
    <3>2. IsSequence(w.frames[n].users)
      BY <1>1 DEF Loops
    <3> HIDE DEF s, x
    <3> QED
      BY <1>7, <2>1, <3>1, <3>2
  <2>2. CASE loop = "users"
    <3>1. top.users = Tail(s) /\ s = w.frames[n].users /\ top.items = w.frames[n].items
      BY <1>5, <2>2
    <3>2. IsSequence(w.frames[n].items)
      BY <1>1 DEF Loops
    <3> HIDE DEF s, x
    <3> QED
      BY <1>7, <2>2, <3>1, <3>2
  <2> QED
    BY <2>1, <2>2
<1> HIDE DEF items, named
<1>11. ASSUME NEW k \in DOMAIN w.frames
       PROVE  /\ v.frames[k].rep = w.frames[k].rep /\ v.frames[k].mapped = w.frames[k].mapped
              /\ IsSequence(v.frames[k].items) /\ IsSequence(v.frames[k].users)
              /\ ToSet(v.frames[k].items) \subseteq ToSet(w.frames[k].items)
              /\ ToSet(v.frames[k].users) \subseteq ToSet(w.frames[k].users)
              /\ \A i \in ToSet(w.frames[k].items) : i \in ToSet(v.frames[k].items) \/ (k = n /\ i \in items)
              /\ \A u \in ToSet(w.frames[k].users) : u \in ToSet(v.frames[k].users) \/ (k = n /\ u \in named)
  <2>1. CASE k = n
    BY <1>5, <1>9, <1>10, <2>1
  <2>2. CASE k # n
    <3>1. v.frames[k] = w.frames[k] /\ IsSequence(w.frames[k].items) /\ IsSequence(w.frames[k].users)
      BY <1>9, <2>2 DEF Loops
    <3> QED
      BY <3>1
  <2> QED
    BY <2>1, <2>2
<1>12. Pops(v, w, items, named)
  BY <1>2, <1>8, <1>11 DEF Pops
<1>13. Head(Last(w.frames)[loop]) = x
  BY <1>3
<1> QED
  BY <1>12, <1>13 DEF v, items, named

LEMMA FramesOfPops ==
  ASSUME NEW c, NEW w, NEW items, NEW named, IsSequence(w.frames), w.frames # << >>, Pops(c, w, items, named)
  PROVE  /\ IsSequence(c.frames) /\ DOMAIN c.frames = DOMAIN w.frames /\ c.frames # << >>
         /\ DOMAIN w.frames = 1..Len(w.frames) /\ Len(w.frames) \in Nat \ {0}
         /\ Len(c.frames) = Len(w.frames)
         /\ 1 \in DOMAIN w.frames /\ Len(w.frames) \in DOMAIN w.frames
         /\ \A k \in DOMAIN w.frames : Placed(c, k) = Placed(w, k) /\ Place(c, k) = Place(w, k)
<1>1. IsSequence(c.frames) /\ Len(c.frames) = Len(w.frames)
  BY DEF Pops
<1>2. /\ DOMAIN w.frames = 1..Len(w.frames) /\ Len(w.frames) \in Nat
      /\ DOMAIN c.frames = 1..Len(c.frames)
  BY <1>1, SequenceOf
<1>3. Len(w.frames) # 0
  BY DEF IsSequence
<1>4. c.frames # << >>
  BY <1>1, <1>2, <1>3, ShortSequences
<1>5. ASSUME NEW k \in DOMAIN w.frames
      PROVE  Placed(c, k) = Placed(w, k) /\ Place(c, k) = Place(w, k)
  <2>1. \A i \in 1..k : c.frames[i].mapped = w.frames[i].mapped
    BY <1>2 DEF Pops
  <2>2. Placed(c, k) = Placed(w, k)
    BY <2>1, PlacedSame
  <2> QED
    BY <2>2 DEF Place, Pops
<1> QED
  BY <1>1, <1>2, <1>3, <1>4, <1>5

LEMMA PopsKeep ==
  ASSUME NEW d, NEW c, NEW w, NEW items, NEW named, NEW rest,
         IsSequence(w.frames), w.frames # << >>, Pops(c, w, items, named)
  PROVE  /\ Loops(w) => Loops(c)
         /\ Trail(d, w) => Trail(d, c)
         /\ Noted(d, w) => Noted(d, c)
         /\ Listings(d, w, rest) => Listings(d, c, rest)
<1>1. /\ DOMAIN c.frames = DOMAIN w.frames /\ c.frames # << >> /\ 1 \in DOMAIN w.frames
      /\ \A k \in DOMAIN w.frames : Placed(c, k) = Placed(w, k) /\ Place(c, k) = Place(w, k)
      /\ Len(c.frames) = Len(w.frames)
  BY FramesOfPops
<1>2. c.seen = w.seen /\ c.listed = w.listed /\ c.frames[1].rep = w.frames[1].rep
  BY <1>1 DEF Pops
<1>3. Loops(w) => Loops(c)
  <2> SUFFICES ASSUME Loops(w), NEW k \in DOMAIN w.frames
               PROVE  /\ IsSequence(c.frames[k].items) /\ ToSet(c.frames[k].items) \subseteq ItemsAt(c.frames[k].rep)
                      /\ IsSequence(c.frames[k].users) /\ ToSet(c.frames[k].users) \subseteq UsersAt(c.frames[k].rep)
    BY <1>1 DEF Loops
  <2>1. /\ ToSet(w.frames[k].items) \subseteq ItemsAt(w.frames[k].rep)
        /\ ToSet(w.frames[k].users) \subseteq UsersAt(w.frames[k].rep)
    BY DEF Loops
  <2>2. /\ IsSequence(c.frames[k].items) /\ IsSequence(c.frames[k].users)
        /\ c.frames[k].rep = w.frames[k].rep
        /\ ToSet(c.frames[k].items) \subseteq ToSet(w.frames[k].items)
        /\ ToSet(c.frames[k].users) \subseteq ToSet(w.frames[k].users)
    BY DEF Pops
  <2> QED
    BY <2>1, <2>2
<1>4. Trail(d, w) => Trail(d, c)
  BY <1>1, <1>2 DEF Trail
<1>5. Noted(d, w) => Noted(d, c)
  BY <1>1, <1>2 DEF Noted
<1>6. Listings(d, w, rest) => Listings(d, c, rest)
  <2>1. \A t : IsListed(w, t) <=> IsListed(c, t)
    BY <1>2 DEF IsListed
  <2> QED
    BY <1>1, <1>2, <2>1 DEF Listings
<1> QED
  BY <1>3, <1>4, <1>5, <1>6

(* A walk that goes on to another representation.                           *)
LEMMA FramesOfEnter ==
  ASSUME ReadsInv, phase # "graph", NEW x, NEW c, NEW far, NEW mapped,
         IsSequence(c.frames), Enters(x, c, far, mapped)
  PROVE  /\ IsSequence(x.frames) /\ Len(x.frames) = Len(c.frames) + 1 /\ x.frames # << >>
         /\ Len(c.frames) \in Nat
         /\ DOMAIN c.frames = 1..Len(c.frames) /\ DOMAIN x.frames = 1..Len(c.frames) + 1
         /\ \A k \in 1..Len(c.frames) :
              x.frames[k] = c.frames[k] /\ Placed(x, k) = Placed(c, k) /\ Place(x, k) = Place(c, k)
         /\ x.frames[Len(c.frames) + 1].rep = far /\ x.frames[Len(c.frames) + 1].mapped = mapped
         /\ IsSequence(x.frames[Len(c.frames) + 1].items) /\ ToSet(x.frames[Len(c.frames) + 1].items) = ItemsAt(far)
         /\ IsSequence(x.frames[Len(c.frames) + 1].users) /\ ToSet(x.frames[Len(c.frames) + 1].users) = UsersAt(far)
<1> DEFINE f == Frame(far, mapped)
           n == Len(c.frames)
<1>1. /\ f.rep = far /\ f.mapped = mapped
      /\ IsSequence(f.items) /\ ToSet(f.items) = ItemsAt(far)
      /\ IsSequence(f.users) /\ ToSet(f.users) = UsersAt(far)
  BY FrameReads
<1>2. x.frames = Append(c.frames, f)
  BY DEF Enters
<1> HIDE DEF f
<1>3. /\ IsSequence(x.frames) /\ Len(x.frames) = n + 1
      /\ \A k \in 1..n : x.frames[k] = c.frames[k]
      /\ x.frames[n + 1] = f
  BY <1>2, AppendSequence
<1>4. n \in Nat /\ DOMAIN c.frames = 1..n /\ DOMAIN x.frames = 1..n + 1
  BY <1>3, SequenceOf
<1>5. x.frames # << >>
  BY <1>3, <1>4, ShortSequences
<1> HIDE DEF n
<1>6. ASSUME NEW k \in 1..n PROVE Placed(x, k) = Placed(c, k) /\ Place(x, k) = Place(c, k)
  <2>1. \A i \in 1..k : x.frames[i].mapped = c.frames[i].mapped
    BY <1>3, <1>4
  <2>2. Placed(x, k) = Placed(c, k)
    BY <2>1, PlacedSame
  <2> QED
    BY <1>3, <2>2 DEF Place
<1> QED
  BY <1>1, <1>3, <1>4, <1>5, <1>6 DEF n

(* Whatever is on the path of a walk is reached.                             *)
LEMMA TrailMet ==
  ASSUME NEW d, NEW w, Trail(d, w), w.frames[1].rep \in Starts(d), NEW k \in 1..Len(w.frames),
         Len(w.frames) \in Nat, DOMAIN w.frames = 1..Len(w.frames)
  PROVE  w.frames[k].rep \in Met(d)
<1> DEFINE N == MaxShapeDepth + 2
           root == w.frames[1].rep
<1>1. N \in Nat /\ k - 1 \in 0..N
  BY ShapeLimits DEF Trail
<1>2. Place(w, k) \in Within(d, root, N)[k - 1]
  BY DEF Trail
<1>3. Place(w, k) \in ReachedFrom(d, root, N)
  <2> DEFINE j == k - 1
  <2> HIDE DEF N, root, j
  <2> QED
    BY <1>1, <1>2, WithinGrows DEF j
<1>4. Place(w, k)[1] = w.frames[k].rep /\ root \in ToSet(Shapes(structure, d))
  BY DEF Place, Starts
<1> QED
  BY <1>3, <1>4 DEF Met, ReachedReps

LEMMA EnterKeeps ==
  ASSUME ReadsInv, phase # "graph", NEW d, NEW x, NEW c, NEW far, NEW mapped, NEW rest,
         IsSequence(c.frames), c.frames # << >>, IsSequence(mapped),
         Loops(c), Trail(d, c), Noted(d, c), Listings(d, c, rest), Len(c.frames) <= MaxShapeDepth,
         Enters(x, c, far, mapped),
         <<far, Placed(c, Len(c.frames)) \o mapped>> \in Onwards(d, Place(c, Len(c.frames)))
  PROVE  /\ Loops(x) /\ Trail(d, x) /\ Noted(d, x) /\ Listings(d, x, rest)
         /\ Place(x, Len(c.frames) + 1) = <<far, Placed(c, Len(c.frames)) \o mapped>>
<1> DEFINE n == Len(c.frames)
           N == MaxShapeDepth + 2
           key == <<far, Placed(c, n) \o mapped>>
<1>1. /\ IsSequence(x.frames) /\ Len(x.frames) = n + 1 /\ x.frames # << >> /\ n \in Nat
      /\ DOMAIN c.frames = 1..n /\ DOMAIN x.frames = 1..n + 1
      /\ \A k \in 1..n :
           x.frames[k] = c.frames[k] /\ Placed(x, k) = Placed(c, k) /\ Place(x, k) = Place(c, k)
      /\ x.frames[n + 1].rep = far /\ x.frames[n + 1].mapped = mapped
      /\ IsSequence(x.frames[n + 1].items) /\ ToSet(x.frames[n + 1].items) = ItemsAt(far)
      /\ IsSequence(x.frames[n + 1].users) /\ ToSet(x.frames[n + 1].users) = UsersAt(far)
  BY FramesOfEnter
<1>2. n # 0 /\ 1 \in 1..n /\ n \in 1..n
  <2>1. n # 0
    BY DEF IsSequence
  <2> QED
    BY <1>1, <2>1
<1>3. /\ Representation(far) # {} /\ x.listed = c.listed
      /\ x.seen = c.seen \cup {key}
  BY PlacingIsPlaced DEF Enters
<1>4. Placed(x, n + 1) = Placed(c, n) \o mapped
  <2>1. /\ \A i \in 1..n : x.frames[i].mapped = c.frames[i].mapped
        /\ n \in Nat /\ n # 0 /\ x.frames[n + 1].mapped = mapped
    BY <1>1, <1>2
  <2> HIDE DEF n
  <2>2. Placed(x, n + 1) = IF n = 0 THEN x.frames[1].mapped ELSE Placed(c, n) \o x.frames[n + 1].mapped
    BY ONLY <2>1, PlacedOneMore
  <2> QED
    BY <2>1, <2>2
<1>5. Place(x, n + 1) = key
  BY <1>1, <1>4 DEF Place
<1>6. IsSequence(Placed(c, n))
  BY <1>1, <1>2 DEF Trail
<1>7. IsSequence(Placed(x, n + 1)) /\ GoesOnFrom(Placed(c, n), Placed(x, n + 1))
  <2> DEFINE s == Placed(c, n)
  <2> HIDE DEF s
  <2>1. /\ IsSequence(s \o mapped) /\ Len(s \o mapped) = Len(s) + Len(mapped)
        /\ \A i \in 1..Len(s) : (s \o mapped)[i] = s[i]
    BY <1>6, ConcatSequence DEF s
  <2>2. Len(s) \in Nat /\ Len(mapped) \in Nat
    BY <1>6, SequenceOf DEF s
  <2>3. Len(s) <= Len(s \o mapped)
    BY <2>1, <2>2
  <2> QED
    BY <1>4, <2>1, <2>3 DEF s, GoesOnFrom
<1>8. key \in Within(d, c.frames[1].rep, N)[n]
  <2> DEFINE R == Within(d, c.frames[1].rep, N)
  <2>1. N \in Nat /\ n \in 1..N
    BY <1>1, <1>2, ShapeLimits
  <2>2. Reaches(R, d, c.frames[1].rep, N)
    BY <2>1, WithinByLinks DEF WithinReaches
  <2>3. Place(c, n) \in R[n - 1]
    BY <1>1, <1>2 DEF Trail
  <2> HIDE DEF R, N
  <2>4. R[n] = R[n - 1] \cup UNION {Onwards(d, at) : at \in R[n - 1]}
    BY <2>1, <2>2 DEF Reaches
  <2> QED
    BY <2>3, <2>4 DEF R
<1>9. Loops(x)
  <2> SUFFICES ASSUME NEW k \in 1..n + 1
               PROVE  /\ IsSequence(x.frames[k].items) /\ ToSet(x.frames[k].items) \subseteq ItemsAt(x.frames[k].rep)
                      /\ IsSequence(x.frames[k].users) /\ ToSet(x.frames[k].users) \subseteq UsersAt(x.frames[k].rep)
    BY <1>1 DEF Loops
  <2>1. CASE k = n + 1
    BY <1>1, <2>1
  <2>2. CASE k \in 1..n
    BY <1>1, <2>2 DEF Loops
  <2> QED
    BY <1>1, <2>1, <2>2
<1>10. Trail(d, x)
  <2>1. Len(x.frames) <= MaxShapeDepth + 1
    BY <1>1, ShapeLimits
  <2>2. x.frames[1].rep = c.frames[1].rep
    BY <1>1, <1>2
  <2>3. ASSUME NEW k \in 1..n + 1
        PROVE  /\ IsSequence(Placed(x, k)) /\ Place(x, k) \in x.seen
               /\ Place(x, k) \in Within(d, x.frames[1].rep, N)[k - 1]
    <3>1. CASE k = n + 1
      <4>1. k - 1 = n
        BY <1>1, <3>1
      <4> QED
        BY <1>3, <1>5, <1>7, <1>8, <2>2, <3>1, <4>1
    <3>2. CASE k \in 1..n
      BY <1>1, <1>3, <2>2, <3>2 DEF Trail
    <3> QED
      BY <1>1, <3>1, <3>2
  <2>4. ASSUME NEW j \in 1..n + 1, NEW k \in 1..n + 1, j <= k
        PROVE  GoesOnFrom(Placed(x, j), Placed(x, k))
    <3>1. CASE k \in 1..n
      <4>1. j \in 1..n
        BY <1>1, <2>4, <3>1
      <4> QED
        BY <1>1, <2>4, <3>1, <4>1 DEF Trail
    <3>2. CASE k = n + 1 /\ j \in 1..n
      <4>1. GoesOnFrom(Placed(c, j), Placed(c, n))
        <5>1. j <= n
          BY <1>1, <3>2
        <5> QED
          BY <1>1, <1>2, <3>2, <5>1 DEF Trail
      <4>2. IsSequence(Placed(c, j)) /\ Placed(x, j) = Placed(c, j)
        BY <1>1, <3>2 DEF Trail
      <4> DEFINE a == Placed(c, j)
                 b == Placed(c, n)
                 e == Placed(x, n + 1)
      <4>3. GoesOnFrom(a, b) /\ GoesOnFrom(b, e) /\ IsSequence(a) /\ IsSequence(b) /\ IsSequence(e)
        BY <1>6, <1>7, <4>1, <4>2
      <4> HIDE DEF a, b, e
      <4>4. Len(a) \in Nat /\ Len(b) \in Nat /\ Len(e) \in Nat
        BY <4>3, SequenceOf
      <4>5. GoesOnFrom(a, e)
        BY <4>3, <4>4 DEF GoesOnFrom
      <4> QED
        BY <3>2, <4>2, <4>5 DEF a, e
    <3>3. CASE k = n + 1 /\ j = n + 1
      <4> DEFINE e == Placed(x, n + 1)
      <4> HIDE DEF e
      <4>1. Len(e) \in Nat
        BY <1>7, SequenceOf DEF e
      <4>2. GoesOnFrom(e, e)
        BY <4>1 DEF GoesOnFrom
      <4> QED
        BY <3>3, <4>2 DEF e
    <3> QED
      BY <1>1, <3>1, <3>2, <3>3
  <2> QED
    BY <1>1, <2>1, <2>3, <2>4 DEF Trail
<1>11. x.frames[1].rep = c.frames[1].rep
  BY <1>1, <1>2
<1>12. Noted(d, x)
  <2>1. far \in Met(d)
    <3>1. x.frames[1].rep \in Starts(d)
      BY <1>11 DEF Listings
    <3>2. n + 1 \in 1..Len(x.frames) /\ Len(x.frames) \in Nat /\ DOMAIN x.frames = 1..Len(x.frames)
      BY <1>1, <1>2
    <3>3. x.frames[n + 1].rep \in Met(d)
      <4> DEFINE k == n + 1
      <4> HIDE DEF n, k
      <4> QED
        BY <1>10, <3>1, <3>2, TrailMet DEF k
    <3> QED
      BY <1>1, <3>3
  <2>2. \A i, m : <<i, m>> \in x.seen /\ i \notin Met(d) => <<i, m>> \in c.seen
    BY <1>3, <2>1
  <2> HIDE DEF key
  <2> QED
    BY <1>1, <1>3, <1>11, <2>2 DEF Noted
<1>13. Listings(d, x, rest)
  <2>1. \A t : IsListed(c, t) <=> IsListed(x, t)
    BY <1>3 DEF IsListed
  <2> HIDE DEF key
  <2> QED
    BY <1>1, <1>3, <1>11, <2>1 DEF Listings
<1> QED
  BY <1>5, <1>9, <1>10, <1>12, <1>13

(* A walk that lists an item.                                               *)
LEMMA ListKeeps ==
  ASSUME NEW d, NEW x, NEW c, NEW item, NEW rest,
         IsSequence(c.frames), c.frames # << >>,
         Loops(c), Trail(d, c), Noted(d, c), Listings(d, c, rest),
         Lists(x, c, item), item \in OwnItems(d, c.frames[Len(c.frames)].rep)
  PROVE  /\ Loops(x) /\ Trail(d, x) /\ Noted(d, x) /\ Listings(d, x, rest)
         /\ \A k : Placed(x, k) = Placed(c, k) /\ Place(x, k) = Place(c, k)
<1> DEFINE n == Len(c.frames)
           N == MaxShapeDepth + 2
           root == c.frames[1].rep
           e == Entry(c, item)
           count == Len(c.listed)
           key == <<item, Placed(c, n)>>
<1>1. n \in Nat /\ n # 0 /\ DOMAIN c.frames = 1..n /\ n \in DOMAIN c.frames
  <2>1. n # 0
    BY DEF IsSequence
  <2>2. n \in Nat /\ DOMAIN c.frames = 1..n
    BY SequenceOf
  <2>3. n \in 1..n
    BY <2>1, <2>2
  <2> QED
    BY <2>1, <2>2, <2>3
<1>2. Placing(c) = Placed(c, n)
  BY PlacingIsPlaced
<1>3. /\ e.item = item /\ e.mapped = Placed(c, n) /\ e.root = root
      /\ Triple(e) = <<item, Placed(c, n), root>>
  BY <1>2 DEF Entry, Triple
<1>4. /\ x.frames = c.frames /\ x.seen = c.seen \cup {key} /\ key \notin c.seen
      /\ x.listed = Append(c.listed, e)
  BY <1>2 DEF Lists
<1> HIDE DEF e
<1>5. /\ IsSequence(c.listed) /\ IsSequence(x.listed)
      /\ \A k \in 1..count : x.listed[k] = c.listed[k]
      /\ x.listed[count + 1] = e
      /\ DOMAIN c.listed = 1..count /\ DOMAIN x.listed = 1..count + 1 /\ count \in Nat
  <2>1. IsSequence(c.listed)
    BY DEF Listings
  <2>2. /\ IsSequence(x.listed) /\ Len(x.listed) = count + 1
        /\ \A k \in 1..count : x.listed[k] = c.listed[k]
        /\ x.listed[count + 1] = e
    BY <1>4, <2>1, AppendSequence
  <2>3. DOMAIN c.listed = 1..count /\ DOMAIN x.listed = 1..count + 1 /\ count \in Nat
    BY <2>1, <2>2, SequenceOf
  <2> QED
    BY <2>1, <2>2, <2>3
<1> HIDE DEF count
<1>6. \A k : Placed(x, k) = Placed(c, k) /\ Place(x, k) = Place(c, k)
  BY <1>4 DEF Place, Placed
<1>7. Loops(x)
  BY <1>4 DEF Loops
<1>8. Trail(d, x)
  BY <1>4, <1>6 DEF Trail
<1>9. Triple(e) \in WholeOf(d, root)
  <2>1. N \in Nat /\ n - 1 \in 0..N
    BY <1>1, ShapeLimits DEF Trail
  <2>2. Place(c, n) \in Within(d, root, N)[n - 1]
    BY <1>1 DEF Trail
  <2>3. Place(c, n) \in ReachedFrom(d, root, N)
    <3> HIDE DEF N, n, root
    <3> QED
      BY <2>1, <2>2, WithinGrows
  <2>4. Place(c, n)[1] = c.frames[n].rep /\ Place(c, n)[2] = Placed(c, n)
    BY DEF Place
  <2>5. PICK at \in ReachedFrom(d, root, N) : at[1] = c.frames[n].rep /\ at[2] = Placed(c, n)
    BY <2>3, <2>4
  <2> HIDE DEF root, n
  <2> QED
    BY <1>3, <2>5 DEF WholeOf, n
<1>10. root \in Starts(d) \ ToSet(rest)
  BY DEF Listings
<1> HIDE DEF root, key
<1>11. ASSUME NEW k \in 1..count PROVE Triple(c.listed[k]) # Triple(e)
  <2> SUFFICES ASSUME Triple(c.listed[k]) = Triple(e) PROVE FALSE
    OBVIOUS
  <2>1. c.listed[k].item = item /\ c.listed[k].mapped = Placed(c, n) /\ c.listed[k].root = root
    BY <1>3 DEF Triple
  <2>2. <<c.listed[k].item, c.listed[k].mapped>> \in c.seen
    BY <1>5, <2>1 DEF Noted, root
  <2> QED
    BY <1>4, <2>1, <2>2 DEF key
<1>12. \A t : IsListed(c, t) => IsListed(x, t)
  <2> SUFFICES ASSUME NEW k \in 1..count PROVE k \in DOMAIN x.listed /\ x.listed[k] = c.listed[k]
    BY <1>5 DEF IsListed
  <2> QED
    BY <1>5
<1>13. Noted(d, x)
  <2>1. x.frames[1].rep = root
    BY <1>4 DEF root
  <2>2. ASSUME NEW i, NEW m, <<i, m>> \in x.seen, i \notin Met(d)
        PROVE  \E k \in DOMAIN x.listed : Triple(x.listed[k]) = <<i, m, root>>
    <3>1. CASE <<i, m>> = key
      <4>1. Triple(x.listed[count + 1]) = <<i, m, root>>
        BY <1>3, <1>5, <3>1 DEF key
      <4> QED
        BY <1>5, <4>1
    <3>2. CASE <<i, m>> # key
      <4>1. <<i, m>> \in c.seen
        BY <1>4, <2>2, <3>2
      <4>2. IsListed(c, <<i, m, root>>)
        BY <2>2, <4>1 DEF Noted, IsListed, root
      <4> QED
        BY <1>12, <4>2 DEF IsListed
    <3> QED
      BY <3>1, <3>2
  <2>3. ASSUME NEW k \in 1..count + 1, x.listed[k].root = root
        PROVE  <<x.listed[k].item, x.listed[k].mapped>> \in x.seen
    <3>1. CASE k = count + 1
      BY <1>3, <1>4, <1>5, <3>1 DEF key
    <3>2. CASE k \in 1..count
      <4>1. x.listed[k] = c.listed[k] /\ k \in DOMAIN c.listed
        BY <1>5, <3>2
      <4>2. <<c.listed[k].item, c.listed[k].mapped>> \in c.seen
        BY <2>3, <4>1 DEF Noted, root
      <4> QED
        BY <1>4, <4>1, <4>2
    <3> QED
      BY <1>5, <3>1, <3>2
  <2> QED
    BY <1>5, <2>1, <2>2, <2>3 DEF Noted
<1>14. Listings(d, x, rest)
  <2>1. ASSUME NEW k \in 1..count + 1
        PROVE  /\ x.listed[k].root \in Starts(d) \ ToSet(rest)
               /\ Triple(x.listed[k]) \in WholeOf(d, x.listed[k].root)
    <3>1. CASE k = count + 1
      BY <1>3, <1>5, <1>9, <1>10, <3>1 DEF root
    <3>2. CASE k \in 1..count
      BY <1>5, <3>2 DEF Listings
    <3> QED
      BY <1>5, <3>1, <3>2
  <2>2. ASSUME NEW j \in 1..count + 1, NEW k \in 1..count + 1, j # k
        PROVE  Triple(x.listed[j]) # Triple(x.listed[k])
    <3>1. CASE j \in 1..count /\ k \in 1..count
      BY <1>5, <2>2, <3>1 DEF Listings
    <3>2. CASE j = count + 1 /\ k \in 1..count
      BY <1>5, <1>11, <3>2
    <3>3. CASE k = count + 1 /\ j \in 1..count
      BY <1>5, <1>11, <3>3
    <3> QED
      BY <1>5, <2>2, <3>1, <3>2, <3>3
  <2>3. x.frames[1].rep = root /\ c.frames[1].rep = root
    BY <1>4 DEF root
  <2>4. \A r \in Starts(d) :
          \/ r \in ToSet(rest)
          \/ x.frames # << >> /\ r = x.frames[1].rep
          \/ \A t \in WholeOf(d, r) : IsListed(x, t)
    BY <1>4, <1>12 DEF Listings
  <2> QED
    BY <1>5, <1>10, <2>1, <2>2, <2>3, <2>4 DEF Listings
<1> QED
  BY <1>6, <1>7, <1>8, <1>13, <1>14

-----------------------------------------------------------------------------
(* What a place that a step has come to leaves to do.                       *)
AtHand(d, w, rep, m) ==
  /\ \A i \in ItemsAt(rep) :
       \/ ItemDone(d, w, rep, m, i)
       \/ \E k \in DOMAIN w.frames : Place(w, k) = <<rep, m>> /\ i \in ToSet(w.frames[k].items)
  /\ \A u \in UsersAt(rep) :
       \/ UserDone(w, rep, m, u)
       \/ \E k \in DOMAIN w.frames : Place(w, k) = <<rep, m>> /\ u \in ToSet(w.frames[k].users)

Walked(d, w, rest) == Loops(w) /\ Trail(d, w) /\ Done(d, w) /\ Noted(d, w) /\ Listings(d, w, rest)

(* A frame that is entered has all of its loops before it.                  *)
LEMMA EnteredAtHand ==
  ASSUME ReadsInv, phase # "graph", NEW d, NEW x, NEW c, NEW far, NEW mapped, NEW m,
         IsSequence(c.frames), Enters(x, c, far, mapped),
         Place(x, Len(c.frames) + 1) = <<far, m>>
  PROVE  AtHand(d, x, far, m)
<1> DEFINE n == Len(c.frames) + 1
<1>1. /\ n \in DOMAIN x.frames
      /\ ToSet(x.frames[n].items) = ItemsAt(far) /\ ToSet(x.frames[n].users) = UsersAt(far)
  BY FramesOfEnter
<1> QED
  BY <1>1 DEF AtHand

(* Done again, once what was taken from the frame on top is dealt with.      *)
LEMMA PopDone ==
  ASSUME NEW d, NEW x, NEW c, NEW w, NEW items, NEW named,
         IsSequence(w.frames), w.frames # << >>, Pops(c, w, items, named), Done(d, w),
         w.seen \subseteq x.seen,
         \A k \in DOMAIN c.frames :
           k \in DOMAIN x.frames /\ x.frames[k] = c.frames[k] /\ Place(x, k) = Place(c, k),
         \A i \in items : ItemDone(d, x, w.frames[Len(w.frames)].rep, Placed(w, Len(w.frames)), i),
         \A u \in named : UserDone(x, w.frames[Len(w.frames)].rep, Placed(w, Len(w.frames)), u),
         \A rep, m : <<rep, m>> \in x.seen /\ <<rep, m>> \notin w.seen /\ rep \in Met(d) => AtHand(d, x, rep, m)
  PROVE  Done(d, x)
<1>1. /\ DOMAIN c.frames = DOMAIN w.frames
      /\ \A k \in DOMAIN w.frames : Place(c, k) = Place(w, k)
  BY FramesOfPops
<1>2. ASSUME NEW k \in DOMAIN w.frames
      PROVE  /\ \A i \in ToSet(w.frames[k].items) :
                  \/ ItemDone(d, x, w.frames[k].rep, Placed(w, k), i)
                  \/ k \in DOMAIN x.frames /\ Place(x, k) = Place(w, k) /\ i \in ToSet(x.frames[k].items)
             /\ \A u \in ToSet(w.frames[k].users) :
                  \/ UserDone(x, w.frames[k].rep, Placed(w, k), u)
                  \/ k \in DOMAIN x.frames /\ Place(x, k) = Place(w, k) /\ u \in ToSet(x.frames[k].users)
  <2>1. k \in DOMAIN x.frames /\ x.frames[k] = c.frames[k] /\ Place(x, k) = Place(w, k)
    BY <1>1
  <2>2. /\ \A i \in ToSet(w.frames[k].items) :
             i \in ToSet(c.frames[k].items) \/ (k = Len(w.frames) /\ i \in items)
        /\ \A u \in ToSet(w.frames[k].users) :
             u \in ToSet(c.frames[k].users) \/ (k = Len(w.frames) /\ u \in named)
    BY DEF Pops
  <2> QED
    BY <2>1, <2>2
<1>3. ASSUME NEW rep \in Met(d), NEW m, <<rep, m>> \in x.seen, <<rep, m>> \notin w.seen
      PROVE  AtHand(d, x, rep, m)
  BY <1>3
<1> QED
  BY <1>2, <1>3, DoneStep DEF AtHand

LEMMA StayWalks ==
  ASSUME NEW d, NEW x, NEW c, NEW w, NEW items, NEW named, NEW rest,
         IsSequence(w.frames), w.frames # << >>, Pops(c, w, items, named),
         Walked(d, w, rest), Stays(x, c),
         \A i \in items : ItemDone(d, w, w.frames[Len(w.frames)].rep, Placed(w, Len(w.frames)), i),
         \A u \in named : UserDone(w, w.frames[Len(w.frames)].rep, Placed(w, Len(w.frames)), u)
  PROVE  Walked(d, x, rest)
<1>1. Loops(c) /\ Trail(d, c) /\ Noted(d, c) /\ Listings(d, c, rest)
  BY PopsKeep DEF Walked
<1>2. /\ Loops(x) /\ Trail(d, x) /\ Noted(d, x) /\ Listings(d, x, rest)
      /\ \A k : Place(x, k) = Place(c, k)
  BY <1>1, StaysKeeps
<1>3. x.frames = c.frames /\ x.seen = w.seen
  BY DEF Stays, Pops
<1>4. Done(d, x)
  <2>1. /\ \A i \in items : ItemDone(d, x, w.frames[Len(w.frames)].rep, Placed(w, Len(w.frames)), i)
        /\ \A u \in named : UserDone(x, w.frames[Len(w.frames)].rep, Placed(w, Len(w.frames)), u)
    BY <1>3 DEF ItemDone, UserDone
  <2>2. \A k \in DOMAIN c.frames :
          k \in DOMAIN x.frames /\ x.frames[k] = c.frames[k] /\ Place(x, k) = Place(c, k)
    BY <1>2, <1>3
  <2>3. Done(d, w)
    BY DEF Walked
  <2> QED
    BY <1>3, <2>1, <2>2, <2>3, PopDone
<1> QED
  BY <1>2, <1>4 DEF Walked

LEMMA EnterWalks ==
  ASSUME ReadsInv, phase # "graph",
         NEW d, NEW x, NEW c, NEW w, NEW items, NEW named, NEW rest, NEW far, NEW mapped,
         IsSequence(w.frames), w.frames # << >>, Pops(c, w, items, named),
         Walked(d, w, rest), Len(w.frames) <= MaxShapeDepth, IsSequence(mapped),
         Enters(x, c, far, mapped),
         <<far, Placed(w, Len(w.frames)) \o mapped>> \in Onwards(d, Place(w, Len(w.frames))),
         \A i \in items : ItemDone(d, x, w.frames[Len(w.frames)].rep, Placed(w, Len(w.frames)), i),
         \A u \in named : UserDone(x, w.frames[Len(w.frames)].rep, Placed(w, Len(w.frames)), u)
  PROVE  Walked(d, x, rest)
<1> DEFINE n == Len(w.frames)
           key == <<far, Placed(w, n) \o mapped>>
<1>1. Loops(c) /\ Trail(d, c) /\ Noted(d, c) /\ Listings(d, c, rest)
  BY PopsKeep DEF Walked
<1>2. /\ IsSequence(c.frames) /\ c.frames # << >> /\ Len(c.frames) = n
      /\ Placed(c, n) = Placed(w, n) /\ Place(c, n) = Place(w, n)
  BY FramesOfPops
<1>3. /\ Loops(x) /\ Trail(d, x) /\ Noted(d, x) /\ Listings(d, x, rest)
      /\ Place(x, n + 1) = key
  <2>1. /\ <<far, Placed(c, Len(c.frames)) \o mapped>> \in Onwards(d, Place(c, Len(c.frames)))
        /\ Len(c.frames) <= MaxShapeDepth
    BY <1>2
  <2>2. /\ Loops(x) /\ Trail(d, x) /\ Noted(d, x) /\ Listings(d, x, rest)
        /\ Place(x, Len(c.frames) + 1) = <<far, Placed(c, Len(c.frames)) \o mapped>>
    <3>1. /\ ReadsInv /\ phase # "graph" /\ Enters(x, c, far, mapped) /\ IsSequence(mapped)
          /\ IsSequence(c.frames) /\ c.frames # << >>
      BY <1>2
    <3> QED
      BY ONLY <1>1, <2>1, <3>1, EnterKeeps
  <2> QED
    BY <1>2, <2>2
<1>4. \A k \in DOMAIN c.frames :
        k \in DOMAIN x.frames /\ x.frames[k] = c.frames[k] /\ Place(x, k) = Place(c, k)
  <2>1. /\ Len(c.frames) \in Nat /\ DOMAIN c.frames = 1..Len(c.frames) /\ DOMAIN x.frames = 1..Len(c.frames) + 1
        /\ \A k \in 1..Len(c.frames) : x.frames[k] = c.frames[k] /\ Place(x, k) = Place(c, k)
    BY <1>2, FramesOfEnter
  <2> QED
    BY <2>1
<1>5. x.seen = w.seen \cup {key}
  <2>1. Placing(c) = Placed(c, n)
    BY <1>2, PlacingIsPlaced
  <2> QED
    BY <1>2, <2>1 DEF Enters, Pops
<1>6. ASSUME NEW rep, NEW m, <<rep, m>> \in x.seen, <<rep, m>> \notin w.seen
      PROVE  AtHand(d, x, rep, m)
  <2>1. rep = far /\ Place(x, Len(c.frames) + 1) = <<far, m>>
    BY <1>2, <1>3, <1>5, <1>6
  <2> QED
    BY <1>2, <2>1, EnteredAtHand
<1>7. Done(d, x)
  <2>1. Done(d, w) /\ w.seen \subseteq x.seen
    BY <1>5 DEF Walked
  <2> HIDE DEF key
  <2> QED
    BY <1>4, <1>6, <2>1, PopDone
<1> QED
  BY <1>3, <1>7 DEF Walked

LEMMA ListWalks ==
  ASSUME NEW d, NEW x, NEW c, NEW w, NEW item, NEW rest,
         IsSequence(w.frames), w.frames # << >>, Pops(c, w, {item}, {}), Walked(d, w, rest),
         ItemsAreNoShapes(d, MaxShapeDepth + 2), Lists(x, c, item),
         item \in OwnItems(d, w.frames[Len(w.frames)].rep), item \notin MappedOf(d, w.frames[Len(w.frames)].rep)
  PROVE  Walked(d, x, rest)
<1> DEFINE n == Len(w.frames)
           rep == w.frames[n].rep
<1>1. Loops(c) /\ Trail(d, c) /\ Noted(d, c) /\ Listings(d, c, rest)
  BY PopsKeep DEF Walked
<1>2. /\ IsSequence(c.frames) /\ c.frames # << >> /\ Len(c.frames) = n /\ n \in DOMAIN w.frames
      /\ Placed(c, n) = Placed(w, n)
  BY FramesOfPops
<1>3. c.frames[n].rep = rep /\ c.seen = w.seen
  BY <1>2 DEF Pops
<1>4. /\ Loops(x) /\ Trail(d, x) /\ Noted(d, x) /\ Listings(d, x, rest)
      /\ \A k : Place(x, k) = Place(c, k)
  BY <1>1, <1>2, <1>3, ListKeeps
<1>5. x.frames = c.frames /\ x.seen = w.seen \cup {<<item, Placed(w, n)>>}
  <2>1. Placing(c) = Placed(w, n)
    BY <1>2, PlacingIsPlaced
  <2> QED
    BY <1>3, <2>1 DEF Lists
<1>6. item \notin Met(d)
  <2>1. w.frames[1].rep \in Starts(d) /\ Trail(d, w)
    BY DEF Walked, Listings
  <2>2. n \in 1..Len(w.frames) /\ Len(w.frames) \in Nat /\ DOMAIN w.frames = 1..Len(w.frames)
    BY FramesOfPops
  <2>3. rep \in Met(d)
    <3> DEFINE k == n
    <3> HIDE DEF k
    <3>1. k \in 1..Len(w.frames)
      BY <2>2 DEF k
    <3>2. w.frames[k].rep \in Met(d)
      BY <2>1, <2>2, <3>1, TrailMet
    <3> QED
      BY <3>2 DEF k
  <2> QED
    BY <2>3 DEF ItemsAreNoShapes, Met
<1>7. ASSUME NEW r \in Met(d), NEW m, <<r, m>> \in x.seen, <<r, m>> \notin w.seen
      PROVE  AtHand(d, x, r, m)
  BY <1>5, <1>6, <1>7
<1>8. ItemDone(d, x, rep, Placed(w, n), item)
  BY <1>5 DEF ItemDone
<1>9. Done(d, x)
  <2>1. Done(d, w) /\ w.seen \subseteq x.seen
    BY <1>5 DEF Walked
  <2>2. \A k \in DOMAIN c.frames :
          k \in DOMAIN x.frames /\ x.frames[k] = c.frames[k] /\ Place(x, k) = Place(c, k)
    BY <1>4, <1>5
  <2>3. /\ \A i \in {item} : ItemDone(d, x, w.frames[Len(w.frames)].rep, Placed(w, Len(w.frames)), i)
        /\ \A u \in {} : UserDone(x, w.frames[Len(w.frames)].rep, Placed(w, Len(w.frames)), u)
    BY <1>8
  <2> QED
    BY <1>7, <2>1, <2>2, <2>3, PopDone
<1> QED
  BY <1>4, <1>9 DEF Walked

-----------------------------------------------------------------------------
(* What Without and Counted leave of a walk that is not exhausted.           *)
LEMMA TakenTells ==
  ASSUME NEW w, Own(w), Told(w), NEW loop, NEW id
  PROVE  LET c == Counted(Without(w, loop), id)
         IN  /\ IsWalk(c) /\ Told(c) /\ Silent(c, w) /\ Stays(c, Without(w, loop))
             /\ c.notFollowed = {} => ~c.exhausted
<1> DEFINE v == Without(w, loop)
<1>1. IsWalk(w)
  BY DEF Own
<1>2. IsWalk(v) /\ v.notFollowed = w.notFollowed /\ v.exhausted = w.exhausted
  <2>1. /\ v = [field \in {"frames", "seen", "visits", "exhausted", "listed", "notFollowed"} |-> v[field]]
        /\ v.listed = w.listed /\ v.notFollowed = w.notFollowed /\ v.exhausted = w.exhausted
        /\ v.frames = [k \in DOMAIN w.frames |-> v.frames[k]]
    BY <1>1 DEF IsWalk, Without
  <2>2. IsSequence(v.frames)
    <3> HIDE DEF v
    <3> QED
      BY <1>1, <2>1, SameDomainSequence DEF IsWalk
  <2> QED
    BY <1>1, <2>1, <2>2 DEF IsWalk
<1> HIDE DEF v
<1>3. Told(v)
  BY <1>2 DEF Told
<1> QED
  BY <1>2, <1>3, CountedTells DEF Silent, v

(* Where a walk takes something from a loop.                                *)
LEMMA TakenFrom ==
  ASSUME NEW d, NEW w, NEW c, NEW rest, IsWalk(c), Own(w), w.frames # << >>, Walked(d, w, rest),
         NEW loop \in {"items", "users"}, Last(w.frames)[loop] # << >>,
         Stays(c, Without(w, loop))
  PROVE  LET x == Head(Last(w.frames)[loop])
             n == Len(w.frames)
         IN  /\ Pops(c, w, IF loop = "items" THEN {x} ELSE {}, IF loop = "items" THEN {} ELSE {x})
             /\ IsSequence(w.frames) /\ IsSequence(Placed(w, n))
             /\ n \in Nat \ {0} /\ DOMAIN w.frames = 1..n
             /\ Placing(c) = Placed(w, n) /\ Depth(c) = n - 1 /\ OnPath(c) = OnPath(w)
             /\ Last(w.frames) = w.frames[n] /\ Last(c.frames).rep = w.frames[n].rep
             /\ loop = "items" => x \in ItemsAt(w.frames[n].rep)
             /\ loop = "users" => x \in UsersAt(w.frames[n].rep)
<1> DEFINE n == Len(w.frames)
           x == Head(Last(w.frames)[loop])
           items == IF loop = "items" THEN {x} ELSE {}
           named == IF loop = "items" THEN {} ELSE {x}
           v == Without(w, loop)
<1>1. IsSequence(w.frames) /\ Loops(w)
  BY DEF Own, IsWalk, Walked
<1>2. Pops(v, w, items, named)
  BY <1>1, WithoutPops
<1> HIDE DEF items, named, v
<1>3. Pops(c, w, items, named)
  BY <1>2 DEF Stays, Pops, v
<1>4. /\ IsSequence(c.frames) /\ DOMAIN c.frames = DOMAIN w.frames /\ Len(c.frames) = n
      /\ DOMAIN w.frames = 1..n /\ n \in Nat \ {0} /\ n \in DOMAIN w.frames
      /\ Placed(c, n) = Placed(w, n)
  BY <1>1, <1>3, FramesOfPops
<1>5. Placing(c) = Placed(w, n)
  BY <1>4, PlacingIsPlaced
<1>6. \A k \in DOMAIN w.frames : c.frames[k].rep = w.frames[k].rep
  BY <1>3 DEF Pops
<1>7. OnPath(c) = OnPath(w) /\ Depth(c) = n - 1 /\ Last(c.frames).rep = w.frames[n].rep
  BY <1>4, <1>6 DEF OnPath, Depth, Last
<1>8. IsSequence(Placed(w, n))
  BY <1>4 DEF Walked, Trail
<1>9. Last(w.frames) = w.frames[n]
  BY DEF Last
<1>10. x \in ToSet(w.frames[n][loop]) 
  <2>1. IsSequence(w.frames[n][loop])
    BY <1>1, <1>4 DEF Loops
  <2> QED
    BY <1>9, <2>1, TailSet
<1>11. /\ loop = "items" => x \in ItemsAt(w.frames[n].rep)
       /\ loop = "users" => x \in UsersAt(w.frames[n].rep)
  BY <1>1, <1>4, <1>10 DEF Loops
<1> QED
  BY <1>1, <1>3, <1>4, <1>5, <1>7, <1>8, <1>9, <1>11 DEF items, named

LEMMA VisitItemWhole ==
  ASSUME ReadsInv, phase # "graph", NEW rest, NEW w, Own(w), Whole(definition, w, rest),
         w.frames # << >>, Last(w.frames).items # << >>
  PROVE  LET item == Head(Last(w.frames).items)
             c == Counted(Without(w, "items"), item)
         IN  Whole(definition, IF c.exhausted THEN c ELSE Item(c, item), rest)
<1> DEFINE d == definition
           item == Head(Last(w.frames).items)
           v == Without(w, "items")
           c == Counted(v, item)
           x == IF c.exhausted THEN c ELSE Item(c, item)
           n == Len(w.frames)
           rep == w.frames[n].rep
           far == MappedItem(item).representation
<1>1. /\ IsWalk(c) /\ Told(c) /\ Silent(c, w) /\ Stays(c, v)
      /\ c.notFollowed = {} => ~c.exhausted
  <2>1. Told(w)
    BY DEF Whole
  <2> HIDE DEF item
  <2> QED
    BY <2>1, TakenTells
<1> HIDE DEF c, item
<1>2. /\ Told(x) /\ Silent(x, c)
      /\ ~c.exhausted /\ x.notFollowed = {} =>
           \/ Stays(x, c) /\ OfNoAccount(d, item)
           \/ /\ MappedItem(item).kind = "plain" /\ ~PlacesComponent(structure, item, d)
              /\ \/ Stays(x, c) /\ <<far, Placing(c) \o <<item>>>> \in c.seen
                 \/ Enters(x, c, far, <<item>>) /\ ~(Depth(c) >= MaxShapeDepth)
           \/ /\ MappedItem(item).kind = "no" /\ Defined(item) /\ ~PlacesComponent(structure, item, d)
              /\ Entity(item) # <<"AXIS2_PLACEMENT_3D">>
              /\ \/ Stays(x, c) /\ <<item, Placing(c)>> \in c.seen
                 \/ Lists(x, c, item)
  <2>1. CASE c.exhausted
    BY <1>1, <2>1 DEF Silent
  <2>2. CASE ~c.exhausted
    <3>1. x = Item(c, item)
      BY <2>2
    <3> HIDE DEF x
    <3> QED
      BY <1>1, <3>1, ItemTells
  <2> QED
    BY <2>1, <2>2
<1> HIDE DEF x
<1>3. Rest(d, rest)
  BY DEF Whole
<1>4. ASSUME Clean(d, x) PROVE Walked(d, x, rest)
  <2>1. c.notFollowed = {} /\ ~c.exhausted /\ Clean(d, w)
    BY <1>1, <1>2, <1>4 DEF Clean, Silent
  <2>2. Walked(d, w, rest)
    BY <2>1 DEF Whole, Walked
  <2>3. /\ Pops(c, w, {item}, {})
        /\ IsSequence(w.frames) /\ IsSequence(Placed(w, n))
        /\ n \in Nat \ {0} /\ DOMAIN w.frames = 1..n
        /\ Placing(c) = Placed(w, n) /\ Depth(c) = n - 1
        /\ item \in ItemsAt(rep)
    BY <1>1, <2>2, TakenFrom DEF item
  <2>4. Place(w, n)[1] = rep /\ Place(w, n)[2] = Placed(w, n) /\ c.seen = w.seen
    BY <2>3 DEF Place, Pops
  <2>5. \A u \in {} : UserDone(x, rep, Placed(w, n), u) /\ UserDone(w, rep, Placed(w, n), u)
    OBVIOUS
  <2>6. \/ Stays(x, c) /\ OfNoAccount(d, item)
        \/ /\ MappedItem(item).kind = "plain" /\ ~PlacesComponent(structure, item, d)
           /\ \/ Stays(x, c) /\ <<far, Placing(c) \o <<item>>>> \in c.seen
              \/ Enters(x, c, far, <<item>>) /\ ~(Depth(c) >= MaxShapeDepth)
        \/ /\ MappedItem(item).kind = "no" /\ Defined(item) /\ ~PlacesComponent(structure, item, d)
           /\ Entity(item) # <<"AXIS2_PLACEMENT_3D">>
           /\ \/ Stays(x, c) /\ <<item, Placing(c)>> \in c.seen
              \/ Lists(x, c, item)
    BY <1>2, <1>4, <2>1 DEF Clean
  <2>7. CASE Stays(x, c) /\ OfNoAccount(d, item)
    <3>1. \A i \in {item} : ItemDone(d, w, rep, Placed(w, n), i)
      BY <2>7 DEF ItemDone, OfNoAccount
    <3> QED
      BY <2>2, <2>3, <2>5, <2>7, <3>1, StayWalks
  <2>8. CASE /\ MappedItem(item).kind = "plain" /\ ~PlacesComponent(structure, item, d)
             /\ \/ Stays(x, c) /\ <<far, Placing(c) \o <<item>>>> \in c.seen
                \/ Enters(x, c, far, <<item>>) /\ ~(Depth(c) >= MaxShapeDepth)
    <3>1. item \in MappedOf(d, rep) /\ \A r : item \notin OwnItems(d, r)
      BY <2>3, <2>8 DEF MappedOf, OwnItems, ItemsAt
    <3>2. Placed(w, n) \o <<item>> = Append(Placed(w, n), item)
      BY <2>3, AppendIsConcatenation
    <3>3. CASE Stays(x, c) /\ <<far, Placing(c) \o <<item>>>> \in c.seen
      <4>1. \A i \in {item} : ItemDone(d, w, rep, Placed(w, n), i)
        BY <2>3, <2>4, <3>1, <3>2, <3>3 DEF ItemDone
      <4> QED
        BY <2>2, <2>3, <2>5, <3>3, <4>1, StayWalks
    <3>4. CASE Enters(x, c, far, <<item>>) /\ ~(Depth(c) >= MaxShapeDepth)
      <4>1. <<far, Placed(w, n) \o <<item>>>> \in Onwards(d, Place(w, n))
        <5>1. <<far, Append(Place(w, n)[2], item)>> \in Onwards(d, Place(w, n))
          BY <2>4, <3>1 DEF Onwards
        <5> QED
          BY <2>4, <3>2, <5>1
      <4>2. \A i \in {item} : ItemDone(d, x, rep, Placed(w, n), i)
        <5>1. <<far, Placed(w, n) \o <<item>>>> \in x.seen
          BY <2>3, <3>4 DEF Enters
        <5> QED
          BY <3>1, <3>2, <5>1 DEF ItemDone
      <4>3. n <= MaxShapeDepth /\ IsSequence(<<item>>)
        BY <2>3, <3>4, ShapeLimits, ShortSequences
      <4>4. ReadsInv /\ phase # "graph" /\ w.frames # << >> /\ Enters(x, c, far, <<item>>)
        BY <3>4
      <4> DEFINE mapped == <<item>>
      <4>5. /\ <<far, Placed(w, n) \o mapped>> \in Onwards(d, Place(w, n)) /\ IsSequence(mapped)
            /\ Enters(x, c, far, mapped)
        BY <4>1, <4>3, <4>4
      <4> DEFINE items == {item}
                 named == {}
      <4>6. /\ Pops(c, w, items, named) /\ IsSequence(w.frames)
            /\ \A i \in items : ItemDone(d, x, w.frames[Len(w.frames)].rep, Placed(w, Len(w.frames)), i)
            /\ \A u \in named : UserDone(x, w.frames[Len(w.frames)].rep, Placed(w, Len(w.frames)), u)
        BY <2>3, <4>2
      <4> HIDE DEF mapped, far, items, named
      <4> QED
        BY ONLY <2>2, <4>3, <4>4, <4>5, <4>6, EnterWalks
    <3> QED
      BY <2>8, <3>3, <3>4
  <2>9. CASE /\ MappedItem(item).kind = "no" /\ Defined(item) /\ ~PlacesComponent(structure, item, d)
             /\ Entity(item) # <<"AXIS2_PLACEMENT_3D">>
             /\ \/ Stays(x, c) /\ <<item, Placing(c)>> \in c.seen
                \/ Lists(x, c, item)
    <3>1. item \in OwnItems(d, rep) /\ item \notin MappedOf(d, rep)
      BY <2>3, <2>9 DEF MappedOf, OwnItems, ItemsAt
    <3>2. CASE Stays(x, c) /\ <<item, Placing(c)>> \in c.seen
      <4>1. \A i \in {item} : ItemDone(d, w, rep, Placed(w, n), i)
        BY <2>3, <2>4, <3>1, <3>2 DEF ItemDone
      <4> QED
        BY <2>2, <2>3, <2>5, <3>2, <4>1, StayWalks
    <3>3. CASE Lists(x, c, item)
      <4>1. ItemsAreNoShapes(d, MaxShapeDepth + 2)
        BY <1>4 DEF Clean
      <4> QED
        BY <2>2, <2>3, <3>1, <3>3, <4>1, ListWalks
    <3> QED
      BY <2>9, <3>2, <3>3
  <2> QED
    BY <2>6, <2>7, <2>8, <2>9
<1>5. Told(x)
  BY <1>2
<1> QED
  BY <1>3, <1>4, <1>5 DEF Whole, Walked, x, c, item

(* A relationship back to the path leads to where the walk has been, unless   *)
(* a mapped item lies between: then something places itself.                *)
LEMMA BackOnPath ==
  ASSUME NEW d, NEW w, NEW rest, Walked(d, w, rest), ~PlacesItself(d, MaxShapeDepth + 2),
         IsSequence(w.frames), w.frames # << >>,
         NEW far \in FollowedFrom(w.frames[Len(w.frames)].rep), far \in OnPath(w)
  PROVE  <<far, Placed(w, Len(w.frames))>> \in w.seen
<1> DEFINE n == Len(w.frames)
           N == MaxShapeDepth + 2
           root == w.frames[1].rep
           again == <<far, Placed(w, n)>>
<1>1. DOMAIN w.frames = 1..n /\ n \in Nat
  BY SequenceOf
<1>2. n # 0
  BY DEF IsSequence
<1>3. PICK k \in 1..n : far = w.frames[k].rep
  BY <1>1 DEF OnPath
<1>4. /\ IsSequence(Placed(w, k)) /\ IsSequence(Placed(w, n)) /\ GoesOnFrom(Placed(w, k), Placed(w, n))
      /\ Place(w, k) \in w.seen /\ n <= MaxShapeDepth + 1
      /\ Place(w, k) \in Within(d, root, N)[k - 1] /\ Place(w, n) \in Within(d, root, N)[n - 1]
  <2>1. n \in 1..n /\ k <= n
    BY <1>1, <1>2
  <2> QED
    BY <1>1, <2>1 DEF Walked, Trail
<1>5. Place(w, k) = <<far, Placed(w, k)>>
  BY <1>3 DEF Place
<1>6. N \in Nat /\ k - 1 \in 0..N /\ n \in 0..N /\ n \in 1..N
  BY <1>1, <1>2, <1>4, ShapeLimits
<1>7. again \in Within(d, root, N)[n]
  <2> DEFINE R == Within(d, root, N)
  <2>1. Reaches(R, d, root, N)
    BY <1>6, WithinByLinks DEF WithinReaches
  <2>2. Place(w, n)[1] = w.frames[n].rep /\ Place(w, n)[2] = Placed(w, n)
    BY DEF Place
  <2>3. again \in Onwards(d, Place(w, n))
    BY <2>2 DEF Onwards
  <2>4. Place(w, n) \in R[n - 1]
    BY <1>4
  <2> HIDE DEF R, N, again
  <2>5. R[n] = R[n - 1] \cup UNION {Onwards(d, at) : at \in R[n - 1]}
    BY <1>6, <2>1 DEF Reaches
  <2> QED
    BY <2>3, <2>4, <2>5 DEF R
<1>8. again \in ReachedFrom(d, root, N) /\ Place(w, k) \in ReachedFrom(d, root, N)
  <2> HIDE DEF N, root, again
  <2> QED
    BY <1>4, <1>6, <1>7, WithinGrows
<1>9. root \in ToSet(Shapes(structure, d))
  BY DEF Walked, Listings, Starts
<1>10. IsPrefix(Placed(w, k), Placed(w, n))
  <2> DEFINE a == Placed(w, k)
             b == Placed(w, n)
  <2>1. IsSequence(a) /\ IsSequence(b) /\ GoesOnFrom(a, b)
    BY <1>4
  <2> HIDE DEF a, b
  <2>2. IsPrefix(a, b)
    BY <2>1, GoesOnFromPrefix
  <2> QED
    BY <2>2 DEF a, b
<1>11. Placed(w, k) = Placed(w, n)
  <2> SUFFICES ASSUME Placed(w, k) # Placed(w, n) PROVE FALSE
    OBVIOUS
  <2> DEFINE at == Place(w, k)
  <2>1. at[1] = again[1] /\ at[2] # again[2] /\ IsPrefix(at[2], again[2])
    BY <1>5, <1>10
  <2> HIDE DEF at, again, N, root
  <2>2. PlacesItself(d, N)
    BY <1>8, <1>9, <2>1 DEF PlacesItself, at
  <2> QED
    BY <2>2 DEF N
<1> QED
  BY <1>4, <1>5, <1>11

LEMMA VisitUserWhole ==
  ASSUME ReadsInv, phase # "graph", NEW rest, NEW w, Own(w), Whole(definition, w, rest),
         w.frames # << >>, Last(w.frames).users # << >>
  PROVE  LET user == Head(Last(w.frames).users)
             c == Counted(Without(w, "users"), Last(w.frames).rep)
         IN  Whole(definition, IF c.exhausted THEN c ELSE Link(c, user), rest)
<1> DEFINE d == definition
           user == Head(Last(w.frames).users)
           v == Without(w, "users")
           c == Counted(v, Last(w.frames).rep)
           x == IF c.exhausted THEN c ELSE Link(c, user)
           n == Len(w.frames)
           rep == w.frames[n].rep
           link == LinkFrom(user, Last(c.frames).rep)
           far == link.far
<1>1. /\ IsWalk(c) /\ Told(c) /\ Silent(c, w) /\ Stays(c, v)
      /\ c.notFollowed = {} => ~c.exhausted
  <2>1. Told(w)
    BY DEF Whole
  <2> DEFINE id == Last(w.frames).rep
  <2>2. c = Counted(v, id)
    OBVIOUS
  <2> HIDE DEF id
  <2> QED
    BY <2>1, <2>2, TakenTells
<1> HIDE DEF c, user
<1>2. /\ Told(x) /\ Silent(x, c)
      /\ ~c.exhausted /\ x.notFollowed = {} =>
           \/ Stays(x, c) /\ (link.kind = "follow" => far \in OnPath(c))
           \/ /\ link.kind = "follow"
              /\ \/ Stays(x, c) /\ <<far, Placing(c) \o << >>>> \in c.seen
                 \/ Enters(x, c, far, << >>) /\ ~(Depth(c) >= MaxShapeDepth)
  <2>1. CASE c.exhausted
    BY <1>1, <2>1 DEF Silent
  <2>2. CASE ~c.exhausted
    <3>1. x = Link(c, user)
      BY <2>2
    <3> HIDE DEF x
    <3> QED
      BY <1>1, <3>1, LinkTells
  <2> QED
    BY <2>1, <2>2
<1> HIDE DEF x, link
<1>3. Rest(d, rest)
  BY DEF Whole
<1>4. ASSUME Clean(d, x) PROVE Walked(d, x, rest)
  <2>1. c.notFollowed = {} /\ ~c.exhausted /\ Clean(d, w)
    BY <1>1, <1>2, <1>4 DEF Clean, Silent
  <2>2. Walked(d, w, rest)
    BY <2>1 DEF Whole, Walked
  <2>3. /\ Pops(c, w, {}, {user})
        /\ IsSequence(w.frames) /\ IsSequence(Placed(w, n))
        /\ n \in Nat \ {0} /\ DOMAIN w.frames = 1..n
        /\ Placing(c) = Placed(w, n) /\ Depth(c) = n - 1
        /\ user \in UsersAt(rep) /\ OnPath(c) = OnPath(w) /\ Last(c.frames).rep = rep
    BY <1>1, <2>2, TakenFrom DEF user
  <2>4. /\ link = LinkFrom(user, rep) /\ Placed(w, n) \o << >> = Placed(w, n)
        /\ c.seen = w.seen /\ Place(w, n)[1] = rep /\ Place(w, n)[2] = Placed(w, n)
    BY <2>3, NothingAppended DEF link, Pops, Place
  <2>5. \A i \in {} : ItemDone(d, x, rep, Placed(w, n), i) /\ ItemDone(d, w, rep, Placed(w, n), i)
    OBVIOUS
  <2>6. link.kind = "follow" => far \in FollowedFrom(rep)
    <3>1. user \in ToSet(Referrers(rep))
      BY <2>3 DEF UsersAt
    <3>2. link.kind = "follow" =>
            link \in {l \in {LinkFrom(u, rep) : u \in ToSet(Referrers(rep))} : l.kind = "follow"}
      BY <2>4, <3>1
    <3> QED
      BY <3>2 DEF FollowedFrom
  <2>7. \/ Stays(x, c) /\ (link.kind = "follow" => far \in OnPath(c))
        \/ /\ link.kind = "follow"
           /\ \/ Stays(x, c) /\ <<far, Placing(c) \o << >>>> \in c.seen
              \/ Enters(x, c, far, << >>) /\ ~(Depth(c) >= MaxShapeDepth)
    BY <1>2, <1>4, <2>1 DEF Clean
  <2>8. ASSUME Stays(x, c), link.kind = "follow" => <<far, Placed(w, n)>> \in w.seen
        PROVE  Walked(d, x, rest)
    <3>1. \A u \in {user} : UserDone(w, rep, Placed(w, n), u)
      BY <2>4, <2>8 DEF UserDone
    <3> QED
      BY <2>2, <2>3, <2>5, <2>8, <3>1, StayWalks
  <2>9. CASE Stays(x, c) /\ (link.kind = "follow" => far \in OnPath(c))
    <3>1. link.kind = "follow" => <<far, Placed(w, n)>> \in w.seen
      <4> SUFFICES ASSUME link.kind = "follow" PROVE <<far, Placed(w, n)>> \in w.seen
        OBVIOUS
      <4>1. far \in FollowedFrom(w.frames[Len(w.frames)].rep) /\ far \in OnPath(w)
        BY <2>3, <2>6, <2>9
      <4>2. ~PlacesItself(d, MaxShapeDepth + 2)
        BY <1>4 DEF Clean
      <4> HIDE DEF far
      <4> QED
        BY <2>2, <2>3, <4>1, <4>2, BackOnPath
    <3> QED
      BY <2>8, <2>9, <3>1
  <2>10. CASE link.kind = "follow" /\ Stays(x, c) /\ <<far, Placing(c) \o << >>>> \in c.seen
    BY <2>3, <2>4, <2>8, <2>10
  <2>11. CASE link.kind = "follow" /\ Enters(x, c, far, << >>) /\ ~(Depth(c) >= MaxShapeDepth)
    <3> DEFINE mapped == << >>
               items == {}
               named == {user}
    <3>1. <<far, Place(w, n)[2]>> \in Onwards(d, Place(w, n))
      BY <2>4, <2>6, <2>11 DEF Onwards
    <3>2. /\ <<far, Placed(w, n) \o mapped>> \in Onwards(d, Place(w, n)) /\ IsSequence(mapped)
          /\ Enters(x, c, far, mapped)
      BY <2>4, <2>11, <3>1, ShortSequences
    <3>3. \A u \in named : UserDone(x, rep, Placed(w, n), u)
      <4>1. <<far, Placed(w, n)>> \in x.seen
        BY <2>3, <2>4, <2>11 DEF Enters
      <4> QED
        BY <2>4, <4>1 DEF UserDone
    <3>4. n <= MaxShapeDepth
      BY <2>3, <2>11, ShapeLimits
    <3>5. /\ Pops(c, w, items, named) /\ IsSequence(w.frames)
          /\ \A i \in items : ItemDone(d, x, w.frames[Len(w.frames)].rep, Placed(w, Len(w.frames)), i)
          /\ \A u \in named : UserDone(x, w.frames[Len(w.frames)].rep, Placed(w, Len(w.frames)), u)
      BY <2>3, <3>3
    <3>6. ReadsInv /\ phase # "graph" /\ w.frames # << >>
      OBVIOUS
    <3> HIDE DEF mapped, far, items, named
    <3> QED
      BY ONLY <2>2, <3>2, <3>4, <3>5, <3>6, EnterWalks
  <2> QED
    BY <2>7, <2>9, <2>10, <2>11
<1>5. Told(x)
  BY <1>2
<1> QED
  BY <1>3, <1>4, <1>5 DEF Whole, Walked, x, c, user

-----------------------------------------------------------------------------
(* A walk back at its root has listed all that the root's links reach.       *)
LEMMA RootDone ==
  ASSUME NEW d, NEW w, NEW v, Trail(d, w), Noted(d, w), ItemsAreNoShapes(d, MaxShapeDepth + 2), w.frames # << >>, 1 \in DOMAIN w.frames,
         w.frames[1].rep \in Starts(d), v.seen = w.seen, DOMAIN v.frames = {}, Done(d, v)
  PROVE  \A t \in WholeOf(d, w.frames[1].rep) : IsListed(w, t)
<1> DEFINE root == w.frames[1].rep
           N == MaxShapeDepth + 2
           S == w.seen
<1>1. N \in Nat
  BY ShapeLimits
<1>2. ASSUME NEW rep, NEW m, <<rep, m>> \in S \cap ReachedFrom(d, root, N)
      PROVE  /\ \A i \in ItemsAt(rep) : ItemDone(d, v, rep, m, i)
             /\ \A u \in UsersAt(rep) : UserDone(v, rep, m, u)
             /\ rep \in Met(d)
  <2>1. rep \in Met(d)
    <3>1. <<rep, m>> \in ReachedFrom(d, root, N) /\ root \in ToSet(Shapes(structure, d))
      BY <1>2 DEF Starts
    <3> QED
      BY <3>1 DEF Met, ReachedReps
  <2> QED
    BY <1>2, <2>1 DEF Done
<1>3. <<root, << >>>> \in S
  <2>1. Place(w, 1) \in w.seen /\ Place(w, 1) \in Within(d, root, N)[1 - 1]
    BY DEF Trail
  <2>2. Reaches(Within(d, root, N), d, root, N)
    BY <1>1, WithinByLinks DEF WithinReaches
  <2>3. Within(d, root, N)[0] = {<<root, << >>>>}
    BY <2>2 DEF Reaches
  <2> QED
    BY <2>1, <2>3
<1>4. ASSUME NEW rep, NEW m, <<rep, m>> \in S \cap ReachedFrom(d, root, N)
      PROVE  Onwards(d, <<rep, m>>) \subseteq S
  <2>1. ASSUME NEW far \in FollowedFrom(rep) PROVE <<far, m>> \in S
    <3>1. PICK u \in UsersAt(rep) : LinkFrom(u, rep).kind = "follow" /\ far = LinkFrom(u, rep).far
      BY DEF FollowedFrom, UsersAt
    <3>2. UserDone(v, rep, m, u)
      BY <1>2, <1>4
    <3> QED
      BY <3>1, <3>2 DEF UserDone
  <2>2. ASSUME NEW i \in MappedOf(d, rep) PROVE <<MappedItem(i).representation, Append(m, i)>> \in S
    <3>1. i \in ItemsAt(rep)
      BY DEF MappedOf, ItemsAt
    <3>2. ItemDone(d, v, rep, m, i)
      BY <1>2, <1>4, <3>1
    <3> QED
      BY <3>2 DEF ItemDone
  <2> QED
    BY <2>1, <2>2 DEF Onwards
<1>5. \A at \in ReachedFrom(d, root, N) : at \in S /\ \E rep, m : at = <<rep, m>>
  <2> HIDE DEF S, root, N
  <2> QED
    BY <1>1, <1>3, <1>4, ReachedLeast
<1> SUFFICES ASSUME NEW t \in WholeOf(d, root) PROVE IsListed(w, t)
  OBVIOUS
<1>6. PICK at \in ReachedFrom(d, root, N) : t \in {<<i, at[2], root>> : i \in OwnItems(d, at[1])}
  BY DEF WholeOf
<1>7. PICK i \in OwnItems(d, at[1]) : t = <<i, at[2], root>>
  BY <1>6
<1>8. PICK rep : \E m : at = <<rep, m>>
  BY <1>5
<1>9. PICK m : at = <<rep, m>>
  BY <1>8
<1>10. <<rep, m>> \in S \cap ReachedFrom(d, root, N) /\ i \in OwnItems(d, rep) /\ t = <<i, m, root>>
  BY <1>5, <1>6, <1>7, <1>9
<1>11. i \in ItemsAt(rep)
  BY <1>10 DEF OwnItems, ItemsAt
<1>12. <<i, m>> \in S
  BY <1>2, <1>10, <1>11 DEF ItemDone
<1>13. i \notin Met(d)
  BY <1>2, <1>10 DEF ItemsAreNoShapes, Met
<1> QED
  BY <1>10, <1>12, <1>13 DEF Noted, IsListed

LEMMA ReturnWhole ==
  ASSUME NEW d, NEW rest, NEW w, Own(w), Whole(d, w, rest), w.frames # << >>,
         w.exhausted \/ (Last(w.frames).items = << >> /\ Last(w.frames).users = << >>)
  PROVE  Whole(d, [w EXCEPT !.frames = Front(@)], rest)
<1> DEFINE x == [w EXCEPT !.frames = Front(@)]
           n == Len(w.frames)
<1>1. IsWalk(w) /\ IsSequence(w.frames)
  BY DEF Own, IsWalk
<1>2. /\ x.frames = Front(w.frames) /\ x.seen = w.seen /\ x.listed = w.listed
      /\ x.notFollowed = w.notFollowed /\ x.exhausted = w.exhausted
  BY <1>1 DEF IsWalk
<1> HIDE DEF x
<1>3. n \in Nat /\ n # 0 /\ DOMAIN w.frames = 1..n
  <2>1. n # 0
    BY DEF IsSequence
  <2> QED
    BY <1>1, <2>1, SequenceOf
<1>4. /\ IsSequence(x.frames) /\ Len(x.frames) = n - 1 /\ DOMAIN x.frames = 1..n - 1
      /\ \A k \in 1..n - 1 : x.frames[k] = w.frames[k]
  <2>1. /\ IsSequence(x.frames) /\ Len(x.frames) = n - 1
        /\ \A k \in 1..n - 1 : x.frames[k] = w.frames[k]
    BY <1>1, <1>2, <1>3, FrontSequence
  <2> QED
    BY <2>1, SequenceOf
<1> HIDE DEF n
<1>5. \A k \in 1..n - 1 : Placed(x, k) = Placed(w, k) /\ Place(x, k) = Place(w, k)
  <2> SUFFICES ASSUME NEW k \in 1..n - 1 PROVE Placed(x, k) = Placed(w, k) /\ Place(x, k) = Place(w, k)
    OBVIOUS
  <2>1. \A i \in 1..k : x.frames[i].mapped = w.frames[i].mapped
    BY <1>3, <1>4
  <2>2. Placed(x, k) = Placed(w, k)
    BY <2>1, PlacedSame
  <2> QED
    BY <1>4, <2>2 DEF Place
<1>6. Told(x) /\ Rest(d, rest)
  BY <1>2 DEF Whole, Told
<1>7. ASSUME Clean(d, x) PROVE Walked(d, x, rest)
  <2>1. Walked(d, w, rest) /\ Told(w) /\ w.notFollowed = {} /\ ItemsAreNoShapes(d, MaxShapeDepth + 2)
    BY <1>2, <1>7 DEF Whole, Clean, Walked
  <2>2. ToSet(w.frames[n].items) = {} /\ ToSet(w.frames[n].users) = {}
    <3>1. w.frames[n].items = << >> /\ w.frames[n].users = << >>
      BY <2>1 DEF Told, Last, n
    <3> QED
      BY <3>1 DEF ToSet
  <2>3. Loops(x)
    <3>1. \A k \in DOMAIN x.frames : k \in DOMAIN w.frames /\ x.frames[k] = w.frames[k]
      BY <1>3, <1>4
    <3>2. Loops(w)
      BY <2>1 DEF Walked
    <3> QED
      BY ONLY <3>1, <3>2 DEF Loops
  <2>4. n - 1 # 0 => x.frames[1] = w.frames[1]
    BY <1>3, <1>4
  <2>5. Trail(d, x)
    <3>1. /\ Len(x.frames) <= MaxShapeDepth + 1
          /\ \A k \in 1..n - 1 : x.frames[1] = w.frames[1] /\ k \in DOMAIN w.frames
      BY <1>3, <1>4, <2>1, <2>4, ShapeLimits DEF Walked, Trail, n
    <3> QED
      BY <1>2, <1>4, <1>5, <2>1, <3>1 DEF Walked, Trail
  <2>6. Done(d, x)
    <3> SUFFICES ASSUME NEW rep \in Met(d), NEW m, <<rep, m>> \in w.seen PROVE AtHand(d, x, rep, m)
      BY <1>2 DEF Done, AtHand
    <3>1. /\ \A i \in ItemsAt(rep) :
               \/ ItemDone(d, w, rep, m, i)
               \/ \E k \in DOMAIN w.frames : Place(w, k) = <<rep, m>> /\ i \in ToSet(w.frames[k].items)
          /\ \A u \in UsersAt(rep) :
               \/ UserDone(w, rep, m, u)
               \/ \E k \in DOMAIN w.frames : Place(w, k) = <<rep, m>> /\ u \in ToSet(w.frames[k].users)
      BY <2>1 DEF Walked, Done
    <3>2. /\ \A i : ItemDone(d, w, rep, m, i) => ItemDone(d, x, rep, m, i)
          /\ \A u : UserDone(w, rep, m, u) => UserDone(x, rep, m, u)
      BY <1>2 DEF ItemDone, UserDone
    <3>3. \A k \in DOMAIN w.frames : k = n \/ k \in 1..n - 1
      BY <1>3
    <3> QED
      BY <1>4, <1>5, <2>2, <3>1, <3>2, <3>3 DEF AtHand
  <2>7. Noted(d, x)
    <3>1. x.frames # << >> => x.frames[1] = w.frames[1]
      BY <1>4, <2>4, ShortSequences
    <3> QED
      BY <1>2, <2>1, <3>1 DEF Walked, Noted
  <2>8. Listings(d, x, rest)
    <3>1. \A t : IsListed(w, t) <=> IsListed(x, t)
      BY <1>2 DEF IsListed
    <3>2. CASE n - 1 # 0
      <4>1. x.frames # << >> /\ x.frames[1] = w.frames[1]
        <5>1. 1 \in DOMAIN x.frames
          BY <1>3, <1>4, <3>2
        <5> QED
          BY <2>4, <3>2, <5>1
      <4> QED
        BY <1>2, <2>1, <3>1, <4>1 DEF Walked, Listings
    <3>3. CASE n - 1 = 0
      <4>1. x.frames = << >> /\ DOMAIN x.frames = {}
        BY <1>4, <3>3, ShortSequences
      <4>2. \A t \in WholeOf(d, w.frames[1].rep) : IsListed(w, t)
        <5>1. 1 \in DOMAIN w.frames /\ w.frames[1].rep \in Starts(d)
          BY <1>3, <2>1 DEF Walked, Listings
        <5> QED
          BY <1>2, <2>1, <2>6, <4>1, <5>1, RootDone DEF Walked
      <4> QED
        BY <1>2, <2>1, <3>1, <4>1, <4>2 DEF Walked, Listings
    <3> QED
      BY <3>2, <3>3
  <2> QED
    BY <2>3, <2>5, <2>6, <2>7, <2>8 DEF Walked
<1> QED
  BY <1>6, <1>7 DEF Whole, Walked, x

-----------------------------------------------------------------------------
(* A walk begins at a root with nothing seen, and nothing listed from it.    *)
LEMMA RootWhole ==
  ASSUME ReadsInv, phase # "graph", NEW rest, NEW w, Own(w), Whole(definition, w, rest),
         w.frames = << >>, rest # << >>
  PROVE  Whole(definition,
               IF Others(Head(rest)) # {} THEN Refuse(w, Head(rest), "other_definition")
               ELSE Visit([w EXCEPT !.seen = {}], Head(rest), << >>),
               Tail(rest))
<1> DEFINE d == definition
           rep == Head(rest)
           others == Tail(rest)
           fresh == [w EXCEPT !.seen = {}]
           refused == Refuse(w, rep, "other_definition")
           x == Visit(fresh, rep, << >>)
           N == MaxShapeDepth + 2
<1>1. /\ IsSequence(rest) /\ ToSet(rest) \subseteq Starts(d)
      /\ \A j, k \in DOMAIN rest : j # k => rest[j] # rest[k]
  BY DEF Whole, Rest
<1>2. /\ IsSequence(others) /\ rep \notin ToSet(others) /\ ToSet(rest) = {rep} \cup ToSet(others)
      /\ \A j, k \in DOMAIN others : j # k => others[j] # others[k]
  BY <1>1, TailOnce
<1> HIDE DEF rep, others
<1>3. Rest(d, others) /\ rep \in Starts(d)
  BY <1>1, <1>2 DEF Rest
<1>4. IsWalk(w) /\ Told(w)
  BY DEF Own, Whole
<1>5. /\ IsWalk(fresh) /\ fresh.frames = << >> /\ fresh.seen = {} /\ fresh.listed = w.listed
      /\ fresh.notFollowed = w.notFollowed /\ fresh.exhausted = w.exhausted
  BY <1>4 DEF IsWalk
<1>6. Whole(d, refused, others)
  <2>1. refused.notFollowed # {} /\ Told(refused)
    BY <1>4, RefuseTells
  <2> HIDE DEF refused
  <2> QED
    BY <1>3, <2>1 DEF Whole, Clean
<1> HIDE DEF fresh, refused
<1>7. Told(fresh)
  BY <1>4, <1>5 DEF Told
<1>8. /\ Told(x) /\ Silent(x, fresh)
      /\ x.notFollowed = {} => \/ Stays(x, fresh) /\ <<rep, Placing(fresh) \o << >>>> \in fresh.seen
                               \/ Enters(x, fresh, rep, << >>)
  BY <1>5, <1>7, VisitTells
<1> HIDE DEF x
<1>9. ASSUME Clean(d, x) PROVE Walked(d, x, others)
  <2>1. Enters(x, fresh, rep, << >>) /\ Clean(d, w)
    BY <1>5, <1>8, <1>9 DEF Clean, Silent
  <2>2. Walked(d, w, rest)
    BY <2>1 DEF Whole, Walked
  <2>3. IsSequence(fresh.frames) /\ Len(fresh.frames) = 0 /\ DOMAIN fresh.frames = {} /\ IsSequence(<< >>)
    BY <1>5, ShortSequences, SequenceOf
  <2>4. /\ x.frames # << >> /\ DOMAIN x.frames = 1..1 /\ Len(x.frames) = 1
        /\ x.frames[1].rep = rep /\ x.frames[1].mapped = << >>
        /\ IsSequence(x.frames[1].items) /\ ToSet(x.frames[1].items) = ItemsAt(rep)
        /\ IsSequence(x.frames[1].users) /\ ToSet(x.frames[1].users) = UsersAt(rep)
    <3> DEFINE mapped == << >>
    <3>1. ReadsInv /\ phase # "graph" /\ Enters(x, fresh, rep, mapped)
      BY <2>1
    <3> HIDE DEF mapped
    <3>2. /\ x.frames # << >> /\ DOMAIN x.frames = 1..Len(fresh.frames) + 1 /\ Len(x.frames) = Len(fresh.frames) + 1
          /\ x.frames[Len(fresh.frames) + 1].rep = rep /\ x.frames[Len(fresh.frames) + 1].mapped = mapped
          /\ IsSequence(x.frames[Len(fresh.frames) + 1].items)
          /\ ToSet(x.frames[Len(fresh.frames) + 1].items) = ItemsAt(rep)
          /\ IsSequence(x.frames[Len(fresh.frames) + 1].users)
          /\ ToSet(x.frames[Len(fresh.frames) + 1].users) = UsersAt(rep)
      <4>1. IsSequence(fresh.frames)
        BY <2>3
      <4> QED
        BY ONLY <3>1, <4>1, FramesOfEnter
    <3>3. Len(fresh.frames) + 1 = 1
      BY <2>3
    <3> QED
      BY <3>2, <3>3 DEF mapped
  <2>5. Placed(x, 1) = << >>
    <3>1. \A i \in 1..0 : x.frames[i].mapped = fresh.frames[i].mapped
      OBVIOUS
    <3>2. Placed(x, 0 + 1) = IF 0 = 0 THEN x.frames[1].mapped ELSE Placed(fresh, 0) \o x.frames[0 + 1].mapped
      BY ONLY <3>1, PlacedOneMore
    <3> QED
      BY <2>4, <3>2
  <2>6. Place(x, 1) = <<rep, << >>>>
    BY <2>4, <2>5 DEF Place
  <2>7. x.seen = {<<rep, << >>>>} /\ x.listed = w.listed /\ Representation(rep) # {}
    <3>1. Placing(fresh) = << >>
      BY <2>3, PlacingIsPlaced, PlacedNone
    <3>2. << >> \o << >> = << >>
      BY <2>3, NothingAppended
    <3> QED
      BY <1>5, <2>1, <3>1, <3>2 DEF Enters
  <2>8. Loops(x)
    <3>1. \A k \in DOMAIN x.frames : k = 1
      BY <2>4
    <3> QED
      BY <2>4, <3>1 DEF Loops
  <2>9. Trail(d, x)
    <3>1. N \in Nat /\ 1 <= MaxShapeDepth + 1
      BY ShapeLimits
    <3>2. Reaches(Within(d, rep, N), d, rep, N)
      BY <3>1, WithinByLinks DEF WithinReaches
    <3>3. Place(x, 1) \in Within(d, rep, N)[1 - 1]
      BY <2>6, <3>2 DEF Reaches
    <3>4. \A k \in DOMAIN x.frames : k = 1
      BY <2>4
    <3>5. GoesOnFrom(<< >>, << >>)
      BY <1>5, <2>3 DEF GoesOnFrom
    <3>6. /\ \A k \in DOMAIN x.frames :
               /\ IsSequence(Placed(x, k)) /\ Place(x, k) \in x.seen
               /\ Place(x, k) \in Within(d, x.frames[1].rep, N)[k - 1]
          /\ \A j, k \in DOMAIN x.frames : j <= k => GoesOnFrom(Placed(x, j), Placed(x, k))
      BY <2>3, <2>4, <2>5, <2>6, <2>7, <3>3, <3>4, <3>5
    <3> QED
      BY <2>4, <3>1, <3>6 DEF Trail
  <2>10. Done(d, x)
    <3>1. AtHand(d, x, rep, << >>)
      <4> DEFINE m == << >>
      <4>1. /\ ReadsInv /\ phase # "graph" /\ Enters(x, fresh, rep, m)
            /\ Place(x, Len(fresh.frames) + 1) = <<rep, m>>
        <5>1. Len(fresh.frames) + 1 = 1
          BY <2>3
        <5> QED
          BY <2>1, <2>6, <5>1
      <4> HIDE DEF m
      <4>2. AtHand(d, x, rep, m)
        BY ONLY <2>3, <4>1, EnteredAtHand
      <4> QED
        BY <4>2 DEF m
    <3>2. \A r, m : <<r, m>> \in x.seen => r = rep /\ m = << >>
      BY <2>7
    <3>3. \A r, m : <<r, m>> \in x.seen => AtHand(d, x, r, m)
      BY <3>1, <3>2
    <3> QED
      BY <3>3 DEF AtHand, Done
  <2>11. \A k \in DOMAIN x.listed : x.listed[k].root \in Starts(d) \ ToSet(rest)
    BY <2>2, <2>7 DEF Walked, Listings
  <2>12. Noted(d, x)
    <3>1. \A i, m : <<i, m>> \in x.seen => i = rep
      BY <2>7
    <3>2. \A k \in DOMAIN x.listed : x.listed[k].root # rep
      BY <1>2, <2>11
    <3>3. rep \in Met(d)
      BY <1>3, <2>4, <2>9, TrailMet
    <3> QED
      BY <2>4, <2>7, <3>1, <3>2, <3>3 DEF Noted
  <2>13. Listings(d, x, others)
    <3>1. \A t : IsListed(w, t) <=> IsListed(x, t)
      BY <2>7 DEF IsListed
    <3>2. \A root \in Starts(d) :
            \/ root \in ToSet(others)
            \/ x.frames # << >> /\ root = x.frames[1].rep
            \/ \A t \in WholeOf(d, root) : IsListed(x, t)
      <4>1. \A root \in Starts(d) : root \in ToSet(rest) \/ \A t \in WholeOf(d, root) : IsListed(w, t)
        BY <2>2 DEF Walked, Listings
      <4> QED
        BY <1>2, <2>4, <3>1, <4>1
    <3>3. /\ IsSequence(x.listed)
          /\ \A k \in DOMAIN x.listed : Triple(x.listed[k]) \in WholeOf(d, x.listed[k].root)
          /\ \A j, k \in DOMAIN x.listed : j # k => Triple(x.listed[j]) # Triple(x.listed[k])
      BY <2>2, <2>7 DEF Walked, Listings
    <3>4. /\ \A k \in DOMAIN x.listed : x.listed[k].root \in Starts(d) \ ToSet(others)
          /\ x.frames[1].rep \in Starts(d) \ ToSet(others)
      BY <1>2, <1>3, <2>4, <2>11
    <3> QED
      BY <3>2, <3>3, <3>4 DEF Listings
  <2> QED
    BY <2>8, <2>9, <2>10, <2>12, <2>13 DEF Walked
<1>10. Whole(d, x, others)
  BY <1>3, <1>8, <1>9 DEF Whole, Walked
<1> QED
  BY <1>6, <1>10 DEF x, refused, rep, others, fresh

LEMMA BeginWhole ==
  ASSUME NEW d, IsSequence(Shapes(structure, d)), NEW reported
  PROVE  Whole(d, [NoWalk EXCEPT !.notFollowed = reported], WithoutRepeats(Shapes(structure, d)))
<1> DEFINE w == [NoWalk EXCEPT !.notFollowed = reported]
           rest == WithoutRepeats(Shapes(structure, d))
<1>1. w.frames = << >> /\ w.seen = {} /\ w.listed = << >> /\ ~w.exhausted
  BY DEF NoWalk
<1>2. DOMAIN << >> = {} /\ IsSequence(<< >>) /\ Len(<< >>) = 0
  BY ShortSequences
<1>3. /\ IsSequence(rest) /\ ToSet(rest) = Starts(d)
      /\ \A j, k \in DOMAIN rest : j # k => rest[j] # rest[k]
  BY WithoutRepeatsOnce DEF Starts
<1> HIDE DEF w, rest
<1>4. Told(w) /\ Rest(d, rest)
  BY <1>1, <1>3 DEF Told, Rest
<1>5. Loops(w) /\ Done(d, w) /\ Noted(d, w)
  BY <1>1, <1>2 DEF Loops, Done, Noted
<1>6. Trail(d, w)
  BY <1>1, <1>2, ShapeLimits DEF Trail
<1>7. Listings(d, w, rest)
  BY <1>1, <1>2, <1>3 DEF Listings
<1> QED
  BY <1>4, <1>5, <1>6, <1>7 DEF Whole, w, rest

TriplesOf(listed) == {<<l.item, l.mapped, l.root>> : l \in ToSet(listed)}

LEMMA FinishWhole ==
  ASSUME NEW d, NEW w, Whole(d, w, << >>), w.frames = << >>, Clean(d, w)
  PROVE  /\ TriplesOf(w.listed) = WholeShape(d, MaxShapeDepth + 2)
         /\ Len(w.listed) = Cardinality(TriplesOf(w.listed))
<1> DEFINE N == MaxShapeDepth + 2
           n == Len(w.listed)
           s == [k \in 1..n |-> Triple(w.listed[k])]
<1>1. Listings(d, w, << >>)
  BY DEF Whole
<1>2. IsSequence(w.listed) /\ DOMAIN w.listed = 1..n /\ n \in Nat
  BY <1>1, SequenceOf DEF Listings
<1>3. TriplesOf(w.listed) = {s[i] : i \in 1..n}
  BY <1>2 DEF TriplesOf, Triple, ToSet
<1>4. Cardinality(TriplesOf(w.listed)) = n
  <2>1. \A j, k \in 1..n : j # k => s[j] # s[k]
    BY <1>1, <1>2 DEF Listings
  <2>2. DOMAIN s = 1..n
    OBVIOUS
  <2> HIDE DEF s, n
  <2> QED
    BY <1>2, <1>3, <2>1, <2>2, DifferentElements
<1>5. WholeShape(d, N) = UNION {WholeOf(d, root) : root \in Starts(d)}
  BY DEF WholeShape, WholeOf, Starts
<1>6. ASSUME NEW t \in TriplesOf(w.listed) PROVE t \in WholeShape(d, N)
  <2>1. PICK k \in DOMAIN w.listed : t = Triple(w.listed[k])
    BY <1>2, <1>3
  <2>2. w.listed[k].root \in Starts(d) /\ t \in WholeOf(d, w.listed[k].root)
    BY <1>1, <2>1 DEF Listings
  <2> QED
    BY <1>5, <2>2
<1>7. ASSUME NEW t \in WholeShape(d, N) PROVE t \in TriplesOf(w.listed)
  <2>1. PICK root \in Starts(d) : t \in WholeOf(d, root)
    BY <1>5
  <2>2. ToSet(<< >>) = {}
    BY DEF ToSet
  <2>3. IsListed(w, t)
    BY <1>1, <2>1, <2>2 DEF Listings
  <2>4. PICK k \in 1..n : t = Triple(w.listed[k])
    BY <1>2, <2>3 DEF IsListed
  <2> QED
    BY <1>3, <2>4
<1> QED
  BY <1>4, <1>6, <1>7

-----------------------------------------------------------------------------
(* The product structure of such a file has its shapes in sequence.         *)
LEMMA OneInSequence ==
  ASSUME NEW S, \A a, b \in S : a = b
  PROVE  SetToSeq(S) \in Seq(S)
<1>1. CASE S = {}
  <2>1. Cardinality(S) = 0
    BY <1>1, FS_EmptySet
  <2> DEFINE f == [i \in 1..0 |-> i]
  <2>2. f \in [1..0 -> S] /\ IsInjective(f)
    BY DEF IsInjective
  <2> HIDE DEF f
  <2>3. \E g \in [1..0 -> S] : IsInjective(g)
    BY <2>2
  <2>4. SetToSeq(S) \in [1..0 -> S]
    BY <2>1, <2>3 DEF SetToSeq
  <2> QED
    BY <2>4, SeqDef
<1>2. CASE S # {}
  <2>1. PICK e : S = {e}
    BY <1>2
  <2>2. Cardinality(S) = 1
    BY <2>1, FS_Singleton
  <2> DEFINE f == [i \in 1..1 |-> e]
  <2>3. f \in [1..1 -> S]
    BY <2>1
  <2>4. IsInjective(f)
    BY DEF IsInjective
  <2> HIDE DEF f
  <2>5. \E g \in [1..1 -> S] : IsInjective(g)
    BY <2>3, <2>4
  <2>6. SetToSeq(S) \in [1..1 -> S]
    BY <2>2, <2>5 DEF SetToSeq
  <2> QED
    BY <2>6, SeqDef
<1> QED
  BY <1>1, <1>2

LEMMA UsersRead ==
  ASSUME FileInv
  PROVE  \A id \in DOMAIN file : IsSequence(UsersOfFile[id]) /\ ToSet(UsersOfFile[id]) \subseteq DOMAIN file
<1> SUFFICES ASSUME NEW id \in DOMAIN file
             PROVE  IsSequence(UsersOfFile[id]) /\ ToSet(UsersOfFile[id]) \subseteq DOMAIN file
  OBVIOUS
<1> DEFINE named == [x \in DOMAIN file |-> IdsOf(x)]
           S == {user \in DOMAIN file : id \in named[user]}
<1>1. UsersOfFile[id] = InOrder(S)
  BY DEF UsersOfFile
<1>2. S \subseteq DOMAIN file
  OBVIOUS
<1> HIDE DEF S
<1>3. S \subseteq Nat /\ IsFiniteSet(S)
  BY <1>2, FS_Subset DEF FileInv
<1>4. InOrder(S) \in Seq(S)
  BY <1>3, InOrderLists
<1> DEFINE s == InOrder(S)
<1> HIDE DEF s
<1>5. IsSequence(s) /\ ToSet(s) \subseteq S
  <2>1. s \in Seq(S)
    BY <1>4 DEF s
  <2> QED
    BY <2>1, SeqIsSequence DEF ToSet
<1> QED
  BY <1>1, <1>2, <1>5 DEF s

LEMMA UsersAsRead ==
  ASSUME FileInv, ReadsInv, phase # "graph", NEW id, NEW entity, NEW i
  PROVE  UsersAs(id, entity, i) \in Seq(Nat)
<1> DEFINE S == {user \in ToSet(Referrers(id)) : RecordReferences(user, entity, i, id)}
<1>1. ToSet(Referrers(id)) \subseteq DOMAIN file
  <2>1. ToSet(<< >>) = {}
    BY DEF ToSet
  <2> QED
    BY <2>1 DEF ReadsInv, Referrers, Defined
<1>2. S \subseteq DOMAIN file
  BY <1>1
<1>3. UsersAs(id, entity, i) = InOrder(S)
  BY DEF UsersAs
<1> HIDE DEF S
<1>4. S \subseteq Nat /\ IsFiniteSet(S)
  BY <1>2, FS_Subset DEF FileInv
<1>5. InOrder(S) \in Seq(S)
  BY <1>4, InOrderLists
<1> QED
  BY <1>3, <1>4, <1>5, SeqMonotonic

LEMMA ShapesRead ==
  ASSUME FileInv, ReadsInv, phase # "graph", NEW id
  PROVE  IsSequence(ShapeRepresentations(id))
<1> DEFINE named == UsersAs(id, "PRODUCT_DEFINITION_SHAPE", 3)
           through == [k \in DOMAIN named |-> UsersAs(named[k], "SHAPE_DEFINITION_REPRESENTATION", 1)]
           links == FlattenSeq(through)
           R == UNION {FirstReference(l, 2) : l \in ToSet(links)}
           reps == [k \in DOMAIN links |-> SetToSeq(FirstReference(links[k], 2))]
<1>1. ShapeRepresentations(id) = FlattenSeq(reps)
  BY DEF ShapeRepresentations, ThroughShapes
<1>2. through \in Seq(Seq(Nat))
  <2>1. named \in Seq(Nat)
    BY UsersAsRead
  <2>2. \A k \in DOMAIN named : through[k] \in Seq(Nat)
    BY UsersAsRead
  <2>3. DOMAIN through = DOMAIN named /\ through = [k \in DOMAIN named |-> through[k]]
    OBVIOUS
  <2> HIDE DEF named, through
  <2>4. Len(named) \in Nat /\ DOMAIN named = 1..Len(named)
    BY <2>1
  <2>5. through \in [1..Len(named) -> Seq(Nat)]
    BY <2>2, <2>3, <2>4
  <2> QED
    BY <2>4, <2>5, SeqDef
<1>3. links \in Seq(Nat)
  <2> HIDE DEF through
  <2> QED
    BY <1>2, FlattenPlaces
<1> HIDE DEF links
<1>4. ASSUME NEW k \in DOMAIN links PROVE reps[k] \in Seq(R)
  <2> DEFINE S == FirstReference(links[k], 2)
  <2>1. \A a, b \in S : a = b
    BY DEF FirstReference, ReferenceAt, ParamAt, Reference
  <2>2. S \subseteq R
    BY DEF ToSet
  <2>3. reps[k] = SetToSeq(S)
    OBVIOUS
  <2> HIDE DEF S, R
  <2>4. SetToSeq(S) \in Seq(S)
    BY <2>1, OneInSequence
  <2> QED
    BY <2>2, <2>3, <2>4, SeqMonotonic
<1>5. reps \in Seq(Seq(R))
  <2>1. DOMAIN reps = DOMAIN links /\ reps = [k \in DOMAIN links |-> reps[k]]
    OBVIOUS
  <2> HIDE DEF reps, R
  <2>2. Len(links) \in Nat /\ DOMAIN links = 1..Len(links)
    BY <1>3
  <2>3. reps \in [1..Len(links) -> Seq(R)]
    BY <1>4, <2>1, <2>2
  <2> QED
    BY <2>2, <2>3, SeqDef
<1>6. FlattenSeq(reps) \in Seq(R)
  <2> HIDE DEF reps, R
  <2> QED
    BY <1>5, FlattenPlaces
<1> QED
  BY <1>1, <1>6, SeqIsSequence

LEMMA ReadsInit == Init => ReadsInv
BY SequencesAssumption DEF Init, ReadsInv

LEMMA ReadsStep ==
  ASSUME ShapeInv, ReadsInv, [Next]_vars
  PROVE  ReadsInv'
<1>1. CASE BuildGraph
  <2>1. file' = file /\ users' = UsersOfFile /\ phase' = "structure"
    BY <1>1 DEF BuildGraph
  <2> QED
    BY <2>1, UsersRead DEF ReadsInv, ShapeInv
<1>2. CASE BuildStructure
  <2>1. /\ file' = file /\ users' = users /\ structure' = StructureOfFile /\ phase = "structure"
        /\ phase' # "graph"
    BY <1>2 DEF BuildStructure
  <2>2. ASSUME NEW d \in 1..Len(StructureOfFile.definitions)
        PROVE  IsSequence(Shapes(StructureOfFile, d))
    <3>1. PICK id : Shapes(StructureOfFile, d) = ShapeRepresentations(id)
      BY DefinitionsCounted DEF ShapeInv, FileInv
    <3> QED
      BY <2>1, <3>1, ShapesRead DEF ShapeInv
  <2>3. \A d \in 1..Count' : IsSequence(Shapes(structure', d))
    BY <2>1, <2>2 DEF Count
  <2> QED
    BY <2>1, <2>3 DEF ReadsInv
<1>3. CASE ~(BuildGraph \/ BuildStructure)
  <2>1. /\ file' = file /\ users' = users /\ structure' = structure
        /\ phase \in {"graph", "structure"} => phase' = phase
        /\ phase' \in {"graph", "structure"} => phase' = phase
    BY <1>3 DEF Next, BeginIndex, Index, IndexNext, Begin, Root, VisitItem, VisitUser, Return, Finish, vars
  <2> QED
    BY <2>1 DEF ReadsInv, Count
<1> QED
  BY <1>1, <1>2, <1>3

-----------------------------------------------------------------------------
(* What an unchanged file leaves of a walk as it is.                        *)
LEMMA ShapeKept ==
  ASSUME FileKept, structure' = structure, NEW d
  PROVE  /\ Starts(d)' = Starts(d)
         /\ ItemsAreNoShapes(d, MaxShapeDepth + 2)' <=> ItemsAreNoShapes(d, MaxShapeDepth + 2)
         /\ PlacesItself(d, MaxShapeDepth + 2)' <=> PlacesItself(d, MaxShapeDepth + 2)
         /\ WholeShape(d, MaxShapeDepth + 2)' = WholeShape(d, MaxShapeDepth + 2)
         /\ \A root : WholeOf(d, root)' = WholeOf(d, root)
         /\ Met(d)' = Met(d)
<1> DEFINE N == MaxShapeDepth + 2
<1>1. N \in Nat
  BY ShapeLimits
<1>2. Starts(d)' = Starts(d) /\ Shapes(structure, d)' = Shapes(structure, d)
  BY DEF Starts, Shapes
<1> HIDE DEF N
<1>3. \A root : ReachedFrom(d, root, N)' = ReachedFrom(d, root, N)
  BY <1>1, ReachedKept
<1>4. /\ \A rep : OwnItems(d, rep)' = OwnItems(d, rep)
      /\ ReachedReps(d, N)' = ReachedReps(d, N)
  BY <1>2, <1>3, LinksKept DEF ReachedReps
<1>5. ItemsAreNoShapes(d, N)' <=> ItemsAreNoShapes(d, N)
  BY <1>4 DEF ItemsAreNoShapes
<1>6. PlacesItself(d, N)' <=> PlacesItself(d, N)
  BY <1>2, <1>3 DEF PlacesItself
<1>7. \A root : WholeOf(d, root)' = WholeOf(d, root)
  BY <1>3, <1>4 DEF WholeOf, N
<1>8. WholeShape(d, N)' = WholeShape(d, N)
  BY <1>2, <1>3, <1>4 DEF WholeShape
<1> QED
  BY <1>2, <1>4, <1>5, <1>6, <1>7, <1>8 DEF N, Met

LEMMA WholeKept ==
  ASSUME FileKept, structure' = structure, NEW d, NEW w, NEW rest
  PROVE  Whole(d, w, rest)' <=> Whole(d, w, rest)
<1>1. /\ Starts(d)' = Starts(d) /\ (ItemsAreNoShapes(d, MaxShapeDepth + 2)' <=> ItemsAreNoShapes(d, MaxShapeDepth + 2))
      /\ PlacesItself(d, MaxShapeDepth + 2)' <=> PlacesItself(d, MaxShapeDepth + 2)
      /\ \A root : WholeOf(d, root)' = WholeOf(d, root)
      /\ Met(d)' = Met(d)
  BY ShapeKept
<1>2. \A rep : ItemsAt(rep)' = ItemsAt(rep) /\ UsersAt(rep)' = UsersAt(rep)
  BY RepresentationKept, RecordsKept DEF ItemsAt, UsersAt
<1>3. \A root : Within(d, root, MaxShapeDepth + 2)' = Within(d, root, MaxShapeDepth + 2)
  <2> DEFINE N == MaxShapeDepth + 2
  <2>1. N \in Nat
    BY ShapeLimits
  <2> HIDE DEF N
  <2>2. \A root : Within(d, root, N)' = Within(d, root, N)
    BY <2>1, ReachedKept
  <2> QED
    BY <2>2 DEF N
<1>4. /\ \A rep, m, i : ItemDone(d, w, rep, m, i)' <=> ItemDone(d, w, rep, m, i)
      /\ \A rep, m, u : UserDone(w, rep, m, u)' <=> UserDone(w, rep, m, u)
  BY LinksKept, MappedKept, LinkKept DEF ItemDone, UserDone
<1>5. Loops(w)' <=> Loops(w)
  BY <1>2 DEF Loops
<1>6. Trail(d, w)' <=> Trail(d, w)
  BY <1>3 DEF Trail
<1>7. Done(d, w)' <=> Done(d, w)
  BY <1>1, <1>2, <1>4 DEF Done
<1>8. Noted(d, w)' <=> Noted(d, w)
  BY <1>1 DEF Noted
<1>9. Listings(d, w, rest)' <=> Listings(d, w, rest)
  BY <1>1 DEF Listings
<1>10. (Rest(d, rest)' <=> Rest(d, rest)) /\ (Clean(d, w)' <=> Clean(d, w))
  BY <1>1 DEF Rest, Clean
<1> QED
  BY <1>5, <1>6, <1>7, <1>8, <1>9, <1>10 DEF Whole

-----------------------------------------------------------------------------
(* The walk under way is whole so far, and every finished one is.            *)
WalkWhole ==
  phase = "walking" =>
    \A d, w, rest : d = definition /\ w = walk /\ rest = roots => Whole(d, w, rest)

WholeInv == ReadsInv /\ WalkWhole /\ CompleteIsWhole

LEMMA CompleteKept ==
  ASSUME CompleteIsWhole, FileKept, structure' = structure, shapes' = shapes
  PROVE  CompleteIsWhole'
<1>1. \A d : /\ ItemsAreNoShapes(d, MaxShapeDepth + 2)' <=> ItemsAreNoShapes(d, MaxShapeDepth + 2)
             /\ PlacesItself(d, MaxShapeDepth + 2)' <=> PlacesItself(d, MaxShapeDepth + 2)
             /\ WholeShape(d, MaxShapeDepth + 2)' = WholeShape(d, MaxShapeDepth + 2)
  BY ShapeKept
<1>2. \A d : ListedShape(d)' = ListedShape(d)
  BY DEF ListedShape
<1> QED
  BY <1>1, <1>2 DEF CompleteIsWhole

LEMMA WalkOnWhole ==
  ASSUME FileKept, structure' = structure, definition' = definition, phase' = "walking",
         NEW w, NEW rest, walk' = w, roots' = rest, Whole(definition, w, rest)
  PROVE  WalkWhole'
<1>1. \A d : Whole(d, w, rest)' <=> Whole(d, w, rest)
  BY WholeKept
<1>2. \A d : d = definition' => Whole(d, w, rest)'
  BY <1>1
<1> QED
  BY <1>2 DEF WalkWhole

LEMMA WalkStepsWhole ==
  ASSUME ShapeInv, WholeInv, Root \/ VisitItem \/ VisitUser \/ Return
  PROVE  WalkWhole' /\ CompleteIsWhole'
<1>1. /\ phase = "walking" /\ phase' = "walking" /\ FileKept /\ structure' = structure
      /\ definition' = definition /\ shapes' = shapes
  BY DEF Root, VisitItem, VisitUser, Return, FileKept
<1>2. Own(walk) /\ Whole(definition, walk, roots) /\ ReadsInv /\ phase # "graph"
  BY <1>1 DEF ShapeInv, WalkInv, WholeInv, WalkWhole
<1>3. CompleteIsWhole'
  BY <1>1, CompleteKept DEF WholeInv
<1>4. \E w, rest : walk' = w /\ roots' = rest /\ Whole(definition, w, rest)
  <2>1. CASE Root
    <3>1. walk.frames = << >> /\ roots # << >> /\ roots' = Tail(roots)
          /\ walk' = IF Others(Head(roots)) # {} THEN Refuse(walk, Head(roots), "other_definition")
                     ELSE Visit([walk EXCEPT !.seen = {}], Head(roots), << >>)
      BY <2>1 DEF Root
    <3> QED
      BY <1>2, <3>1, RootWhole
  <2>2. CASE VisitItem
    <3> DEFINE item == Head(Last(walk.frames).items)
               c == Counted(Without(walk, "items"), item)
    <3>1. /\ walk.frames # << >> /\ Last(walk.frames).items # << >> /\ roots' = roots
          /\ walk' = IF c.exhausted THEN c ELSE Item(c, item)
      BY <2>2 DEF VisitItem, Top
    <3>2. Whole(definition, IF c.exhausted THEN c ELSE Item(c, item), roots)
      BY <1>2, <3>1, VisitItemWhole
    <3> HIDE DEF c, item
    <3> QED
      BY <3>1, <3>2
  <2>3. CASE VisitUser
    <3> DEFINE user == Head(Last(walk.frames).users)
               c == Counted(Without(walk, "users"), Last(walk.frames).rep)
    <3>1. /\ walk.frames # << >> /\ Last(walk.frames).users # << >> /\ roots' = roots
          /\ walk' = IF c.exhausted THEN c ELSE Link(c, user)
      BY <2>3 DEF VisitUser, Top
    <3>2. Whole(definition, IF c.exhausted THEN c ELSE Link(c, user), roots)
      BY <1>2, <3>1, VisitUserWhole
    <3> HIDE DEF c, user
    <3> QED
      BY <3>1, <3>2
  <2>4. CASE Return
    <3> DEFINE v == [walk EXCEPT !.frames = Front(@)]
    <3>1. /\ walk.frames # << >> /\ roots' = roots /\ walk' = v
          /\ walk.exhausted \/ (Last(walk.frames).items = << >> /\ Last(walk.frames).users = << >>)
      BY <2>4 DEF Return, Top
    <3>2. Whole(definition, v, roots)
      BY <1>2, <3>1, ReturnWhole
    <3> HIDE DEF v
    <3> QED
      BY <3>1, <3>2
  <2> QED
    BY <2>1, <2>2, <2>3, <2>4
<1>5. WalkWhole'
  <2>1. PICK w : \E rest : walk' = w /\ roots' = rest /\ Whole(definition, w, rest)
    BY <1>4
  <2>2. PICK rest : walk' = w /\ roots' = rest /\ Whole(definition, w, rest)
    BY <2>1
  <2> QED
    BY <1>1, <2>2, WalkOnWhole
<1> QED
  BY <1>3, <1>5

LEMMA BeginStepWhole ==
  ASSUME ShapeInv, WholeInv, Begin
  PROVE  WalkWhole' /\ CompleteIsWhole'
<1>1. /\ phase = "shape" /\ phase' = "walking" /\ FileKept /\ structure' = structure
      /\ definition' = definition /\ shapes' = shapes
      /\ roots' = WithoutRepeats(Shapes(structure, definition))
  BY DEF Begin, FileKept
<1>2. IsSequence(Shapes(structure, definition))
  BY <1>1 DEF ShapeInv, RangeInv, WholeInv, ReadsInv
<1>3. PICK reported : walk' = [NoWalk EXCEPT !.notFollowed = reported]
  BY DEF Begin
<1>4. Whole(definition, [NoWalk EXCEPT !.notFollowed = reported], roots')
  BY <1>1, <1>2, BeginWhole
<1>5. PICK w : walk' = w /\ Whole(definition, w, roots')
  BY <1>3, <1>4
<1>6. PICK rest : roots' = rest /\ Whole(definition, w, rest)
  BY <1>5
<1> QED
  BY <1>1, <1>5, <1>6, WalkOnWhole, CompleteKept DEF WholeInv

LEMMA FinishStepWhole ==
  ASSUME ShapeInv, WholeInv, Finish
  PROVE  WalkWhole' /\ CompleteIsWhole'
<1> DEFINE entry == [listed |-> walk.listed, notFollowed |-> walk.notFollowed]
           N == MaxShapeDepth + 2
<1>1. /\ phase = "walking" /\ phase' # "walking" /\ FileKept /\ structure' = structure
      /\ walk.frames = << >> /\ roots = << >> /\ shapes' = Append(shapes, entry)
  BY DEF Finish, FileKept
<1>2. WalkWhole'
  BY <1>1 DEF WalkWhole
<1>3. Whole(definition, walk, << >>) /\ IsSequence(shapes) /\ Len(shapes) = definition - 1
      /\ definition \in Nat
  BY <1>1 DEF ShapeInv, WalkInv, RangeInv, WholeInv, WalkWhole
<1>4. /\ DOMAIN shapes = 1..definition - 1 /\ DOMAIN shapes' = 1..definition
      /\ \A d \in 1..definition - 1 : shapes'[d] = shapes[d]
      /\ shapes'[definition].listed = walk.listed /\ shapes'[definition].notFollowed = walk.notFollowed
  <2>1. entry.listed = walk.listed /\ entry.notFollowed = walk.notFollowed
    OBVIOUS
  <2> HIDE DEF entry
  <2>2. /\ IsSequence(shapes') /\ Len(shapes') = Len(shapes) + 1
        /\ \A i \in 1..Len(shapes) : shapes'[i] = shapes[i]
        /\ shapes'[Len(shapes) + 1] = entry
    BY <1>1, <1>3, AppendSequence
  <2>3. Len(shapes) + 1 = definition
    BY <1>3
  <2> QED
    BY <1>3, <2>1, <2>2, <2>3, SequenceOf
<1>5. \A d : /\ ItemsAreNoShapes(d, MaxShapeDepth + 2)' <=> ItemsAreNoShapes(d, MaxShapeDepth + 2)
             /\ PlacesItself(d, N)' <=> PlacesItself(d, N)
             /\ WholeShape(d, N)' = WholeShape(d, N)
  BY <1>1, ShapeKept
<1>6. \A d : ListedShape(d)' = TriplesOf(shapes'[d].listed) /\ ListedShape(d) = TriplesOf(shapes[d].listed)
  BY DEF ListedShape, TriplesOf
<1>7. ASSUME NEW d \in 1..definition, shapes'[d].notFollowed = {}, ItemsAreNoShapes(d, MaxShapeDepth + 2), ~PlacesItself(d, N)
      PROVE  /\ TriplesOf(shapes'[d].listed) = WholeShape(d, N)
             /\ Len(shapes'[d].listed) = Cardinality(TriplesOf(shapes'[d].listed))
  <2>1. CASE d = definition
    <3>1. Clean(d, walk)
      BY <1>4, <1>7, <2>1 DEF Clean
    <3>2. /\ TriplesOf(walk.listed) = WholeShape(d, N)
          /\ Len(walk.listed) = Cardinality(TriplesOf(walk.listed))
      BY <1>1, <1>3, <2>1, <3>1, FinishWhole
    <3> QED
      BY <1>4, <2>1, <3>2
  <2>2. CASE d # definition
    <3>1. d \in DOMAIN shapes /\ shapes'[d] = shapes[d]
      BY <1>3, <1>4, <2>2
    <3> QED
      BY <1>6, <1>7, <3>1 DEF WholeInv, CompleteIsWhole
  <2> QED
    BY <2>1, <2>2
<1>8. CompleteIsWhole'
  <2>1. ASSUME NEW d \in DOMAIN shapes', shapes'[d].notFollowed = {}, ItemsAreNoShapes(d, MaxShapeDepth + 2)', ~PlacesItself(d, N)'
        PROVE  /\ ListedShape(d)' = WholeShape(d, N)'
               /\ Len(shapes'[d].listed) = Cardinality(ListedShape(d)')
    BY <1>4, <1>5, <1>6, <1>7, <2>1
  <2> QED
    BY <2>1 DEF CompleteIsWhole
<1> QED
  BY <1>2, <1>8

LEMMA WholeInvInit == Init => WholeInv
<1> SUFFICES ASSUME Init PROVE WholeInv
  OBVIOUS
<1>1. DOMAIN shapes = {} /\ phase = "graph"
  BY DEF Init
<1> QED
  BY <1>1, ReadsInit DEF WholeInv, WalkWhole, CompleteIsWhole

LEMMA WholeInvStep == ShapeInv /\ WholeInv /\ [Next]_vars => WholeInv'
<1> SUFFICES ASSUME ShapeInv, WholeInv, [Next]_vars PROVE WholeInv'
  OBVIOUS
<1>1. ReadsInv'
  BY ReadsStep DEF WholeInv
<1>2. CASE BuildGraph \/ BuildStructure
  <2>1. shapes' = shapes /\ phase' # "walking"
    <3>1. phase' # "walking"
      BY <1>2 DEF BuildGraph, BuildStructure
    <3> QED
      BY <1>2, <3>1 DEF BuildGraph, BuildStructure
  <2>2. DOMAIN shapes = {}
    <3>1. phase \in {"graph", "structure"}
      BY <1>2 DEF BuildGraph, BuildStructure
    <3>2. IsSequence(shapes) /\ Len(shapes) = 0
      BY <3>1 DEF ShapeInv, WalkInv
    <3> QED
      BY <3>2, SequenceOf
  <2> QED
    BY <1>1, <2>1, <2>2 DEF WholeInv, WalkWhole, CompleteIsWhole
<1>3. CASE BeginIndex \/ IndexNext \/ \E rep \in pending : Index(rep)
  <2>1. FileKept /\ structure' = structure /\ shapes' = shapes /\ phase' # "walking"
    BY <1>3 DEF BeginIndex, IndexNext, Index, FileKept
  <2>2. CompleteIsWhole'
    BY <2>1, CompleteKept DEF WholeInv
  <2> QED
    BY <1>1, <2>1, <2>2 DEF WholeInv, WalkWhole
<1>4. CASE Begin
  BY <1>1, <1>4, BeginStepWhole DEF WholeInv
<1>5. CASE Root \/ VisitItem \/ VisitUser \/ Return
  BY <1>1, <1>5, WalkStepsWhole DEF WholeInv
<1>6. CASE Finish
  BY <1>1, <1>6, FinishStepWhole DEF WholeInv
<1>7. CASE UNCHANGED vars
  <2>1. /\ FileKept /\ structure' = structure /\ shapes' = shapes /\ phase' = phase
        /\ definition' = definition /\ walk' = walk /\ roots' = roots
    BY <1>7 DEF vars, FileKept
  <2>2. CompleteIsWhole'
    BY <2>1, CompleteKept DEF WholeInv
  <2>3. WalkWhole'
    <3>1. \A d, w, rest : Whole(d, w, rest)' <=> Whole(d, w, rest)
      BY <2>1, WholeKept
    <3> QED
      BY <2>1, <3>1 DEF WholeInv, WalkWhole
  <2> QED
    BY <1>1, <2>2, <2>3 DEF WholeInv
<1> QED
  BY <1>2, <1>3, <1>4, <1>5, <1>6, <1>7 DEF Next

(* A shape that reports nothing it did not follow is the whole shape: what    *)
(* the limits, the refusals and the set of what has been seen of the walks   *)
(* of shape.rs leave out, they report.                                      *)
THEOREM NothingLostInSilence == Spec => []CompleteIsWhole
<1>1. Init => WholeInv
  BY WholeInvInit
<1>2. ShapeInv /\ WholeInv /\ [Next]_vars => WholeInv'
  BY WholeInvStep
<1>3. WholeInv => CompleteIsWhole
  BY DEF WholeInv
<1> QED
  BY <1>1, <1>2, <1>3, ShapeInvHolds, PTL DEF Spec
====
