--------------------------- MODULE PlacementsProofs ---------------------------
(***************************************************************************)
(* What the run of MCPlacements shows for files of up to four usages, for   *)
(* any file and any depth limit.  What the file states of its usages        *)
(* matters only through what ReadUsage returns.                            *)
(***************************************************************************)
EXTENDS Placements, SequenceLemmas

AtMostOne(S) == \A x, y \in S : x = y

(* What is read of a usage: a result, and at most one pair of sides.        *)
IsReading(r) == DOMAIN r = {"sides", "result"} /\ AtMostOne(r.sides)

LEMMA NoSidesReading ==
  ASSUME NEW outcome
  PROVE  IsReading(NoSides(outcome))
BY DEF NoSides, IsReading, AtMostOne

LEMMA OneOfSides ==
  ASSUME NEW relation, NEW component, NEW assembly,
         Cardinality(SidesNamed(relation, component, assembly)) = 1
  PROVE  AtMostOne(SidesNamed(relation, component, assembly))
<1> DEFINE a == [component |-> relation.first, assembly |-> relation.second]
           b == [component |-> relation.second, assembly |-> relation.first]
           named == SidesNamed(relation, component, assembly)
<1>1. named \subseteq {a, b}
  BY DEF SidesNamed
<1>2. IsFiniteSet({a, b})
  <2> HIDE DEF a, b
  <2>1. IsFiniteSet({a}) /\ {a, b} = {a} \cup {b}
    BY FS_Singleton
  <2> QED
    BY <2>1, FS_AddElement
<1>3. IsFiniteSet(named)
  <2> HIDE DEF a, b, named
  <2> QED
    BY <1>1, <1>2, FS_Subset
<1> HIDE DEF named
<1>4. PICK x : named = {x}
  BY <1>3, FS_Singleton DEF named
<1> QED
  BY <1>4 DEF AtMostOne, named

LEMMA RelationshipReading ==
  ASSUME NEW usage, NEW id, NEW component, NEW assembly
  PROVE  IsReading(ThroughRelationship(usage, id, component, assembly))
<1> DEFINE relation == ReadRelationship(id)
           named == SidesNamed(relation.value, component, assembly)
<1>1. CASE Len(ContextDependent(usage)) > 1
  BY <1>1, NoSidesReading DEF ThroughRelationship
<1>2. CASE ~(Len(ContextDependent(usage)) > 1) /\ ~relation.ok
  BY <1>2, NoSidesReading DEF ThroughRelationship, OrNoSides
<1>3. CASE ~(Len(ContextDependent(usage)) > 1) /\ relation.ok /\ Cardinality(named) # 1
  BY <1>3, NoSidesReading DEF ThroughRelationship, OrNoSides, Between
<1>4. CASE ~(Len(ContextDependent(usage)) > 1) /\ relation.ok /\ Cardinality(named) = 1
  <2>1. AtMostOne(named)
    BY <1>4, OneOfSides
  <2>2. PICK result : ThroughRelationship(usage, id, component, assembly)
                        = [sides |-> named, result |-> result]
    BY <1>4 DEF ThroughRelationship, OrNoSides, Between
  <2> QED
    BY <2>1, <2>2 DEF IsReading
<1> QED
  BY <1>1, <1>2, <1>3, <1>4

LEMMA MappedItemReading ==
  ASSUME NEW item, NEW component, NEW assembly
  PROVE  IsReading(ThroughMappedItem(item, component, assembly))
<1> DEFINE ends == MapAndTarget(item)
           holder == Holder(item, assembly)
           map == OriginAndMapped(item, ends.value.map, component)
<1>1. CASE ~ends.ok
  BY <1>1, NoSidesReading DEF ThroughMappedItem, OrNoSides
<1>2. CASE ends.ok /\ ~holder.ok
  BY <1>2, NoSidesReading DEF ThroughMappedItem, OrNoSides
<1>3. CASE ends.ok /\ holder.ok /\ ~map.ok
  BY <1>3, NoSidesReading DEF ThroughMappedItem, OrNoSides
<1>4. CASE ends.ok /\ holder.ok /\ map.ok
  <2>1. PICK result : ThroughMappedItem(item, component, assembly)
                        = [sides |-> {[component |-> map.value.mapped, assembly |-> holder.value]},
                           result |-> result]
    BY <1>4 DEF ThroughMappedItem, OrNoSides
  <2> QED
    BY <2>1 DEF IsReading, AtMostOne
<1> QED
  BY <1>1, <1>2, <1>3, <1>4

LEMMA UsageReading ==
  ASSUME NEW s, NEW k
  PROVE  IsReading(ReadUsage(s, k))
<1> DEFINE usage == s.usages[k]
           placement == CHOOSE p \in usage.placement : TRUE
           read == IF usage.placement = {} THEN NoSides(Failed("Unplaced", usage.instance))
                   ELSE IF placement.kind = "relationship"
                   THEN ThroughRelationship(usage.instance, placement.relationship,
                                            Shapes(s, usage.child), Shapes(s, usage.parent))
                   ELSE ThroughMappedItem(placement.item, Shapes(s, usage.child), Shapes(s, usage.parent))
<1>1. IsReading(read)
  <2> HIDE DEF placement, usage
  <2> QED
    BY NoSidesReading, RelationshipReading, MappedItemReading
<1>2. ReadUsage(s, k) = IF OneOccurrence(usage) THEN read
                        ELSE [read EXCEPT !.result = Failed("Quantified", usage.instance)]
  BY DEF ReadUsage
<1> HIDE DEF read, usage
<1> QED
  BY <1>1, <1>2 DEF IsReading

LEMMA SharedReading ==
  ASSUME NEW s, NEW r, \A k \in DOMAIN r : IsReading(r[k])
  PROVE  /\ DOMAIN RefuseShared(s, r) = DOMAIN r
         /\ RefuseShared(s, r) = [k \in DOMAIN r |-> RefuseShared(s, r)[k]]
         /\ \A k \in DOMAIN r : IsReading(RefuseShared(s, r)[k])
<1> DEFINE refused(k) == [r[k] EXCEPT !.result =
                            Inconsistent(CHOOSE i \in ClaimedItem(s.usages[k]) : TRUE)]
<1>1. \A k \in DOMAIN r : RefuseShared(s, r)[k] \in {refused(k), r[k]}
  BY DEF RefuseShared
<1>2. \A k \in DOMAIN r : IsReading(refused(k))
  BY DEF IsReading
<1>3. DOMAIN RefuseShared(s, r) = DOMAIN r
  BY DEF RefuseShared
<1>4. RefuseShared(s, r) = [k \in DOMAIN r |-> RefuseShared(s, r)[k]]
  BY DEF RefuseShared
<1> QED
  BY <1>1, <1>2, <1>3, <1>4

-----------------------------------------------------------------------------
FileInv == DOMAIN file \subseteq Nat /\ IsFiniteSet(DOMAIN file)

LEMMA StructureSequence ==
  ASSUME FileInv
  PROVE  IsSequence(StructureOfFile.usages)
<1> DEFINE S == {id \in DOMAIN file : HasAny(id, UsageEntities) /\ Ends(id) # {}}
           c == Cardinality(S)
           definitions == Definitions(DefinitionNodes(UsageNodes))
           read == [k \in DOMAIN UsageNodes |-> UsageOf(definitions, UsageNodes[k])]
           usages == StructureOfFile.usages
<1>1. S \subseteq Nat /\ IsFiniteSet(S)
  <2>1. S \subseteq DOMAIN file
    OBVIOUS
  <2> HIDE DEF S
  <2> QED
    BY <2>1, FS_Subset DEF FileInv
<1>2. c \in Nat /\ DOMAIN InOrder(S) = 1..c
  <2> HIDE DEF S
  <2> QED
    BY <1>1, InOrderLists
<1>3. DOMAIN read = 1..c
  <2>1. UsageNodes = InOrder(S)
    BY DEF UsageNodes
  <2> HIDE DEF S, c, definitions
  <2> QED
    BY <1>2, <2>1
<1>4. usages = Matched(definitions, read)
  BY DEF StructureOfFile
<1> HIDE DEF S, c, definitions, read, usages
<1>5. DOMAIN usages = DOMAIN read /\ usages = [k \in DOMAIN read |-> usages[k]]
  BY <1>4 DEF Matched
<1>6. IsSequence(usages)
  BY <1>2, <1>3, <1>5, BuiltSequence
<1> QED
  BY <1>6 DEF usages

(* The usages of a definition, each once and in the order of the file.      *)
LEMMA UsagesInOrder ==
  ASSUME IsSequence(structure.usages), NEW d
  PROVE  LET uses == ChildUsages(structure, d)
         IN  /\ \E c \in Nat : DOMAIN uses = 1..c
             /\ \A j \in DOMAIN uses : uses[j] \in UsagesOf(d)
             /\ \A k \in UsagesOf(d) : \E j \in DOMAIN uses : uses[j] = k
             /\ \A i, j \in DOMAIN uses : i < j => uses[i] < uses[j]
<1> DEFINE S == UsagesOf(d)
           uses == ChildUsages(structure, d)
           c == Cardinality(S)
<1>1. S \subseteq Nat /\ IsFiniteSet(S)
  <2>1. PICK n \in Nat : DOMAIN structure.usages = 1..n
    BY SequenceOf
  <2>2. IsFiniteSet(1..n)
    BY <2>1, FS_Interval
  <2>3. S \subseteq 1..n
    BY <2>1 DEF UsagesOf
  <2>4. S \subseteq Nat
    BY <2>3
  <2> HIDE DEF S
  <2>5. IsFiniteSet(S)
    BY <2>2, <2>3, FS_Subset
  <2> QED
    BY <2>4, <2>5
<1>2. uses = InOrder(S)
  BY DEF ChildUsages, UsagesOf
<1> HIDE DEF S, uses
<1>3. /\ c \in Nat /\ DOMAIN uses = 1..c
      /\ \A j \in 1..c : uses[j] \in S /\ Rank(uses[j], S) = j
      /\ \A k \in S : Rank(k, S) \in 1..c /\ uses[Rank(k, S)] = k
  BY <1>1, <1>2, InOrderLists
<1> HIDE DEF c
<1>4. ASSUME NEW i \in 1..c, NEW j \in 1..c, i < j
      PROVE  uses[i] < uses[j]
  <2>1. /\ uses[i] \in S /\ Rank(uses[i], S) = i
        /\ uses[j] \in S /\ Rank(uses[j], S) = j
    BY <1>3
  <2>2. Rank(uses[i], S) < Rank(uses[j], S) <=> uses[i] < uses[j]
    BY <1>1, <2>1, RankIncreases
  <2> QED
    BY <1>4, <2>1, <2>2
<1> QED
  BY <1>3, <1>4 DEF S, uses

-----------------------------------------------------------------------------
(* The inductive invariant, first the shape of the walk: the levels are the  *)
(* definitions along the path, and each but the last is at the usage the    *)
(* path takes from it.                                                     *)
ReadsInv ==
  /\ IsSequence(structure.usages)
  /\ IsSequence(reads) /\ \A k \in DOMAIN reads : IsReading(reads[k])
  /\ pc \in {"graph", "structure"} => reads = << >>
  /\ pc \in {"placed", "walking", "done"} => Len(reads) = Len(structure.usages)

IsLevel(level) ==
  /\ DOMAIN level = {"definition", "transform", "space", "next"}
  /\ level.next \in Nat \ {0}

TakenFrom(level, usage) ==
  LET uses == ChildUsages(structure, level.definition)
  IN  level.next - 1 \in DOMAIN uses /\ usage = uses[level.next - 1]

StackInv ==
  /\ IsSequence(stack) /\ IsSequence(path)
  /\ Len(stack) = 0 => Len(path) = 0
  /\ Len(stack) # 0 => Len(stack) = Len(path) + 1
  /\ \A i \in 1..Len(stack) : IsLevel(stack[i])
  /\ Len(stack) # 0 => stack[1].definition = root
  /\ \A i \in 1..Len(path) : /\ stack[i + 1].definition = Child(path[i])
                             /\ TakenFrom(stack[i], path[i])

ListedInv == IsSequence(listed) /\ \A i \in DOMAIN listed : IsSequence(listed[i].path)

NotBegun == stack = << >> /\ path = << >> /\ listed = << >>

WalkInv ==
  /\ FileInv /\ ReadsInv /\ StackInv /\ ListedInv
  /\ pc \in {"graph", "structure", "usages", "placed", "walking", "done"}
  /\ pc \notin {"walking", "done"} => NotBegun

LEMMA TopLevel ==
  ASSUME StackInv, stack # << >>
  PROVE  \E n \in Nat : /\ n # 0 /\ Len(stack) = n /\ Len(path) = n - 1
                        /\ DOMAIN stack = 1..n /\ DOMAIN path = 1..n - 1
                        /\ Top = stack[n] /\ IsLevel(Top)
<1>1. PICK n \in Nat : n = Len(stack)
  BY SequenceOf DEF StackInv
<1>2. n # 0
  <2> SUFFICES ASSUME n = 0
               PROVE  stack = << >>
    OBVIOUS
  <2>1. stack = [i \in 1..0 |-> stack[i]]
    BY <1>1 DEF StackInv, IsSequence
  <2>2. 1..0 = {}
    OBVIOUS
  <2> QED
    BY <2>1, <2>2
<1>3. PICK m \in Nat : m = Len(path)
  BY SequenceOf DEF StackInv
<1>4. m = n - 1
  BY <1>1, <1>2, <1>3 DEF StackInv
<1>5. DOMAIN stack = 1..n /\ DOMAIN path = 1..n - 1
  BY <1>1, <1>3, <1>4, SequenceOf DEF StackInv
<1>6. Top = stack[n]
  BY <1>1 DEF Top, Last
<1>7. n \in 1..n
  BY <1>2
<1> QED
  BY <1>1, <1>2, <1>3, <1>4, <1>5, <1>6, <1>7 DEF StackInv

-----------------------------------------------------------------------------
(* What a visit does, by name.                                              *)
Next1 == TopUsages[Top.next]
Below == Append(path, Next1)
RefusedNow == Refusal(structure.usages[Next1], Below)
NewTransform == IF RefusedNow # {} THEN CHOOSE r \in RefusedNow : TRUE
                ELSE ComposeUsage(Top.transform, Top.space, reads[Next1])
Components == {sides.component : sides \in reads[Next1].sides}
NewSpace == IF Components = {} THEN Unknown ELSE Of(CHOOSE r \in Components : TRUE)

SameElsewhere(s, t, n) ==
  /\ IsSequence(t) /\ Len(t) >= n
  /\ \A i \in 1..n - 1 : t[i] = s[i]
  /\ DOMAIN t[n] = DOMAIN s[n] /\ t[n].definition = s[n].definition
  /\ t[n].transform = s[n].transform /\ t[n].space = s[n].space
  /\ t[n].next = s[n].next + 1

LEMMA VisitFacts ==
  ASSUME WalkInv, Visit, NEW n \in Nat, n # 0, Len(stack) = n
  PROVE  /\ Len(path) = n - 1 /\ DOMAIN path = 1..n - 1 /\ DOMAIN stack = 1..n /\ Top = stack[n]
         /\ Top.next \in DOMAIN TopUsages /\ Next1 \in UsagesOf(Top.definition)
         /\ IsSequence(Below) /\ Len(Below) = n /\ DOMAIN Below = 1..n /\ Below[n] = Next1
         /\ \A i \in 1..n - 1 : Below[i] = path[i]
         /\ listed' = Append(listed, Occurrence(Below, Child(Next1), Components, NewTransform))
         /\ SameElsewhere(stack, stack', n)
         /\ RefusedNow = {} => /\ Len(stack') = n + 1 /\ path' = Below
                               /\ stack'[n + 1] = Level(Child(Next1), NewTransform, NewSpace)
         /\ RefusedNow # {} => Len(stack') = n /\ path' = path
         /\ UNCHANGED <<file, users, structure, reads, pc, root>>
<1>1. /\ Len(path) = n - 1 /\ DOMAIN path = 1..n - 1 /\ DOMAIN stack = 1..n /\ Top = stack[n]
      /\ IsLevel(Top) /\ IsSequence(path) /\ IsSequence(stack)
  <2>1. stack # << >> /\ StackInv
    BY DEF Visit, WalkInv
  <2> QED
    BY <2>1, TopLevel DEF StackInv
<1>2. Top.next \in DOMAIN TopUsages /\ Next1 \in UsagesOf(Top.definition)
  <2>1. Top.next \in DOMAIN TopUsages
    BY DEF Visit
  <2>2. IsSequence(structure.usages)
    BY DEF WalkInv, ReadsInv
  <2> QED
    BY <2>1, <2>2, UsagesInOrder DEF TopUsages, Next1
<1>3. /\ IsSequence(Below) /\ Len(Below) = n /\ DOMAIN Below = 1..n /\ Below[n] = Next1
      /\ \A i \in 1..n - 1 : Below[i] = path[i]
  <2>1. /\ IsSequence(Below) /\ Len(Below) = Len(path) + 1
        /\ \A i \in 1..Len(path) : Below[i] = path[i]
        /\ Below[Len(path) + 1] = Next1
    BY <1>1, AppendSequence DEF Below
  <2>2. Len(path) + 1 = n
    BY <1>1
  <2> QED
    BY <1>1, <2>1, <2>2, SequenceOf
<1> DEFINE rest == [stack EXCEPT ![Len(stack)].next = @ + 1]
           level == Level(Child(Next1), NewTransform, NewSpace)
<1>4. /\ listed' = Append(listed, Occurrence(Below, Child(Next1), Components, NewTransform))
      /\ stack' = IF RefusedNow = {} THEN Append(rest, level) ELSE rest
      /\ path' = IF RefusedNow = {} THEN Below ELSE path
      /\ UNCHANGED <<file, users, structure, reads, pc, root>>
  BY DEF Visit, Next1, Below, RefusedNow, NewTransform, Components, NewSpace, Child
<1>5. /\ DOMAIN rest = 1..n /\ rest = [i \in 1..n |-> rest[i]]
      /\ \A i \in 1..n - 1 : rest[i] = stack[i]
      /\ DOMAIN rest[n] = DOMAIN stack[n] /\ rest[n].definition = stack[n].definition
      /\ rest[n].transform = stack[n].transform /\ rest[n].space = stack[n].space
      /\ rest[n].next = stack[n].next + 1
  <2>1. rest = [i \in 1..n |-> IF i = n THEN [stack[n] EXCEPT !.next = @ + 1] ELSE stack[i]]
    BY <1>1
  <2>2. n \in 1..n /\ \A i \in 1..n - 1 : i \in 1..n /\ i # n
    OBVIOUS
  <2>3. DOMAIN stack[n] = {"definition", "transform", "space", "next"}
    BY <1>1 DEF IsLevel
  <2> HIDE DEF rest
  <2>4. rest[n] = [stack[n] EXCEPT !.next = @ + 1] /\ \A i \in 1..n - 1 : rest[i] = stack[i]
    BY <2>1, <2>2
  <2>5. DOMAIN rest = 1..n /\ rest = [i \in 1..n |-> rest[i]]
    BY <2>1
  <2> QED
    BY <2>3, <2>4, <2>5
<1> HIDE DEF rest, level
<1>6. IsSequence(rest) /\ Len(rest) = n
  BY <1>5, BuiltSequence
<1>7. CASE RefusedNow = {}
  <2>1. stack' = Append(rest, level)
    BY <1>4, <1>7
  <2>2. /\ IsSequence(stack') /\ Len(stack') = n + 1 /\ stack'[n + 1] = level
        /\ \A i \in 1..n : stack'[i] = rest[i]
    BY <1>6, <2>1, AppendSequence
  <2>3. n \in 1..n /\ \A i \in 1..n - 1 : i \in 1..n
    OBVIOUS
  <2>4. SameElsewhere(stack, stack', n)
    <3>1. Len(stack') >= n
      BY <2>2
    <3>2. stack'[n] = rest[n] /\ \A i \in 1..n - 1 : stack'[i] = rest[i]
      BY <2>2, <2>3
    <3> QED
      BY <1>5, <2>2, <3>1, <3>2 DEF SameElsewhere
  <2> QED
    BY <1>1, <1>2, <1>3, <1>4, <1>7, <2>2, <2>4 DEF level
<1>8. CASE RefusedNow # {}
  <2>1. stack' = rest
    BY <1>4, <1>8
  <2>2. SameElsewhere(stack, stack', n)
    <3>1. Len(stack') >= n /\ IsSequence(stack')
      BY <1>6, <2>1
    <3> QED
      BY <1>5, <2>1, <3>1 DEF SameElsewhere
  <2> QED
    BY <1>1, <1>2, <1>3, <1>4, <1>6, <1>8, <2>1, <2>2
<1> QED
  BY <1>7, <1>8

LEMMA PopFacts ==
  ASSUME WalkInv, Pop, NEW n \in Nat, n # 0, Len(stack) = n
  PROVE  /\ Len(path) = n - 1 /\ DOMAIN path = 1..n - 1 /\ DOMAIN stack = 1..n /\ Top = stack[n]
         /\ Top.next \notin DOMAIN TopUsages
         /\ IsSequence(stack') /\ Len(stack') = n - 1 /\ \A i \in 1..n - 1 : stack'[i] = stack[i]
         /\ IsSequence(path') /\ Len(path') = (IF n = 1 THEN 0 ELSE n - 2)
         /\ \A i \in 1..n - 2 : path'[i] = path[i]
         /\ UNCHANGED <<file, users, structure, reads, pc, root, listed>>
<1>1. /\ Len(path) = n - 1 /\ DOMAIN path = 1..n - 1 /\ DOMAIN stack = 1..n /\ Top = stack[n]
      /\ IsSequence(path) /\ IsSequence(stack)
  <2>1. stack # << >> /\ StackInv
    BY DEF Pop, WalkInv
  <2> QED
    BY <2>1, TopLevel DEF StackInv
<1>2. /\ stack' = Front(stack) /\ Top.next \notin DOMAIN TopUsages
      /\ path' = IF n > 1 THEN Front(path) ELSE path
      /\ UNCHANGED <<file, users, structure, reads, pc, root, listed>>
  BY DEF Pop
<1>3. IsSequence(stack') /\ Len(stack') = n - 1 /\ \A i \in 1..n - 1 : stack'[i] = stack[i]
  BY <1>1, <1>2, FrontSequence
<1>4. /\ IsSequence(path') /\ Len(path') = (IF n = 1 THEN 0 ELSE n - 2)
      /\ \A i \in 1..n - 2 : path'[i] = path[i]
  <2>1. CASE n = 1
    <3>1. 1..n - 2 = {} /\ path' = path
      BY <1>2, <2>1
    <3> QED
      BY <1>1, <2>1, <3>1
  <2>2. CASE n # 1
    <3>1. path' = Front(path) /\ Len(path) # 0 /\ Len(path) - 1 = n - 2
      BY <1>1, <1>2, <2>2
    <3> QED
      BY <1>1, <2>2, <3>1, FrontSequence
  <2> QED
    BY <2>1, <2>2
<1> QED
  BY <1>1, <1>2, <1>3, <1>4

LEMMA StackInvVisit ==
  ASSUME WalkInv, Visit
  PROVE  StackInv'
<1>1. PICK n \in Nat : n # 0 /\ Len(stack) = n
  <2>1. stack # << >> /\ StackInv
    BY DEF Visit, WalkInv
  <2> QED
    BY <2>1, TopLevel
<1>2. /\ Len(path) = n - 1 /\ DOMAIN path = 1..n - 1 /\ DOMAIN stack = 1..n /\ Top = stack[n]
      /\ Top.next \in DOMAIN TopUsages
      /\ IsSequence(Below) /\ Len(Below) = n /\ Below[n] = Next1
      /\ \A i \in 1..n - 1 : Below[i] = path[i]
      /\ SameElsewhere(stack, stack', n)
      /\ RefusedNow = {} => /\ Len(stack') = n + 1 /\ path' = Below
                            /\ stack'[n + 1] = Level(Child(Next1), NewTransform, NewSpace)
      /\ RefusedNow # {} => Len(stack') = n /\ path' = path
      /\ UNCHANGED <<structure, root>>
  BY <1>1, VisitFacts
<1>3. /\ IsSequence(stack') /\ \A i \in 1..n - 1 : stack'[i] = stack[i]
      /\ stack'[n].definition = stack[n].definition /\ stack'[n].next = stack[n].next + 1
      /\ DOMAIN stack'[n] = DOMAIN stack[n]
  BY <1>2 DEF SameElsewhere
<1>4. /\ IsSequence(path) /\ \A i \in 1..n : IsLevel(stack[i])
      /\ stack[1].definition = root
      /\ \A i \in 1..n - 1 : stack[i + 1].definition = Child(path[i]) /\ TakenFrom(stack[i], path[i])
  BY <1>1, <1>2 DEF WalkInv, StackInv
<1>5. n \in 1..n /\ (n # 1 => 1 \in 1..n - 1)
  BY <1>1
<1>6. stack'[1].definition = root /\ \A i \in 1..n : IsLevel(stack'[i])
  <2>1. IsLevel(stack'[n])
    BY <1>3, <1>4, <1>5 DEF IsLevel
  <2>2. \A i \in 1..n - 1 : IsLevel(stack'[i])
    BY <1>3, <1>4
  <2> QED
    BY <1>3, <1>4, <1>5, <2>1, <2>2
<1>7. \A i \in 1..n - 1 : stack'[i + 1].definition = Child(path[i]) /\ TakenFrom(stack'[i], path[i])
  <2> TAKE i \in 1..n - 1
  <2>1. i + 1 = n \/ i + 1 \in 1..n - 1
    BY <1>1
  <2> QED
    BY <1>3, <1>4, <2>1
<1>8. \A k : Child(k)' = Child(k)
  BY <1>2 DEF Child
<1>9. \A level, k : TakenFrom(level, k)' = TakenFrom(level, k)
  BY <1>2 DEF TakenFrom, ChildUsages
<1>10. CASE RefusedNow = {}
  <2>1. Len(stack') = n + 1 /\ path' = Below /\ stack'[n + 1] = Level(Child(Next1), NewTransform, NewSpace)
    BY <1>2, <1>10
  <2>2. stack'[n + 1].definition = Child(Next1) /\ IsLevel(stack'[n + 1])
    BY <2>1 DEF Level, IsLevel
  <2>3. TakenFrom(stack'[n], Next1)
    <3>1. stack[n].next \in Nat
      BY <1>4, <1>5 DEF IsLevel
    <3>2. stack'[n].next - 1 = Top.next
      BY <1>2, <1>3, <3>1
    <3> QED
      BY <1>2, <1>3, <3>2 DEF TakenFrom, TopUsages, Next1
  <2>4. \A i \in 1..n + 1 : IsLevel(stack'[i])
    <3> TAKE i \in 1..n + 1
    <3>1. i = n + 1 \/ i \in 1..n
      BY <1>1
    <3> QED
      BY <1>6, <2>2, <3>1
  <2>5. \A i \in 1..n : stack'[i + 1].definition = Child(Below[i]) /\ TakenFrom(stack'[i], Below[i])
    <3> TAKE i \in 1..n
    <3>1. i = n \/ i \in 1..n - 1
      BY <1>1
    <3> QED
      BY <1>2, <1>7, <2>2, <2>3, <3>1
  <2>6. Len(path') = n /\ Len(stack') = Len(path') + 1 /\ Len(stack') # 0
    BY <1>2, <2>1
  <2>7. /\ \A i \in 1..Len(stack') : IsLevel(stack'[i])
        /\ \A i \in 1..Len(path') : /\ stack'[i + 1].definition = Child(path'[i])
                                    /\ TakenFrom(stack'[i], path'[i])
    BY <2>1, <2>4, <2>5, <2>6
  <2> QED
    BY <1>2, <1>3, <1>6, <1>8, <1>9, <2>1, <2>6, <2>7 DEF StackInv
<1>11. CASE RefusedNow # {}
  <2>1. Len(stack') = n /\ path' = path
    BY <1>2, <1>11
  <2>2. Len(stack') = Len(path') + 1 /\ Len(stack') # 0 /\ Len(path') = n - 1
    BY <1>1, <1>2, <2>1
  <2>3. /\ \A i \in 1..Len(stack') : IsLevel(stack'[i])
        /\ \A i \in 1..Len(path') : /\ stack'[i + 1].definition = Child(path'[i])
                                    /\ TakenFrom(stack'[i], path'[i])
    BY <1>6, <1>7, <2>1, <2>2
  <2> QED
    BY <1>2, <1>3, <1>4, <1>6, <1>8, <1>9, <2>1, <2>2, <2>3 DEF StackInv
<1> QED
  BY <1>10, <1>11

LEMMA StackInvPop ==
  ASSUME WalkInv, Pop
  PROVE  StackInv'
<1>1. PICK n \in Nat : n # 0 /\ Len(stack) = n
  <2>1. stack # << >> /\ StackInv
    BY DEF Pop, WalkInv
  <2> QED
    BY <2>1, TopLevel
<1>2. /\ Len(path) = n - 1
      /\ IsSequence(stack') /\ Len(stack') = n - 1 /\ \A i \in 1..n - 1 : stack'[i] = stack[i]
      /\ IsSequence(path') /\ Len(path') = (IF n = 1 THEN 0 ELSE n - 2)
      /\ \A i \in 1..n - 2 : path'[i] = path[i]
      /\ UNCHANGED <<structure, root>>
  BY <1>1, PopFacts
<1>3. /\ \A i \in 1..n : IsLevel(stack[i])
      /\ stack[1].definition = root
      /\ \A i \in 1..n - 1 : stack[i + 1].definition = Child(path[i]) /\ TakenFrom(stack[i], path[i])
  BY <1>1, <1>2 DEF WalkInv, StackInv
<1>4. \A k : Child(k)' = Child(k)
  BY <1>2 DEF Child
<1>5. \A level, k : TakenFrom(level, k)' = TakenFrom(level, k)
  BY <1>2 DEF TakenFrom, ChildUsages
<1>6. \A i \in 1..n - 1 : IsLevel(stack'[i])
  BY <1>2, <1>3
<1>7. \A i \in 1..n - 2 : stack'[i + 1].definition = Child(path'[i]) /\ TakenFrom(stack'[i], path'[i])
  <2> TAKE i \in 1..n - 2
  <2>1. i \in 1..n - 1 /\ i + 1 \in 1..n - 1
    BY <1>1
  <2> QED
    BY <1>2, <1>3, <2>1
<1>8. CASE n = 1
  <2>1. Len(stack') = 0 /\ Len(path') = 0 /\ 1..0 = {}
    BY <1>2, <1>8
  <2> QED
    BY <1>2, <2>1 DEF StackInv
<1>9. CASE n # 1
  <2>1. Len(stack') = n - 1 /\ Len(path') = n - 2 /\ Len(stack') = Len(path') + 1 /\ Len(stack') # 0
    BY <1>1, <1>2, <1>9
  <2>2. stack'[1].definition = root
    <3>1. 1 \in 1..n - 1
      BY <1>1, <1>9
    <3> QED
      BY <1>2, <1>3, <3>1
  <2>3. /\ \A i \in 1..Len(stack') : IsLevel(stack'[i])
        /\ \A i \in 1..Len(path') : /\ stack'[i + 1].definition = Child(path'[i])
                                    /\ TakenFrom(stack'[i], path'[i])
    BY <1>6, <1>7, <2>1
  <2> QED
    BY <1>2, <1>4, <1>5, <2>1, <2>2, <2>3 DEF StackInv
<1> QED
  BY <1>8, <1>9

LEMMA ListedGrows ==
  ASSUME ListedInv, NEW e, IsSequence(e.path), listed' = Append(listed, e)
  PROVE  /\ ListedInv' /\ Len(listed') = Len(listed) + 1 /\ Len(listed) \in Nat
         /\ DOMAIN listed' = 1..Len(listed) + 1 /\ DOMAIN listed = 1..Len(listed)
         /\ listed'[Len(listed) + 1] = e /\ \A i \in DOMAIN listed : listed'[i] = listed[i]
<1>1. PICK m \in Nat : m = Len(listed) /\ DOMAIN listed = 1..m
  BY SequenceOf DEF ListedInv
<1>2. /\ IsSequence(listed') /\ Len(listed') = m + 1
      /\ \A i \in 1..m : listed'[i] = listed[i]
      /\ listed'[m + 1] = e
  BY <1>1, AppendSequence DEF ListedInv
<1>3. DOMAIN listed' = 1..m + 1
  BY <1>2, SequenceOf
<1>4. \A i \in 1..m + 1 : IsSequence(listed'[i].path)
  <2> TAKE i \in 1..m + 1
  <2>1. i = m + 1 \/ i \in 1..m
    BY <1>1
  <2> QED
    BY <1>1, <1>2, <2>1 DEF ListedInv
<1> QED
  BY <1>1, <1>2, <1>3, <1>4 DEF ListedInv

LEMMA ReadsInvStep ==
  ASSUME WalkInv, ReadOne \/ ReadAll
  PROVE  ReadsInv'
<1>1. PICK m \in Nat : m = Len(reads) /\ DOMAIN reads = 1..m
  BY SequenceOf DEF WalkInv, ReadsInv
<1>2. CASE ReadOne
  <2> DEFINE r == ReadUsage(structure, m + 1)
  <2>1. reads' = Append(reads, r) /\ pc = "usages" /\ pc' = pc /\ structure' = structure
    BY <1>1, <1>2 DEF ReadOne
  <2>2. IsReading(r)
    BY UsageReading
  <2> HIDE DEF r
  <2>3. /\ IsSequence(reads') /\ Len(reads') = m + 1
        /\ \A k \in 1..m : reads'[k] = reads[k]
        /\ reads'[m + 1] = r
    BY <1>1, <2>1, AppendSequence DEF WalkInv, ReadsInv
  <2>4. DOMAIN reads' = 1..m + 1
    BY <2>3, SequenceOf
  <2>5. \A k \in 1..m + 1 : IsReading(reads'[k])
    <3> TAKE k \in 1..m + 1
    <3>1. k = m + 1 \/ k \in 1..m
      BY <1>1
    <3> QED
      BY <1>1, <2>2, <2>3, <3>1 DEF WalkInv, ReadsInv
  <2> QED
    BY <2>1, <2>3, <2>4, <2>5 DEF WalkInv, ReadsInv
<1>3. CASE ReadAll
  <2>1. /\ reads' = RefuseShared(structure, reads) /\ pc' = "placed" /\ structure' = structure
        /\ Len(reads) = Len(structure.usages)
    BY <1>3 DEF ReadAll
  <2>2. \A k \in DOMAIN reads : IsReading(reads[k])
    BY DEF WalkInv, ReadsInv
  <2>3. /\ DOMAIN reads' = DOMAIN reads /\ reads' = [k \in DOMAIN reads |-> reads'[k]]
        /\ \A k \in DOMAIN reads : IsReading(reads'[k])
    <3>1. LET all == RefuseShared(structure, reads)
          IN  /\ DOMAIN all = DOMAIN reads /\ all = [k \in DOMAIN reads |-> all[k]]
              /\ \A k \in DOMAIN reads : IsReading(all[k])
      BY <2>2, SharedReading
    <3> QED
      BY <2>1, <3>1
  <2>4. IsSequence(reads') /\ Len(reads') = Len(reads)
    BY <1>1, <2>3, BuiltSequence
  <2> QED
    BY <2>1, <2>3, <2>4 DEF WalkInv, ReadsInv
<1> QED
  BY <1>2, <1>3

LEMMA WalkInvStep == WalkInv /\ [NextPlacement]_placing => WalkInv'
<1> SUFFICES ASSUME WalkInv, [NextPlacement]_placing
             PROVE  WalkInv'
  OBVIOUS
<1>1. CASE BuildGraph
  BY <1>1 DEF BuildGraph, WalkInv, FileInv, ReadsInv, StackInv, TakenFrom, Child, ListedInv, NotBegun
<1>2. CASE BuildStructure
  <2>1. structure' = StructureOfFile /\ pc = "structure" /\ pc' = "usages"
        /\ UNCHANGED <<file, reads, root, stack, path, listed>>
    BY <1>2 DEF BuildStructure
  <2>2. IsSequence(structure'.usages)
    BY <2>1, StructureSequence DEF WalkInv
  <2>3. StackInv'
    <3>1. Len(stack) = 0 /\ Len(path) = 0 /\ 1..0 = {}
      BY <2>1, ShortSequences DEF WalkInv, NotBegun
    <3>2. IsSequence(stack) /\ IsSequence(path)
      BY DEF WalkInv, StackInv
    <3> QED
      BY <2>1, <3>1, <3>2 DEF StackInv
  <2> QED
    BY <2>1, <2>2, <2>3 DEF WalkInv, FileInv, ReadsInv, ListedInv, NotBegun
<1>3. CASE ReadOne \/ ReadAll
  <2>1. ReadsInv'
    BY <1>3, ReadsInvStep
  <2>2. pc = "usages" /\ pc' \in {"usages", "placed"} /\ UNCHANGED <<file, structure, root, stack, path, listed>>
    BY <1>3 DEF ReadOne, ReadAll
  <2> QED
    BY <2>1, <2>2 DEF WalkInv, FileInv, StackInv, TakenFrom, Child, ListedInv, NotBegun
<1>4. ASSUME NEW d, Begin(d)
      PROVE  WalkInv'
  <2> DEFINE level == Level(d, Ok(Identity), RootSpace(d))
             first == Occurrence(<< >>, d, RepresentationOf(RootSpace(d)), Ok(Identity))
  <2>1. /\ pc = "placed" /\ pc' = "walking" /\ root' = d /\ stack' = <<level>> /\ listed' = <<first>>
        /\ UNCHANGED <<file, structure, reads, path>>
    BY <1>4 DEF Begin
  <2>2. path = << >>
    BY <2>1 DEF WalkInv, NotBegun
  <2>3. IsLevel(level) /\ level.definition = d /\ first.path = << >>
    BY DEF IsLevel, Level, Occurrence
  <2> HIDE DEF level, first
  <2>4. /\ IsSequence(stack') /\ Len(stack') = 1 /\ stack'[1] = level
        /\ IsSequence(listed') /\ Len(listed') = 1 /\ listed'[1] = first
    BY <2>1, ShortSequences
  <2>5. IsSequence(path') /\ Len(path') = 0
    BY <2>1, <2>2, ShortSequences
  <2>6. \A i \in 1..1 : i = 1
    OBVIOUS
  <2>7. DOMAIN listed' = 1..1
    BY <2>4, SequenceOf
  <2>8. ListedInv'
    BY <2>3, <2>4, <2>6, <2>7, ShortSequences DEF ListedInv
  <2>9. StackInv'
    <3>1. \A i \in 1..Len(stack') : IsLevel(stack'[i])
      BY <2>3, <2>4, <2>6
    <3>2. 1..0 = {} /\ stack'[1].definition = root'
      BY <2>1, <2>3, <2>4
    <3>3. Len(stack') # 0 /\ Len(stack') = Len(path') + 1
      BY <2>4, <2>5
    <3> QED
      BY <2>4, <2>5, <3>1, <3>2, <3>3 DEF StackInv
  <2> QED
    BY <2>1, <2>8, <2>9 DEF WalkInv, FileInv, ReadsInv
<1>5. CASE Visit
  <2>1. StackInv'
    BY <1>5, StackInvVisit
  <2>2. pc = "walking" /\ UNCHANGED <<file, structure, reads, pc>>
    BY <1>5 DEF Visit
  <2>3. ListedInv'
    <3>1. PICK n \in Nat : n # 0 /\ Len(stack) = n
      <4>1. stack # << >> /\ StackInv
        BY <1>5 DEF Visit, WalkInv
      <4> QED
        BY <4>1, TopLevel
    <3> DEFINE e == Occurrence(Below, Child(Next1), Components, NewTransform)
    <3>2. IsSequence(Below) /\ listed' = Append(listed, e)
      BY <1>5, <3>1, VisitFacts
    <3>3. e.path = Below
      BY DEF Occurrence
    <3> HIDE DEF e
    <3> QED
      BY <3>2, <3>3, ListedGrows DEF WalkInv
  <2> QED
    BY <2>1, <2>2, <2>3 DEF WalkInv, FileInv, ReadsInv
<1>6. CASE Pop
  <2>1. StackInv'
    BY <1>6, StackInvPop
  <2>2. pc = "walking" /\ UNCHANGED <<file, structure, reads, pc, listed>>
    BY <1>6 DEF Pop
  <2> QED
    BY <2>1, <2>2 DEF WalkInv, FileInv, ReadsInv, ListedInv
<1>7. CASE Done
  BY <1>7 DEF Done, WalkInv, FileInv, ReadsInv, StackInv, TakenFrom, Child, ListedInv, NotBegun
<1>8. CASE UNCHANGED placing
  BY <1>8 DEF placing, WalkInv, FileInv, ReadsInv, StackInv, TakenFrom, Child, ListedInv, NotBegun
<1> QED
  BY <1>1, <1>2, <1>3, <1>4, <1>5, <1>6, <1>7, <1>8 DEF NextPlacement

LEMMA WalkInvInit == Init => WalkInv
<1> SUFFICES ASSUME Init
             PROVE  WalkInv
  OBVIOUS
<1>1. /\ structure.usages = << >> /\ reads = << >> /\ pc = "graph"
      /\ stack = << >> /\ path = << >> /\ listed = << >>
  BY DEF Init, StartPlacements, Empty
<1>2. IsSequence(<< >>) /\ Len(<< >>) = 0 /\ DOMAIN << >> = {} /\ 1..0 = {}
  BY ShortSequences
<1>3. FileInv
  BY FilesAssumption DEF Init, FileInv
<1>4. ReadsInv
  BY <1>1, <1>2 DEF ReadsInv
<1>5. StackInv
  BY <1>1, <1>2 DEF StackInv
<1>6. ListedInv
  BY <1>1, <1>2 DEF ListedInv
<1> QED
  BY <1>1, <1>3, <1>4, <1>5, <1>6 DEF WalkInv, NotBegun

-----------------------------------------------------------------------------
(* The second part: a transform, where there is one, is the product of what  *)
(* the first n usages of a path state, found from the root down.            *)
Stated(k) == reads[k].result.value.transform

IsChain(f, at, n) == f[0] = Identity /\ \A m \in 1..n : f[m] = Compose(f[m - 1], Stated(at[m]))

Follows(at, n, transform) ==
  transform.ok =>
    /\ \A m \in 1..n : reads[at[m]].result.ok
    /\ \A m \in 2..n : \A above \in reads[at[m - 1]].sides, below \in reads[at[m]].sides :
         above.component = below.assembly
    /\ \E f : IsChain(f, at, n) /\ transform.value = f[n]

FollowInv ==
  /\ WalkInv
  /\ \A i \in 1..Len(stack) :
       /\ Follows(path, i - 1, stack[i].transform)
       /\ i > 1 => \A sides \in reads[path[i - 1]].sides : stack[i].space = Of(sides.component)
  /\ \A i \in DOMAIN listed :
       /\ listed[i].definition = Last(Along(listed[i].path))
       /\ Follows(listed[i].path, Len(listed[i].path), listed[i].transform)

LEMMA SameFollows ==
  ASSUME NEW at, NEW other, NEW n \in Nat, \A m \in 1..n : other[m] = at[m], NEW transform
  PROVE  Follows(at, n, transform) => Follows(other, n, transform)
<1> SUFFICES ASSUME Follows(at, n, transform), transform.ok
             PROVE  /\ \A m \in 1..n : reads[other[m]].result.ok
                    /\ \A m \in 2..n : \A above \in reads[other[m - 1]].sides, below \in reads[other[m]].sides :
                         above.component = below.assembly
                    /\ \E f : IsChain(f, other, n) /\ transform.value = f[n]
  BY DEF Follows
<1>1. \A m \in 2..n : m \in 1..n /\ m - 1 \in 1..n
  OBVIOUS
<1>2. PICK f : IsChain(f, at, n) /\ transform.value = f[n]
  BY DEF Follows
<1>3. IsChain(f, other, n)
  BY <1>2 DEF IsChain
<1> QED
  BY <1>1, <1>2, <1>3 DEF Follows

(* There is one chain of a path.                                            *)
LEMMA ChainIsProduct ==
  ASSUME NEW at, NEW n \in Nat, Len(at) = n, NEW f, IsChain(f, at, n)
  PROVE  Product(at) = f[n]
<1> DEFINE Is(g) == g = [m \in 0..n |-> IF m = 0 THEN Identity ELSE Compose(g[m - 1], Stated(at[m]))]
           whole == [m \in 0..n |-> f[m]]
           g == CHOOSE x : Is(x)
<1>1. Is(whole)
  <2>1. ASSUME NEW m \in 0..n
        PROVE  f[m] = IF m = 0 THEN Identity ELSE Compose(whole[m - 1], Stated(at[m]))
    <3>1. CASE m = 0
      BY <3>1 DEF IsChain
    <3>2. CASE m # 0
      <4>1. m \in 1..n /\ m - 1 \in 0..n
        BY <3>2
      <4> QED
        BY <3>2, <4>1 DEF IsChain
    <3> QED
      BY <3>1, <3>2
  <2> QED
    BY <2>1
<1>2. Is(g)
  <2> HIDE DEF Is, whole
  <2> QED
    BY <1>1
<1>3. Product(at) = g[n]
  BY DEF Product, Stated
<1> HIDE DEF g
<1>4. \A m \in 0..n : g[m] = IF m = 0 THEN Identity ELSE Compose(g[m - 1], Stated(at[m]))
  BY <1>2
<1> DEFINE P == {m \in 0..n : g[m] = f[m]}
<1>5. 0 \in P
  BY <1>4 DEF IsChain
<1>6. ASSUME NEW m \in 0..n - 1, m \in P
      PROVE  m + 1 \in P
  <2>1. m + 1 \in 1..n /\ m + 1 \in 0..n /\ (m + 1) - 1 = m /\ m + 1 # 0
    OBVIOUS
  <2>2. g[m + 1] = Compose(g[m], Stated(at[m + 1])) /\ f[m + 1] = Compose(f[m], Stated(at[m + 1]))
    BY <1>4, <2>1 DEF IsChain
  <2> QED
    BY <1>6, <2>1, <2>2
<1>7. n \in P
  <2> HIDE DEF P
  <2>1. \A m \in 0..n - 1 : m \in P => m + 1 \in P
    BY <1>6
  <2>2. 0..n \subseteq P
    BY <1>5, <2>1, IntervalInduction
  <2> QED
    BY <2>2
<1> QED
  BY <1>3, <1>7

LEMMA FollowsOneMore ==
  ASSUME NEW at, NEW n \in Nat \ {0}, NEW parent, NEW space,
         Follows(at, n - 1, parent), AtMostOne(reads[at[n]].sides),
         n > 1 => \A sides \in reads[at[n - 1]].sides : space = Of(sides.component)
  PROVE  Follows(at, n, ComposeUsage(parent, space, reads[at[n]]))
<1> DEFINE read == reads[at[n]]
           product == Compose(parent.value, Stated(at[n]))
           transform == ComposeUsage(parent, space, read)
<1> SUFFICES ASSUME transform.ok
             PROVE  /\ \A m \in 1..n : reads[at[m]].result.ok
                    /\ \A m \in 2..n : \A above \in reads[at[m - 1]].sides, below \in reads[at[m]].sides :
                         above.component = below.assembly
                    /\ \E f : IsChain(f, at, n) /\ transform.value = f[n]
  BY DEF Follows
<1>1. /\ parent.ok /\ read.result.ok
      /\ \A sides \in read.sides : ~SpaceChanges(space, sides)
      /\ transform = Ok(product)
  BY DEF ComposeUsage, Failed, Inconsistent, Stated
<1>2. PICK f : IsChain(f, at, n - 1) /\ parent.value = f[n - 1]
  BY <1>1 DEF Follows
<1>3. /\ \A m \in 1..n - 1 : reads[at[m]].result.ok
      /\ \A m \in 2..n - 1 : \A above \in reads[at[m - 1]].sides, below \in reads[at[m]].sides :
           above.component = below.assembly
  BY <1>1 DEF Follows
<1>4. \A m \in 1..n : reads[at[m]].result.ok
  <2> TAKE m \in 1..n
  <2>1. m = n \/ m \in 1..n - 1
    OBVIOUS
  <2> QED
    BY <1>1, <1>3, <2>1
<1>5. ASSUME NEW m \in 2..n, NEW above \in reads[at[m - 1]].sides, NEW below \in reads[at[m]].sides
      PROVE  above.component = below.assembly
  <2>1. CASE m = n
    <3>1. n > 1 /\ above \in reads[at[n - 1]].sides /\ below \in read.sides
      BY <2>1
    <3>2. space = Of(above.component) /\ ~SpaceChanges(space, below)
      BY <1>1, <3>1
    <3> QED
      BY <3>2 DEF SpaceChanges, Of
  <2>2. CASE m # n
    <3>1. m \in 2..n - 1
      BY <2>2
    <3> QED
      BY <1>3, <3>1
  <2> QED
    BY <2>1, <2>2
<1>6. \E h : IsChain(h, at, n) /\ transform.value = h[n]
  <2> DEFINE h == [m \in 0..n |-> IF m = n THEN product ELSE f[m]]
  <2>1. h[0] = Identity
    BY <1>2 DEF IsChain
  <2>2. ASSUME NEW m \in 1..n
        PROVE  h[m] = Compose(h[m - 1], Stated(at[m]))
    <3>1. m - 1 \in 0..n /\ m - 1 # n /\ h[m - 1] = f[m - 1]
      OBVIOUS
    <3>2. CASE m = n
      <4>1. h[m] = product /\ h[m - 1] = parent.value
        BY <1>2, <3>1, <3>2
      <4> QED
        BY <3>2, <4>1
    <3>3. CASE m # n
      <4>1. m \in 1..n - 1 /\ h[m] = f[m]
        BY <3>3
      <4> QED
        BY <1>2, <3>1, <4>1 DEF IsChain
    <3> QED
      BY <3>2, <3>3
  <2>3. IsChain(h, at, n)
    <3> HIDE DEF h, product
    <3> QED
      BY <2>1, <2>2 DEF IsChain
  <2>4. h[n] = product /\ transform.value = product
    BY <1>1 DEF Ok
  <2> HIDE DEF h
  <2> QED
    BY <2>3, <2>4
<1> HIDE DEF transform
<1> QED
  BY <1>4, <1>5, <1>6

(* The definitions along a path: the root, and then those its usages lead to. *)
DefinitionAt(at, i) == IF i = 0 THEN root ELSE Child(at[i])

LEMMA AlongLists ==
  ASSUME NEW at, IsSequence(at)
  PROVE  /\ Len(Along(at)) = Len(at) + 1 /\ DOMAIN Along(at) = 1..Len(at) + 1
         /\ \A i \in 0..Len(at) : Along(at)[i + 1] = DefinitionAt(at, i)
<1> DEFINE n == Len(at)
           children == [i \in DOMAIN at |-> Child(at[i])]
           one == <<root>>
           all == one \o children
<1>1. DOMAIN at = 1..n /\ n \in Nat
  BY SequenceOf
<1>2. IsSequence(children) /\ Len(children) = n
  <2>1. DOMAIN children = 1..n /\ children = [i \in 1..n |-> children[i]]
    BY <1>1
  <2> HIDE DEF children, n
  <2> QED
    BY <1>1, <2>1, BuiltSequence
<1>3. IsSequence(one) /\ Len(one) = 1 /\ one[1] = root
  BY ShortSequences
<1>4. Along(at) = all
  BY DEF Along
<1>5. \A i \in 1..n : children[i] = Child(at[i])
  BY <1>1
<1> HIDE DEF children, one, n
<1>6. /\ IsSequence(all) /\ Len(all) = Len(one) + Len(children)
      /\ \A i \in 1..Len(one) : all[i] = one[i]
      /\ \A i \in 1..Len(children) : all[Len(one) + i] = children[i]
  <2>1. IsSequence(one) /\ IsSequence(children)
    BY <1>2, <1>3
  <2> QED
    BY <2>1, ConcatSequence
<1> HIDE DEF all
<1>7. Len(all) = n + 1 /\ DOMAIN all = 1..n + 1
  BY <1>1, <1>2, <1>3, <1>6, SequenceOf
<1>8. ASSUME NEW i \in 0..n
      PROVE  all[i + 1] = DefinitionAt(at, i)
  <2>1. CASE i = 0
    <3>1. 1 \in 1..Len(one) /\ i + 1 = 1
      BY <1>3, <2>1
    <3> QED
      BY <1>3, <1>6, <2>1, <3>1 DEF DefinitionAt
  <2>2. CASE i # 0
    <3>1. i \in 1..n /\ 1 + i = i + 1
      BY <1>1, <2>2
    <3> QED
      BY <1>2, <1>3, <1>5, <1>6, <2>2, <3>1 DEF DefinitionAt
  <2> QED
    BY <2>1, <2>2
<1> QED
  BY <1>4, <1>7, <1>8 DEF n

(* The definition a visited usage leads to ends its path.                   *)
LEMMA LastAlong ==
  ASSUME NEW at, IsSequence(at)
  PROVE  Last(Along(at)) = DefinitionAt(at, Len(at))
<1>1. Len(at) \in Nat
  BY SequenceOf
<1>2. Len(at) \in 0..Len(at)
  BY <1>1
<1> QED
  BY <1>2, AlongLists DEF Last

LEMMA FollowsUnchanged ==
  ASSUME reads' = reads
  PROVE  \A at, n, transform : Follows(at, n, transform)' <=> Follows(at, n, transform)
BY DEF Follows, IsChain, Stated

LEMMA FollowInvVisit ==
  ASSUME FollowInv, Visit, WalkInv'
  PROVE  FollowInv'
<1>1. PICK n \in Nat : n # 0 /\ Len(stack) = n
  <2>1. stack # << >> /\ StackInv
    BY DEF Visit, FollowInv, WalkInv
  <2> QED
    BY <2>1, TopLevel
<1>2. /\ Len(path) = n - 1 /\ DOMAIN path = 1..n - 1 /\ DOMAIN stack = 1..n /\ Top = stack[n]
      /\ Next1 \in UsagesOf(Top.definition)
      /\ IsSequence(Below) /\ Len(Below) = n /\ DOMAIN Below = 1..n /\ Below[n] = Next1
      /\ \A i \in 1..n - 1 : Below[i] = path[i]
      /\ listed' = Append(listed, Occurrence(Below, Child(Next1), Components, NewTransform))
      /\ SameElsewhere(stack, stack', n)
      /\ RefusedNow = {} => /\ Len(stack') = n + 1 /\ path' = Below
                            /\ stack'[n + 1] = Level(Child(Next1), NewTransform, NewSpace)
      /\ RefusedNow # {} => Len(stack') = n /\ path' = path
      /\ UNCHANGED <<structure, reads, pc, root>>
  BY <1>1, VisitFacts DEF FollowInv
<1>3. /\ \A i \in 1..n - 1 : stack'[i] = stack[i]
      /\ stack'[n].transform = stack[n].transform /\ stack'[n].space = stack[n].space
  BY <1>2 DEF SameElsewhere
<1>4. \A i \in 1..n :
        /\ Follows(path, i - 1, stack[i].transform)
        /\ i > 1 => \A sides \in reads[path[i - 1]].sides : stack[i].space = Of(sides.component)
  BY <1>1 DEF FollowInv
<1>5. n \in 1..n
  BY <1>1
<1>6. IsReading(reads[Next1])
  <2>1. pc = "walking"
    BY DEF Visit
  <2>2. DOMAIN reads = DOMAIN structure.usages
    BY <2>1, SequenceOf DEF FollowInv, WalkInv, ReadsInv
  <2> QED
    BY <1>2, <2>2 DEF UsagesOf, FollowInv, WalkInv, ReadsInv
<1>7. Follows(Below, n - 1, Top.transform)
  <2>1. n - 1 \in Nat
    BY <1>1
  <2> QED
    BY <1>2, <1>4, <1>5, <2>1, SameFollows
<1>8. Follows(Below, n, NewTransform)
  <2>1. CASE RefusedNow # {}
    <3>1. NewTransform \in RefusedNow
      BY <2>1 DEF NewTransform
    <3>2. \A r \in RefusedNow : ~r.ok
      BY DEF RefusedNow, Refusal, Failed
    <3> QED
      BY <3>1, <3>2 DEF Follows
  <2>2. CASE RefusedNow = {}
    <3>1. NewTransform = ComposeUsage(Top.transform, Top.space, reads[Below[n]])
      BY <1>2, <2>2 DEF NewTransform
    <3>2. n > 1 => \A sides \in reads[Below[n - 1]].sides : Top.space = Of(sides.component)
      <4> SUFFICES ASSUME n > 1
                   PROVE  \A sides \in reads[Below[n - 1]].sides : Top.space = Of(sides.component)
        OBVIOUS
      <4>1. n - 1 \in 1..n - 1
        BY <1>1
      <4> QED
        BY <1>2, <1>4, <1>5, <4>1
    <3>3. AtMostOne(reads[Below[n]].sides)
      BY <1>2, <1>6 DEF IsReading
    <3> QED
      BY <1>1, <1>7, <3>1, <3>2, <3>3, FollowsOneMore
  <2> QED
    BY <2>1, <2>2
<1>9. \A at, m, transform : Follows(at, m, transform)' <=> Follows(at, m, transform)
  BY <1>2, FollowsUnchanged
<1>10. \A i \in DOMAIN listed' :
         /\ listed'[i].definition = Last(Along(listed[i].path))'
         /\ Follows(listed'[i].path, Len(listed'[i].path), listed'[i].transform)
  <2> DEFINE e == Occurrence(Below, Child(Next1), Components, NewTransform)
  <2>1. e.path = Below /\ e.definition = Child(Next1) /\ e.transform = NewTransform
    BY DEF Occurrence
  <2>2. listed' = Append(listed, e)
    BY <1>2
  <2> HIDE DEF e
  <2>3. PICK m \in Nat : /\ m = Len(listed) /\ DOMAIN listed' = 1..m + 1 /\ DOMAIN listed = 1..m
                         /\ listed'[m + 1] = e /\ \A i \in 1..m : listed'[i] = listed[i]
    BY <1>2, <2>1, <2>2, ListedGrows DEF FollowInv, WalkInv
  <2>4. \A at : Last(Along(at))' = Last(Along(at))
    BY <1>2 DEF Last, Along, Child
  <2>5. e.definition = Last(Along(e.path))
    BY <1>1, <1>2, <2>1, LastAlong DEF DefinitionAt
  <2>6. Follows(e.path, Len(e.path), e.transform)
    BY <1>2, <1>8, <2>1
  <2> TAKE i \in DOMAIN listed'
  <2>7. CASE i = m + 1
    BY <2>3, <2>4, <2>5, <2>6, <2>7
  <2>8. CASE i \in 1..m
    BY <2>3, <2>4, <2>8 DEF FollowInv
  <2> QED
    BY <2>3, <2>7, <2>8
<1>11. ASSUME NEW i \in 1..n
       PROVE  /\ Follows(Below, i - 1, stack'[i].transform)
              /\ i > 1 => \A sides \in reads[Below[i - 1]].sides : stack'[i].space = Of(sides.component)
  <2>1. stack'[i].transform = stack[i].transform /\ stack'[i].space = stack[i].space
    <3>1. i = n \/ i \in 1..n - 1
      BY <1>1
    <3> QED
      BY <1>3, <3>1
  <2>2. i - 1 \in Nat /\ \A k \in 1..i - 1 : Below[k] = path[k]
    <3>1. i - 1 \in Nat /\ \A k \in 1..i - 1 : k \in 1..n - 1
      BY <1>1
    <3> QED
      BY <1>2, <3>1
  <2>3. Follows(Below, i - 1, stack[i].transform)
    BY <1>4, <2>2, SameFollows
  <2>4. i > 1 => Below[i - 1] = path[i - 1]
    <3>1. i > 1 => i - 1 \in 1..i - 1
      BY <1>1
    <3> QED
      BY <2>2, <3>1
  <2> QED
    BY <1>4, <2>1, <2>3, <2>4
<1>12. CASE RefusedNow = {}
  <2>1. Len(stack') = n + 1 /\ path' = Below /\ stack'[n + 1] = Level(Child(Next1), NewTransform, NewSpace)
    BY <1>2, <1>12
  <2>2. stack'[n + 1].transform = NewTransform /\ stack'[n + 1].space = NewSpace
    BY <2>1 DEF Level
  <2>3. \A sides \in reads[Below[n]].sides : NewSpace = Of(sides.component)
    <3> TAKE sides \in reads[Below[n]].sides
    <3>1. \A other \in reads[Next1].sides : other = sides
      BY <1>2, <1>6 DEF IsReading, AtMostOne
    <3>2. Components = {sides.component}
      BY <1>2, <3>1 DEF Components
    <3> QED
      BY <3>2 DEF NewSpace
  <2>4. ASSUME NEW i \in 1..n + 1
        PROVE  /\ Follows(Below, i - 1, stack'[i].transform)
               /\ i > 1 => \A sides \in reads[Below[i - 1]].sides : stack'[i].space = Of(sides.component)
    <3>1. CASE i = n + 1
      <4>1. i - 1 = n
        BY <3>1
      <4> QED
        BY <1>8, <2>2, <2>3, <3>1, <4>1
    <3>2. CASE i \in 1..n
      BY <1>11, <3>2
    <3> QED
      BY <1>1, <3>1, <3>2
  <2> QED
    BY <1>2, <1>9, <1>10, <2>1, <2>4 DEF FollowInv
<1>13. CASE RefusedNow # {}
  <2>1. Len(stack') = n /\ path' = path
    BY <1>2, <1>13
  <2>2. ASSUME NEW i \in 1..n
        PROVE  /\ Follows(path, i - 1, stack'[i].transform)
               /\ i > 1 => \A sides \in reads[path[i - 1]].sides : stack'[i].space = Of(sides.component)
    <3>1. i = n \/ i \in 1..n - 1
      BY <1>1
    <3>2. stack'[i].transform = stack[i].transform /\ stack'[i].space = stack[i].space
      BY <1>3, <3>1
    <3> QED
      BY <1>4, <3>2
  <2> QED
    BY <1>2, <1>9, <1>10, <2>1, <2>2 DEF FollowInv
<1> QED
  BY <1>12, <1>13

LEMMA FollowInvPop ==
  ASSUME FollowInv, Pop, WalkInv'
  PROVE  FollowInv'
<1>1. PICK n \in Nat : n # 0 /\ Len(stack) = n
  <2>1. stack # << >> /\ StackInv
    BY DEF Pop, FollowInv, WalkInv
  <2> QED
    BY <2>1, TopLevel
<1>2. /\ Len(stack') = n - 1 /\ \A i \in 1..n - 1 : stack'[i] = stack[i]
      /\ \A i \in 1..n - 2 : path'[i] = path[i]
      /\ UNCHANGED <<structure, reads, root, listed>>
  BY <1>1, PopFacts DEF FollowInv
<1>3. \A at, m, transform : Follows(at, m, transform)' <=> Follows(at, m, transform)
  BY <1>2, FollowsUnchanged
<1>4. \A at : Last(Along(at))' = Last(Along(at))
  BY <1>2 DEF Last, Along, Child
<1>5. ASSUME NEW i \in 1..n - 1
      PROVE  /\ Follows(path', i - 1, stack'[i].transform)
             /\ i > 1 => \A sides \in reads[path'[i - 1]].sides : stack'[i].space = Of(sides.component)
  <2>1. /\ i \in 1..n /\ i - 1 \in Nat /\ \A m \in 1..i - 1 : m \in 1..n - 2
        /\ i > 1 => i - 1 \in 1..n - 2
    BY <1>1
  <2>2. /\ Follows(path, i - 1, stack[i].transform)
        /\ i > 1 => \A sides \in reads[path[i - 1]].sides : stack[i].space = Of(sides.component)
    BY <1>1, <2>1 DEF FollowInv
  <2>3. Follows(path', i - 1, stack[i].transform)
    BY <1>2, <2>1, <2>2, SameFollows
  <2> QED
    BY <1>2, <2>1, <2>2, <2>3
<1>6. \A i \in DOMAIN listed :
        /\ listed[i].definition = Last(Along(listed[i].path))
        /\ Follows(listed[i].path, Len(listed[i].path), listed[i].transform)
  BY DEF FollowInv
<1> QED
  BY <1>2, <1>3, <1>4, <1>5, <1>6 DEF FollowInv

LEMMA FollowInvBegin ==
  ASSUME FollowInv, NEW d, Begin(d), WalkInv'
  PROVE  FollowInv'
<1> DEFINE level == Level(d, Ok(Identity), RootSpace(d))
           first == Occurrence(<< >>, d, RepresentationOf(RootSpace(d)), Ok(Identity))
<1>1. root' = d /\ stack' = <<level>> /\ listed' = <<first>>
  BY DEF Begin
<1>2. /\ level.transform = Ok(Identity)
      /\ first.path = << >> /\ first.definition = d /\ first.transform = Ok(Identity)
  BY DEF Level, Occurrence
<1> HIDE DEF level, first
<1>3. /\ Len(stack') = 1 /\ stack'[1] = level
      /\ listed'[1] = first /\ DOMAIN listed' = 1..1 /\ \A i \in 1..1 : i = 1
  BY <1>1, ShortSequences, SequenceOf
<1>4. \A at : Follows(at, 0, Ok(Identity))'
  <2> TAKE at
  <2>1. 1..0 = {} /\ 2..0 = {}
    OBVIOUS
  <2> DEFINE f == [m \in {0} |-> Identity]
  <2>2. IsChain(f, at, 0)' /\ f[0] = Identity
    BY <2>1 DEF IsChain
  <2>3. Ok(Identity).value = Identity
    BY DEF Ok
  <2> HIDE DEF f
  <2> QED
    BY <2>1, <2>2, <2>3 DEF Follows
<1>5. Last(Along(<< >>))' = d
  <2>1. IsSequence(<< >>) /\ Len(<< >>) = 0
    BY ShortSequences
  <2> DEFINE none == << >>
             children == [i \in DOMAIN none |-> structure'.usages[none[i]].child]
  <2>2. Along(<< >>)' = <<d>> \o children
    BY <1>1 DEF Along, Child
  <2>3. children = << >>
    BY DEF none
  <2> QED
    BY <2>2, <2>3 DEF Last
<1>6. Len(<< >>) = 0
  BY ShortSequences
<1>7. \A i \in DOMAIN listed' :
        /\ listed'[i].definition = Last(Along(listed[i].path))'
        /\ Follows(listed[i].path, Len(listed[i].path), listed[i].transform)'
  BY <1>2, <1>3, <1>4, <1>5, <1>6
<1>8. \A i \in 1..Len(stack') :
        /\ Follows(path, i - 1, stack[i].transform)'
        /\ i > 1 => \A sides \in reads'[path'[i - 1]].sides : stack'[i].space = Of(sides.component)
  <2> TAKE i \in 1..Len(stack')
  <2>1. i = 1 /\ i - 1 = 0
    BY <1>3
  <2> QED
    BY <1>2, <1>3, <1>4, <2>1
<1> QED
  BY <1>7, <1>8 DEF FollowInv

LEMMA FollowInvUnbegun ==
  ASSUME NotBegun, WalkInv
  PROVE  FollowInv
<1>1. Len(stack) = 0 /\ DOMAIN listed = {} /\ 1..0 = {}
  BY ShortSequences DEF NotBegun
<1> QED
  BY <1>1 DEF FollowInv

LEMMA FollowInvStep == FollowInv /\ [NextPlacement]_placing => FollowInv'
<1> SUFFICES ASSUME FollowInv, [NextPlacement]_placing
             PROVE  FollowInv'
  OBVIOUS
<1>1. WalkInv'
  BY WalkInvStep DEF FollowInv
<1>2. CASE BuildGraph \/ BuildStructure \/ ReadOne \/ ReadAll
  <2>1. NotBegun'
    BY <1>2 DEF BuildGraph, BuildStructure, ReadOne, ReadAll, FollowInv, WalkInv, NotBegun
  <2>2. Len(stack') = 0 /\ DOMAIN listed' = {} /\ 1..0 = {}
    BY <2>1, ShortSequences DEF NotBegun
  <2> QED
    BY <1>1, <2>2 DEF FollowInv
<1>3. ASSUME NEW d, Begin(d)
      PROVE  FollowInv'
  BY <1>1, <1>3, FollowInvBegin
<1>4. CASE Visit
  BY <1>1, <1>4, FollowInvVisit
<1>5. CASE Pop
  BY <1>1, <1>5, FollowInvPop
<1>6. CASE Done \/ UNCHANGED placing
  <2>1. UNCHANGED <<structure, reads, root, stack, path, listed>>
    BY <1>6 DEF Done, placing
  <2>2. \A at, m, transform : Follows(at, m, transform)' <=> Follows(at, m, transform)
    BY <2>1, FollowsUnchanged
  <2>3. \A at : Last(Along(at))' = Last(Along(at))
    BY <2>1 DEF Last, Along, Child
  <2>4. /\ \A i \in 1..Len(stack) :
             /\ Follows(path, i - 1, stack[i].transform)
             /\ i > 1 => \A sides \in reads[path[i - 1]].sides : stack[i].space = Of(sides.component)
        /\ \A i \in DOMAIN listed :
             /\ listed[i].definition = Last(Along(listed[i].path))
             /\ Follows(listed[i].path, Len(listed[i].path), listed[i].transform)
    BY DEF FollowInv
  <2> QED
    BY <1>1, <2>1, <2>2, <2>3, <2>4 DEF FollowInv
<1> QED
  BY <1>2, <1>3, <1>4, <1>5, <1>6 DEF NextPlacement

LEMMA FollowInvImplies == FollowInv => FollowsPath
<1> SUFFICES ASSUME FollowInv, NEW i \in DOMAIN listed
             PROVE  LET at == listed[i].path
                    IN  /\ listed[i].definition = Last(Along(at))
                        /\ listed[i].transform.ok =>
                             /\ \A n \in DOMAIN at : reads[at[n]].result.ok
                             /\ \A n \in 2..Len(at) :
                                  \A above \in reads[at[n - 1]].sides, below \in reads[at[n]].sides :
                                    above.component = below.assembly
                             /\ listed[i].transform.value = Product(at)
  BY DEF FollowsPath
<1> DEFINE at == listed[i].path
<1>1. listed[i].definition = Last(Along(at)) /\ Follows(at, Len(at), listed[i].transform)
  BY DEF FollowInv
<1>2. IsSequence(at)
  BY DEF FollowInv, WalkInv, ListedInv
<1>3. Len(at) \in Nat /\ DOMAIN at = 1..Len(at)
  BY <1>2, SequenceOf
<1>4. ASSUME listed[i].transform.ok
      PROVE  listed[i].transform.value = Product(at)
  <2>1. PICK f : IsChain(f, at, Len(at)) /\ listed[i].transform.value = f[Len(at)]
    BY <1>1, <1>4 DEF Follows
  <2> HIDE DEF at
  <2> QED
    BY <1>3, <2>1, ChainIsProduct
<1> HIDE DEF at
<1> QED
  BY <1>1, <1>3, <1>4 DEF at, Follows

(* Placements::new and Occurrences: whatever the file, every occurrence      *)
(* returned with a transform has the product of what the usages of its own  *)
(* path state, each of them placed in the representation the one above      *)
(* places.                                                                 *)
THEOREM OccurrencesFollowPath == Spec => []FollowsPath
<1>1. Init => FollowInv
  <2>1. Init => WalkInv /\ NotBegun
    BY WalkInvInit DEF Init, StartPlacements, NotBegun
  <2> QED
    BY <2>1, FollowInvUnbegun
<1>2. FollowInv /\ [NextPlacement]_placing => FollowInv'
  BY FollowInvStep
<1>3. FollowInv => FollowsPath
  BY FollowInvImplies
<1> QED
  BY <1>1, <1>2, <1>3, PTL DEF Spec

-----------------------------------------------------------------------------
(* The third part: every path is listed or is still to come, and the last    *)
(* one listed is where the walk stands.                                     *)

(* The walk goes on below the first n usages of a path.                     *)
GoesOn(at, n) ==
  /\ \A i, j \in 0..n : DefinitionAt(at, i) = DefinitionAt(at, j) => i = j
  /\ n <= MaxAssemblyDepth

IsPath(at) ==
  /\ IsSequence(at)
  /\ \A i \in 1..Len(at) : at[i] \in UsagesOf(DefinitionAt(at, i - 1))
  /\ Len(at) # 0 => GoesOn(at, Len(at) - 1)

Agree(at, other, n) == \A m \in 1..n : at[m] = other[m]

LEMMA AgreeDefinitions ==
  ASSUME NEW at, NEW other, NEW n \in Nat, Agree(at, other, n)
  PROVE  /\ \A i \in 0..n : DefinitionAt(at, i) = DefinitionAt(other, i)
         /\ GoesOn(at, n) <=> GoesOn(other, n)
<1>1. \A i \in 0..n : DefinitionAt(at, i) = DefinitionAt(other, i)
  <2> TAKE i \in 0..n
  <2>1. i = 0 \/ i \in 1..n
    OBVIOUS
  <2> QED
    BY <2>1 DEF DefinitionAt, Agree
<1> QED
  BY <1>1 DEF GoesOn

LEMMA GoesOnBelow ==
  ASSUME NEW at, NEW n \in Nat, NEW m \in Nat, m <= n, GoesOn(at, n)
  PROVE  GoesOn(at, m)
<1>1. \A i \in 0..m : i \in 0..n
  OBVIOUS
<1>2. MaxAssemblyDepth \in Nat
  BY AssemblyDepth
<1> QED
  BY <1>1, <1>2 DEF GoesOn

(* GoesOn is the condition that Paths states of a whole path.               *)
LEMMA OpenGoesOn ==
  ASSUME NEW at, IsSequence(at)
  PROVE  (IsInjective(Along(at)) /\ Len(at) <= MaxAssemblyDepth) <=> GoesOn(at, Len(at))
<1> DEFINE n == Len(at)
           all == Along(at)
<1>1. n \in Nat /\ DOMAIN all = 1..n + 1 /\ \A i \in 0..n : all[i + 1] = DefinitionAt(at, i)
  BY AlongLists, SequenceOf
<1> HIDE DEF n, all
<1>2. ASSUME IsInjective(all), NEW i \in 0..n, NEW j \in 0..n, DefinitionAt(at, i) = DefinitionAt(at, j)
      PROVE  i = j
  <2>1. i + 1 \in 1..n + 1 /\ j + 1 \in 1..n + 1
    BY <1>1
  <2>2. all[i + 1] = all[j + 1]
    BY <1>1, <1>2
  <2>3. i + 1 = j + 1
    BY <1>1, <1>2, <2>1, <2>2 DEF IsInjective
  <2> QED
    BY <1>1, <2>3
<1>3. ASSUME \A i, j \in 0..n : DefinitionAt(at, i) = DefinitionAt(at, j) => i = j,
             NEW a \in DOMAIN all, NEW b \in DOMAIN all, all[a] = all[b]
      PROVE  a = b
  <2>1. a \in 1..n + 1 /\ b \in 1..n + 1
    BY <1>1
  <2>2. a - 1 \in 0..n /\ b - 1 \in 0..n /\ (a - 1) + 1 = a /\ (b - 1) + 1 = b
    BY <1>1, <2>1
  <2>3. DefinitionAt(at, a - 1) = DefinitionAt(at, b - 1)
    BY <1>1, <1>3, <2>2
  <2>4. a - 1 = b - 1
    BY <1>3, <2>2, <2>3
  <2> QED
    BY <1>1, <2>1, <2>4
<1>4. IsInjective(all) <=> \A i, j \in 0..n : DefinitionAt(at, i) = DefinitionAt(at, j) => i = j
  BY <1>2, <1>3 DEF IsInjective
<1> QED
  BY <1>4 DEF n, all, GoesOn

LEMMA PathShorter ==
  ASSUME NEW at, IsPath(at), Len(at) # 0
  PROVE  /\ IsPath(Front(at)) /\ Len(Front(at)) = Len(at) - 1
         /\ GoesOn(Front(at), Len(at) - 1)
         /\ at[Len(at)] \in UsagesOf(Last(Along(Front(at))))
         /\ at = Append(Front(at), at[Len(at)])
<1> DEFINE n == Len(at)
           front == Front(at)
<1>1. n \in Nat /\ n # 0 /\ IsSequence(at)
  BY SequenceOf DEF IsPath
<1>2. IsSequence(front) /\ Len(front) = n - 1 /\ \A i \in 1..n - 1 : front[i] = at[i]
  BY <1>1, FrontSequence
<1> HIDE DEF n, front
<1>3. /\ \A i \in 1..n : at[i] \in UsagesOf(DefinitionAt(at, i - 1))
      /\ GoesOn(at, n - 1)
  BY <1>1 DEF IsPath, n
<1>4. /\ \A i \in 0..n - 1 : DefinitionAt(front, i) = DefinitionAt(at, i)
      /\ GoesOn(front, n - 1)
  <2>1. Agree(front, at, n - 1) /\ n - 1 \in Nat
    BY <1>1, <1>2 DEF Agree
  <2> QED
    BY <1>3, <2>1, AgreeDefinitions
<1>5. IsPath(front)
  <2>1. \A i \in 1..n - 1 : i \in 1..n /\ i - 1 \in 0..n - 1
    BY <1>1
  <2>2. Len(front) # 0 => GoesOn(front, n - 2)
    <3>1. n # 1 => n - 2 \in Nat /\ n - 2 <= n - 1 /\ n - 1 \in Nat
      BY <1>1
    <3> QED
      BY <1>1, <1>2, <1>4, <3>1, GoesOnBelow
  <2>3. \A i \in 1..n - 1 : front[i] \in UsagesOf(DefinitionAt(front, i - 1))
    BY <1>2, <1>3, <1>4, <2>1
  <2>4. Len(front) - 1 = n - 2
    BY <1>1, <1>2
  <2> QED
    BY <1>2, <2>2, <2>3, <2>4 DEF IsPath
<1>6. at[n] \in UsagesOf(Last(Along(front)))
  <2>1. n \in 1..n /\ n - 1 \in 0..n - 1
    BY <1>1
  <2> QED
    BY <1>2, <1>3, <1>4, <2>1, LastAlong
<1>7. at = Append(front, at[n])
  <2> DEFINE longer == Append(front, at[n])
  <2>1. /\ IsSequence(longer) /\ Len(longer) = n
        /\ \A i \in 1..n - 1 : longer[i] = at[i]
        /\ longer[n] = at[n]
    <3>1. (n - 1) + 1 = n
      BY <1>1
    <3> QED
      BY <1>2, <3>1, AppendSequence
  <2> HIDE DEF longer
  <2>2. \A i \in 1..n : longer[i] = at[i]
    <3> TAKE i \in 1..n
    <3>1. i = n \/ i \in 1..n - 1
      BY <1>1
    <3> QED
      BY <2>1, <3>1
  <2>3. at = [i \in 1..n |-> at[i]] /\ longer = [i \in 1..n |-> longer[i]]
    BY <1>1, <2>1 DEF IsSequence, n
  <2>4. at = longer
    BY <2>2, <2>3
  <2> QED
    BY <2>4 DEF longer
<1> QED
  BY <1>2, <1>4, <1>5, <1>6, <1>7 DEF n, front

LEMMA PathLonger ==
  ASSUME NEW at, IsPath(at), GoesOn(at, Len(at)), NEW k \in UsagesOf(DefinitionAt(at, Len(at)))
  PROVE  IsPath(Append(at, k)) /\ Len(Append(at, k)) = Len(at) + 1
<1> DEFINE n == Len(at)
           longer == Append(at, k)
<1>1. n \in Nat /\ IsSequence(at)
  BY SequenceOf DEF IsPath
<1>2. /\ IsSequence(longer) /\ Len(longer) = n + 1
      /\ \A i \in 1..n : longer[i] = at[i]
      /\ longer[n + 1] = k
  BY <1>1, AppendSequence
<1>3. \A i \in 1..n : at[i] \in UsagesOf(DefinitionAt(at, i - 1))
  BY DEF IsPath
<1> HIDE DEF n, longer
<1>4. /\ \A i \in 0..n : DefinitionAt(longer, i) = DefinitionAt(at, i)
      /\ GoesOn(longer, n)
  <2>1. Agree(longer, at, n)
    BY <1>2 DEF Agree
  <2> QED
    BY <1>1, <2>1, AgreeDefinitions DEF n
<1>5. \A i \in 1..n + 1 : longer[i] \in UsagesOf(DefinitionAt(longer, i - 1))
  <2> TAKE i \in 1..n + 1
  <2>1. CASE i = n + 1
    <3>1. i - 1 = n /\ n \in 0..n
      BY <1>1, <2>1
    <3> QED
      BY <1>2, <1>4, <2>1, <3>1 DEF n
  <2>2. CASE i # n + 1
    <3>1. i \in 1..n /\ i - 1 \in 0..n
      BY <1>1, <2>2
    <3> QED
      BY <1>2, <1>3, <1>4, <3>1
  <2> QED
    BY <2>1, <2>2
<1>6. Len(longer) - 1 = n
  BY <1>1, <1>2
<1> QED
  BY <1>2, <1>4, <1>5, <1>6 DEF IsPath, n, longer

(* What Paths builds, one usage at a time, is every path and no other.       *)
LEMMA PathsAre ==
  ASSUME IsSequence(structure.usages)
  PROVE  \A at : at \in Paths <=> IsPath(at)
<1> DEFINE M == MaxAssemblyDepth + 1
           Longer(S) == UNION {{Append(at, k) : k \in UsagesOf(Last(Along(at)))} :
                                 at \in {p \in S : IsInjective(Along(p)) /\ Len(p) <= MaxAssemblyDepth}}
           Is(f) == f = [n \in 0..M |-> IF n = 0 THEN {<< >>} ELSE f[n - 1] \cup Longer(f[n - 1])]
           All == UNION {[1..m -> DOMAIN structure.usages] : m \in 0..M}
           Upto(n) == {at \in All : IsPath(at) /\ Len(at) <= n}
           whole == [n \in 0..M |-> Upto(n)]
           g == CHOOSE f : Is(f)
<1>1. M \in Nat
  BY AssemblyDepth
<1>2. ASSUME NEW at, IsPath(at)
      PROVE  Len(at) \in 0..M /\ at \in All
  <2>1. Len(at) \in Nat /\ at = [i \in 1..Len(at) |-> at[i]]
    BY <1>2, SequenceOf DEF IsPath, IsSequence
  <2>2. Len(at) \in 0..M
    <3>1. Len(at) # 0 => Len(at) - 1 <= MaxAssemblyDepth
      BY <1>2 DEF IsPath, GoesOn
    <3> QED
      BY <2>1, <3>1, AssemblyDepth
  <2>3. \A i \in 1..Len(at) : at[i] \in DOMAIN structure.usages
    BY <1>2 DEF IsPath, UsagesOf
  <2>4. at \in [1..Len(at) -> DOMAIN structure.usages]
    BY <2>1, <2>3
  <2> QED
    BY <2>2, <2>4
<1> HIDE DEF All, M
<1>3. Upto(0) = {<< >>}
  <2>1. IsPath(<< >>) /\ Len(<< >>) = 0
    BY ShortSequences DEF IsPath
  <2>2. << >> \in Upto(0)
    BY <1>2, <2>1
  <2>3. ASSUME NEW at \in Upto(0)
        PROVE  at = << >>
    <3>1. IsSequence(at) /\ Len(at) = 0
      BY SequenceOf DEF IsPath
    <3>2. at = [i \in 1..0 |-> at[i]] /\ 1..0 = {}
      BY <3>1 DEF IsSequence
    <3> QED
      BY <3>2
  <2> HIDE DEF Upto
  <2> QED
    BY <2>2, <2>3
<1>4. ASSUME NEW n \in 1..M
      PROVE  Upto(n) = Upto(n - 1) \cup Longer(Upto(n - 1))
  <2>1. Upto(n - 1) \subseteq Upto(n)
    <3>1. \A at : IsPath(at) => Len(at) \in Nat
      BY <1>2, <1>1
    <3> QED
      BY <1>1, <3>1
  <2>2. ASSUME NEW at \in Upto(n - 1), IsInjective(Along(at)) /\ Len(at) <= MaxAssemblyDepth,
               NEW k \in UsagesOf(Last(Along(at)))
        PROVE  Append(at, k) \in Upto(n)
    <3>1. IsPath(at) /\ IsSequence(at) /\ Len(at) \in Nat /\ Len(at) <= n - 1
      BY <2>2, SequenceOf DEF IsPath
    <3>2. GoesOn(at, Len(at)) /\ k \in UsagesOf(DefinitionAt(at, Len(at)))
      BY <2>2, <3>1, OpenGoesOn, LastAlong
    <3>3. IsPath(Append(at, k)) /\ Len(Append(at, k)) = Len(at) + 1
      BY <3>1, <3>2, PathLonger
    <3>4. Len(Append(at, k)) <= n
      BY <1>1, <3>1, <3>3
    <3> QED
      BY <1>2, <3>3, <3>4
  <2>3. ASSUME NEW at \in Upto(n), at \notin Upto(n - 1)
        PROVE  at \in Longer(Upto(n - 1))
    <3>1. IsPath(at) /\ Len(at) = n /\ n # 0
      BY <1>1, <1>2, <2>3
    <3>2. /\ IsPath(Front(at)) /\ Len(Front(at)) = n - 1
          /\ GoesOn(Front(at), n - 1)
          /\ at[n] \in UsagesOf(Last(Along(Front(at))))
          /\ at = Append(Front(at), at[n])
      BY <3>1, PathShorter
    <3>3. IsInjective(Along(Front(at))) /\ Len(Front(at)) <= MaxAssemblyDepth
      BY <3>2, OpenGoesOn DEF IsPath
    <3>4. Front(at) \in Upto(n - 1)
      BY <1>1, <1>2, <3>2
    <3> HIDE DEF Upto
    <3> QED
      BY <3>2, <3>3, <3>4
  <2> HIDE DEF Upto
  <2>4. Longer(Upto(n - 1)) \subseteq Upto(n)
    <3> SUFFICES ASSUME NEW x \in Longer(Upto(n - 1))
                 PROVE  x \in Upto(n)
      OBVIOUS
    <3>1. PICK at \in {p \in Upto(n - 1) : IsInjective(Along(p)) /\ Len(p) <= MaxAssemblyDepth} :
            x \in {Append(at, k) : k \in UsagesOf(Last(Along(at)))}
      OBVIOUS
    <3>2. PICK k \in UsagesOf(Last(Along(at))) : x = Append(at, k)
      BY <3>1
    <3> QED
      BY <2>2, <3>1, <3>2
  <2>5. Upto(n) \subseteq Upto(n - 1) \cup Longer(Upto(n - 1))
    <3> HIDE DEF Longer
    <3> QED
      BY <2>3
  <2> HIDE DEF Longer
  <2> QED
    BY <2>1, <2>4, <2>5
<1>5. Is(whole)
  <2> HIDE DEF Upto, Longer
  <2>1. \A n \in 0..M : n # 0 => n \in 1..M /\ n - 1 \in 0..M
    BY <1>1
  <2>2. \A n \in 0..M : whole[n] = IF n = 0 THEN {<< >>} ELSE whole[n - 1] \cup Longer(whole[n - 1])
    BY <1>3, <1>4, <2>1
  <2> QED
    BY <2>2
<1>6. Is(g)
  <2> HIDE DEF Is, whole
  <2> QED
    BY <1>5
<1>7. Paths = g[M]
  BY DEF Paths, M
<1> HIDE DEF g, Longer
<1>8. \A n \in 0..M : g[n] = IF n = 0 THEN {<< >>} ELSE g[n - 1] \cup Longer(g[n - 1])
  BY <1>6
<1> DEFINE P == {n \in 0..M : g[n] = Upto(n)}
<1>9. g[M] = Upto(M)
  <2> HIDE DEF Upto
  <2>1. 0 \in P
    <3>1. 0 \in 0..M
      BY <1>1
    <3>2. g[0] = {<< >>}
      BY <1>8, <3>1
    <3> QED
      BY <1>3, <3>1, <3>2
  <2>2. ASSUME NEW n \in 0..M - 1, n \in P
        PROVE  n + 1 \in P
    <3>1. n + 1 \in 1..M /\ n + 1 \in 0..M /\ (n + 1) - 1 = n /\ n + 1 # 0
      BY <1>1
    <3> QED
      BY <1>4, <1>8, <2>2, <3>1, ZenonT(40)
  <2> HIDE DEF P
  <2>3. 0..M \subseteq P
    BY <1>1, <2>1, <2>2, IntervalInduction
  <2>4. M \in P
    BY <1>1, <2>3
  <2> QED
    BY <2>4 DEF P
<1> QED
  BY <1>2, <1>7, <1>9, <1>1

IsListed(at) == \E i \in DOMAIN listed : listed[i].path = at

(* A path goes on through a usage that the i-th level has not come to.      *)
ToCome(at, i, level, above) ==
  LET uses == ChildUsages(structure, level.definition)
  IN  /\ i <= Len(at) /\ Agree(at, above, i - 1)
      /\ \E j \in DOMAIN uses : j >= level.next /\ at[i] = uses[j]

Pending(at) == \E i \in 1..Len(stack) : ToCome(at, i, stack[i], path)

CompleteInv ==
  /\ Len(stack) # 0 => IsPath(path) /\ GoesOn(path, Len(path))
  /\ \A i \in DOMAIN listed : IsPath(listed[i].path)
  /\ \A at : IsPath(at) => IsListed(at) \/ Pending(at)

(* The level on top stands after a path: at its first usage if the path ends *)
(* there, and else after the usage the path takes from it.                  *)
StandsAfter(level, above, at) ==
  IF level.next = 1 THEN at = above
  ELSE LET n == Len(above) + 1
       IN  n <= Len(at) /\ Agree(at, above, n - 1) /\ TakenFrom(level, at[n])

OrderInv ==
  /\ Len(listed) # 0
  /\ \A i \in 1..(Len(listed) - 1) : ComesBefore(listed[i].path, listed[i + 1].path)
  /\ Len(stack) # 0 => StandsAfter(stack[Len(stack)], path, listed[Len(listed)].path)

OccurrencesInv ==
  /\ WalkInv
  /\ pc = "done" => stack = << >>
  /\ pc \in {"walking", "done"} => CompleteInv /\ OrderInv

LEMMA SameSubSeq ==
  ASSUME NEW s, NEW t, NEW n \in Nat, Agree(s, t, n)
  PROVE  SubSeq(s, 1, n) = SubSeq(t, 1, n)
<1> DEFINE S == {s[i] : i \in 1..n}
           a == SubSeq(s, 1, n)
           b == SubSeq(t, 1, n)
<1>1. \A i \in 1..n : s[i] \in S /\ t[i] \in S
  BY DEF Agree
<1> HIDE DEF S
<1>2. a \in Seq(S) /\ Len(a) = n /\ \A i \in 1..n : a[i] = s[i]
  <2>1. /\ a \in Seq(S) /\ Len(a) = IF 1 <= n THEN n - 1 + 1 ELSE 0
        /\ \A i \in 1..n - 1 + 1 : a[i] = s[1 + i - 1]
    BY <1>1, SubSeqProperties
  <2>2. n - 1 + 1 = n /\ \A i \in 1..n : 1 + i - 1 = i
    OBVIOUS
  <2> HIDE DEF a
  <2> QED
    BY <2>1, <2>2
<1>3. b \in Seq(S) /\ Len(b) = n /\ \A i \in 1..n : b[i] = t[i]
  <2>1. /\ b \in Seq(S) /\ Len(b) = IF 1 <= n THEN n - 1 + 1 ELSE 0
        /\ \A i \in 1..n - 1 + 1 : b[i] = t[1 + i - 1]
    BY <1>1, SubSeqProperties
  <2>2. n - 1 + 1 = n /\ \A i \in 1..n : 1 + i - 1 = i
    OBVIOUS
  <2> HIDE DEF b
  <2> QED
    BY <2>1, <2>2
<1> HIDE DEF a, b
<1>4. a = [i \in 1..n |-> a[i]] /\ b = [i \in 1..n |-> b[i]]
  BY <1>2, <1>3, SeqIsSequence DEF IsSequence
<1>5. a = b
  BY <1>2, <1>3, <1>4 DEF Agree
<1> QED
  BY <1>5 DEF a, b

LEMMA LongerComesAfter ==
  ASSUME NEW at, IsSequence(at), NEW k
  PROVE  ComesBefore(at, Append(at, k))
<1> DEFINE n == Len(at)
           longer == Append(at, k)
<1>1. n \in Nat /\ Len(longer) = n + 1 /\ \A i \in 1..n : longer[i] = at[i]
  BY SequenceOf, AppendSequence
<1>2. SubSeq(at, 1, n) = SubSeq(longer, 1, n)
  BY <1>1, SameSubSeq DEF Agree
<1> HIDE DEF longer, n
<1>3. Len(at) <= Len(longer) /\ at # longer
  BY <1>1 DEF n
<1> QED
  BY <1>2, <1>3 DEF ComesBefore, IsStrictPrefix, IsPrefix, n, longer

LEMMA LaterComesAfter ==
  ASSUME NEW a, NEW b, NEW n \in Nat \ {0}, n \in DOMAIN a, n \in DOMAIN b,
         Agree(a, b, n - 1), a[n] < b[n]
  PROVE  ComesBefore(a, b)
<1>1. SubSeq(a, 1, n - 1) = SubSeq(b, 1, n - 1)
  <2>1. n - 1 \in Nat
    OBVIOUS
  <2> QED
    BY <2>1, SameSubSeq
<1> QED
  BY <1>1 DEF ComesBefore

LEMMA PathsUnchanged ==
  ASSUME structure' = structure, root' = root
  PROVE  /\ \A at : IsPath(at)' <=> IsPath(at)
         /\ \A at, n : GoesOn(at, n)' <=> GoesOn(at, n)
         /\ \A at, i, level, above : ToCome(at, i, level, above)' <=> ToCome(at, i, level, above)
         /\ \A level, above, at : StandsAfter(level, above, at)' <=> StandsAfter(level, above, at)
<1>1. \A at, i : DefinitionAt(at, i)' = DefinitionAt(at, i)
  BY DEF DefinitionAt, Child
<1>2. \A d : UsagesOf(d)' = UsagesOf(d)
  BY DEF UsagesOf
<1>3. \A at, n : GoesOn(at, n)' <=> GoesOn(at, n)
  BY <1>1 DEF GoesOn
<1>4. \A at : IsPath(at)' <=> IsPath(at)
  BY <1>1, <1>2, <1>3 DEF IsPath
<1>5. \A at, i, level, above : ToCome(at, i, level, above)' <=> ToCome(at, i, level, above)
  BY DEF ToCome, ChildUsages, Agree
<1>6. \A level, usage : TakenFrom(level, usage)' <=> TakenFrom(level, usage)
  BY DEF TakenFrom, ChildUsages
<1>7. \A level, above, at : StandsAfter(level, above, at)' <=> StandsAfter(level, above, at)
  BY <1>6 DEF StandsAfter, Agree
<1> QED
  BY <1>3, <1>4, <1>5, <1>7

(* The usage visited makes the path one longer, and it is refused if the      *)
(* walk does not go on below it.                                           *)
LEMMA VisitPath ==
  ASSUME OccurrencesInv, Visit, NEW n \in Nat, n # 0, Len(stack) = n
  PROVE  /\ IsPath(Below)
         /\ RefusedNow = {} <=> GoesOn(Below, n)
         /\ \A i \in 1..n : stack[i].definition = DefinitionAt(Below, i - 1)
<1>1. /\ Len(path) = n - 1 /\ Top = stack[n] /\ Next1 \in UsagesOf(Top.definition)
      /\ IsSequence(Below) /\ Len(Below) = n /\ Below[n] = Next1
      /\ \A i \in 1..n - 1 : Below[i] = path[i]
  BY VisitFacts DEF OccurrencesInv
<1>2. IsPath(path) /\ GoesOn(path, n - 1)
  BY <1>1 DEF Visit, OccurrencesInv, CompleteInv
<1>3. \A i \in 1..n : stack[i].definition = DefinitionAt(path, i - 1)
  <2> TAKE i \in 1..n
  <2>1. CASE i = 1
    <3>1. stack[1].definition = root
      BY DEF OccurrencesInv, WalkInv, StackInv
    <3> QED
      BY <2>1, <3>1 DEF DefinitionAt
  <2>2. CASE i # 1
    <3>1. i - 1 \in 1..Len(path) /\ (i - 1) + 1 = i /\ i - 1 # 0
      BY <1>1, <2>2
    <3>2. stack[(i - 1) + 1].definition = Child(path[i - 1])
      BY <3>1 DEF OccurrencesInv, WalkInv, StackInv
    <3> QED
      BY <3>1, <3>2 DEF DefinitionAt
  <2> QED
    BY <2>1, <2>2
<1>4. IsPath(Below)
  <2>1. n \in 1..n
    OBVIOUS
  <2>2. Next1 \in UsagesOf(DefinitionAt(path, Len(path)))
    BY <1>1, <1>3, <2>1
  <2> QED
    BY <1>1, <1>2, <2>2, PathLonger DEF Below
<1>5. \A i \in 0..n - 1 : DefinitionAt(Below, i) = DefinitionAt(path, i)
  <2>1. Agree(Below, path, n - 1) /\ n - 1 \in Nat
    BY <1>1 DEF Agree
  <2> QED
    BY <2>1, AgreeDefinitions
<1>6. DefinitionAt(Below, n) = Child(Next1)
  BY <1>1 DEF DefinitionAt
<1>7. OnPath(Child(Next1)) <=> \E i \in 0..n - 1 : DefinitionAt(Below, i) = DefinitionAt(Below, n)
  <2>1. DOMAIN stack = 1..n
    BY VisitFacts DEF OccurrencesInv
  <2>2. OnPath(Child(Next1)) <=> \E i \in 1..n : DefinitionAt(path, i - 1) = Child(Next1)
    BY <1>3, <2>1 DEF OnPath
  <2>3. \A i \in 1..n : i - 1 \in 0..n - 1
    OBVIOUS
  <2>4. \A i \in 0..n - 1 : i + 1 \in 1..n /\ (i + 1) - 1 = i
    OBVIOUS
  <2> QED
    BY <1>5, <1>6, <2>2, <2>3, <2>4
<1>8. GoesOn(Below, n) <=> ~OnPath(Child(Next1)) /\ n <= MaxAssemblyDepth
  <2>1. ASSUME GoesOn(Below, n), NEW i \in 0..n - 1
        PROVE  DefinitionAt(Below, i) # DefinitionAt(Below, n)
    <3>1. i \in 0..n /\ n \in 0..n /\ i # n
      OBVIOUS
    <3> QED
      BY <2>1, <3>1 DEF GoesOn
  <2>2. ASSUME \A i \in 0..n - 1 : DefinitionAt(Below, i) # DefinitionAt(Below, n),
               NEW i \in 0..n, NEW j \in 0..n, DefinitionAt(Below, i) = DefinitionAt(Below, j)
        PROVE  i = j
    <3>1. (i = n \/ i \in 0..n - 1) /\ (j = n \/ j \in 0..n - 1)
      OBVIOUS
    <3>2. i \in 0..n - 1 /\ j \in 0..n - 1 => i = j
      BY <1>2, <1>5, <2>2 DEF GoesOn
    <3> QED
      BY <2>2, <3>1, <3>2
  <2> QED
    BY <1>7, <2>1, <2>2 DEF GoesOn
<1>9. RefusedNow = {} <=> ~OnPath(Child(Next1)) /\ n <= MaxAssemblyDepth
  BY <1>1, AssemblyDepth DEF RefusedNow, Refusal, Child
<1>10. \A i \in 1..n : stack[i].definition = DefinitionAt(Below, i - 1)
  <2>1. \A i \in 1..n : i - 1 \in 0..n - 1
    OBVIOUS
  <2> QED
    BY <1>3, <1>5, <2>1
<1> QED
  BY <1>4, <1>8, <1>9, <1>10

LEMMA CompleteVisit ==
  ASSUME OccurrencesInv, Visit
  PROVE  CompleteInv'
<1>1. PICK n \in Nat : n # 0 /\ Len(stack) = n
  <2>1. stack # << >> /\ StackInv
    BY DEF Visit, OccurrencesInv, WalkInv
  <2> QED
    BY <2>1, TopLevel
<1>2. /\ Len(path) = n - 1 /\ Top = stack[n] /\ Next1 = TopUsages[Top.next] /\ IsLevel(Top)
      /\ IsSequence(Below) /\ Len(Below) = n /\ Below[n] = Next1
      /\ \A i \in 1..n - 1 : Below[i] = path[i]
      /\ listed' = Append(listed, Occurrence(Below, Child(Next1), Components, NewTransform))
      /\ SameElsewhere(stack, stack', n)
      /\ RefusedNow = {} => /\ Len(stack') = n + 1 /\ path' = Below
                            /\ stack'[n + 1] = Level(Child(Next1), NewTransform, NewSpace)
      /\ RefusedNow # {} => Len(stack') = n /\ path' = path
      /\ UNCHANGED <<structure, root>>
  <2>1. n \in 1..n
    BY <1>1
  <2> QED
    BY <1>1, <2>1, VisitFacts DEF OccurrencesInv, Next1, WalkInv, StackInv
<1>3. /\ IsPath(Below)
      /\ RefusedNow = {} <=> GoesOn(Below, n)
  BY <1>1, VisitPath
<1>4. /\ \A at : IsPath(at)' <=> IsPath(at)
      /\ \A at, m : GoesOn(at, m)' <=> GoesOn(at, m)
      /\ \A at, i, level, above : ToCome(at, i, level, above)' <=> ToCome(at, i, level, above)
  BY <1>2, PathsUnchanged
<1>5. CompleteInv
  BY DEF Visit, OccurrencesInv
<1>6. IsPath(path)' /\ GoesOn(path, Len(path))'
  <2>1. IsPath(path) /\ GoesOn(path, Len(path))
    BY <1>1, <1>5 DEF CompleteInv
  <2>2. \A at, m : (IsPath(at)' <=> IsPath(at)) /\ (GoesOn(at, m)' <=> GoesOn(at, m))
    BY <1>4
  <2>3. CASE RefusedNow = {}
    <3>1. path' = Below /\ IsPath(Below) /\ GoesOn(Below, Len(Below))
      BY <1>2, <1>3, <2>3
    <3> QED
      BY <2>2, <3>1
  <2>4. CASE RefusedNow # {}
    <3>1. path' = path
      BY <1>2, <2>4
    <3> QED
      BY <2>1, <2>2, <3>1
  <2> QED
    BY <2>3, <2>4
<1>7. PICK m \in Nat : /\ DOMAIN listed' = 1..m + 1 /\ DOMAIN listed = 1..m
                       /\ listed'[m + 1].path = Below /\ \A i \in 1..m : listed'[i] = listed[i]
  <2> DEFINE e == Occurrence(Below, Child(Next1), Components, NewTransform)
  <2>1. e.path = Below
    BY DEF Occurrence
  <2>2. listed' = Append(listed, e)
    BY <1>2
  <2> HIDE DEF e
  <2> QED
    BY <1>2, <2>1, <2>2, ListedGrows DEF OccurrencesInv, WalkInv
<1>8. \A i \in DOMAIN listed' : IsPath(listed'[i].path)
  <2> TAKE i \in DOMAIN listed'
  <2>1. i = m + 1 \/ i \in 1..m
    BY <1>7
  <2> QED
    BY <1>3, <1>5, <1>7, <2>1 DEF CompleteInv
<1>9. \A at : IsListed(at) \/ at = Below => IsListed(at)'
  <2>1. m + 1 \in DOMAIN listed' /\ \A i \in DOMAIN listed : i \in DOMAIN listed'
    BY <1>7
  <2> QED
    BY <1>7, <2>1 DEF IsListed
<1>10. ASSUME NEW at, IsPath(at), NEW i \in 1..n, ToCome(at, i, stack[i], path), at # Below
       PROVE  \E j \in 1..Len(stack') : ToCome(at, j, stack'[j], path')
  <2>1. path' \in {path, Below} /\ \A k \in 1..n - 1 : path'[k] = path[k]
    BY <1>2, <1>3
  <2>2. Len(stack') \in Nat /\ Len(stack') >= n /\ i \in 1..Len(stack')
    BY <1>1, <1>2, SequenceOf DEF SameElsewhere
  <2>3. i <= Len(at) /\ Agree(at, path', i - 1)
    <3>1. i <= Len(at) /\ Agree(at, path, i - 1)
      BY <1>10 DEF ToCome
    <3>2. \A k \in 1..i - 1 : k \in 1..n - 1
      BY <1>1
    <3> QED
      BY <2>1, <3>1, <3>2 DEF Agree
  <2>4. CASE i # n
    <3>1. i \in 1..n - 1 /\ stack'[i] = stack[i]
      BY <1>1, <1>2, <2>4 DEF SameElsewhere
    <3>2. ToCome(at, i, stack'[i], path')
      BY <1>10, <2>3, <3>1 DEF ToCome
    <3> QED
      BY <2>2, <3>2
  <2>5. CASE i = n
    <3>1. PICK j \in DOMAIN TopUsages : j >= Top.next /\ at[n] = TopUsages[j]
      BY <1>2, <1>10, <2>5 DEF ToCome, TopUsages
    <3>2. stack'[n].definition = Top.definition /\ stack'[n].next = Top.next + 1
      BY <1>2 DEF SameElsewhere
    <3>3. \E c \in Nat : DOMAIN TopUsages = 1..c
      BY UsagesInOrder DEF OccurrencesInv, WalkInv, ReadsInv, TopUsages
    <3>4. CASE j # Top.next
      <4>1. j >= Top.next + 1
        BY <1>2, <3>1, <3>3, <3>4 DEF IsLevel
      <4>2. ToCome(at, n, stack'[n], path')
        BY <2>3, <2>5, <3>1, <3>2, <4>1 DEF ToCome, TopUsages
      <4> QED
        BY <2>2, <2>5, <4>2
    <3>5. CASE j = Top.next
      <4>1. Agree(at, Below, n)
        <5> SUFFICES ASSUME NEW k \in 1..n
                     PROVE  at[k] = Below[k]
          BY DEF Agree
        <5>1. k = n \/ k \in 1..n - 1
          BY <1>1
        <5> QED
          BY <1>2, <1>10, <2>5, <3>1, <3>5, <5>1 DEF ToCome, Agree
      <4>2. IsSequence(at) /\ Len(at) \in Nat /\ n <= Len(at)
        BY <1>10, <2>3, <2>5, SequenceOf DEF IsPath
      <4>3. Len(at) # n
        <5> SUFFICES ASSUME Len(at) = n
                     PROVE  at = Below
          BY <1>10
        <5>1. at = [k \in 1..n |-> at[k]] /\ Below = [k \in 1..n |-> Below[k]]
          BY <1>2, <4>2 DEF IsSequence
        <5>2. \A k \in 1..n : at[k] = Below[k]
          BY <4>1 DEF Agree
        <5> QED
          BY <5>1, <5>2
      <4>4. GoesOn(at, n)
        <5>1. GoesOn(at, Len(at) - 1) /\ n <= Len(at) - 1 /\ Len(at) - 1 \in Nat
          BY <1>1, <1>10, <4>2, <4>3 DEF IsPath
        <5> QED
          BY <1>1, <5>1, GoesOnBelow
      <4>5. RefusedNow = {}
        BY <1>1, <1>3, <4>1, <4>4, AgreeDefinitions
      <4>6. /\ Len(stack') = n + 1 /\ path' = Below
            /\ stack'[n + 1].definition = Child(Next1) /\ stack'[n + 1].next = 1
        BY <1>2, <4>5 DEF Level
      <4>7. at[n + 1] \in UsagesOf(Child(Next1))
        <5>1. n + 1 \in 1..Len(at) /\ (n + 1) - 1 = n
          BY <1>1, <4>2, <4>3
        <5>2. at[n + 1] \in UsagesOf(DefinitionAt(at, n))
          BY <1>10, <5>1 DEF IsPath
        <5>3. DefinitionAt(at, n) = Child(Next1)
          BY <1>1, <1>2, <4>1 DEF DefinitionAt, Agree
        <5> QED
          BY <5>2, <5>3
      <4> DEFINE uses == ChildUsages(structure, Child(Next1))
      <4>8. PICK l \in DOMAIN uses : uses[l] = at[n + 1]
        BY <4>7, UsagesInOrder DEF OccurrencesInv, WalkInv, ReadsInv
      <4>9. l >= 1
        <5>1. \E c \in Nat : DOMAIN uses = 1..c
          BY UsagesInOrder DEF OccurrencesInv, WalkInv, ReadsInv
        <5> HIDE DEF uses
        <5> QED
          BY <5>1
      <4>10. ToCome(at, n + 1, stack'[n + 1], path')
        <5>1. n + 1 <= Len(at) /\ (n + 1) - 1 = n
          BY <1>1, <4>2, <4>3
        <5> QED
          BY <4>1, <4>6, <4>8, <4>9, <5>1 DEF ToCome
      <4>11. n + 1 \in 1..Len(stack')
        BY <1>1, <4>6
      <4> QED
        BY <4>10, <4>11
    <3> QED
      BY <3>4, <3>5
  <2> QED
    BY <2>4, <2>5
<1>11. \A at : IsPath(at) => IsListed(at)' \/ Pending(at)'
  <2> SUFFICES ASSUME NEW at, IsPath(at), ~IsListed(at)'
               PROVE  Pending(at)'
    OBVIOUS
  <2>1. at # Below /\ Pending(at)
    BY <1>5, <1>9 DEF CompleteInv
  <2>2. PICK i \in 1..n : ToCome(at, i, stack[i], path)
    BY <1>1, <2>1 DEF Pending
  <2>3. PICK j \in 1..Len(stack') : ToCome(at, j, stack'[j], path')
    BY <1>10, <2>1, <2>2
  <2>4. ToCome(at, j, stack[j], path)'
    BY <1>4, <2>3
  <2> QED
    BY <2>4 DEF Pending
<1> QED
  BY <1>4, <1>6, <1>8, <1>11 DEF CompleteInv

LEMMA CompletePop ==
  ASSUME OccurrencesInv, Pop
  PROVE  CompleteInv'
<1>1. PICK n \in Nat : n # 0 /\ Len(stack) = n
  <2>1. stack # << >> /\ StackInv
    BY DEF Pop, OccurrencesInv, WalkInv
  <2> QED
    BY <2>1, TopLevel
<1>2. /\ Len(path) = n - 1 /\ Top = stack[n] /\ Top.next \notin DOMAIN TopUsages
      /\ IsSequence(stack') /\ Len(stack') = n - 1 /\ \A i \in 1..n - 1 : stack'[i] = stack[i]
      /\ IsSequence(path') /\ Len(path') = (IF n = 1 THEN 0 ELSE n - 2)
      /\ \A i \in 1..n - 2 : path'[i] = path[i]
      /\ UNCHANGED <<structure, root, listed>>
  BY <1>1, PopFacts DEF OccurrencesInv
<1>3. /\ \A at : IsPath(at)' <=> IsPath(at)
      /\ \A at, m : GoesOn(at, m)' <=> GoesOn(at, m)
      /\ \A at, i, level, above : ToCome(at, i, level, above)' <=> ToCome(at, i, level, above)
  BY <1>2, PathsUnchanged
<1>4. CompleteInv
  BY DEF Pop, OccurrencesInv
<1>5. Len(stack') # 0 => IsPath(path)' /\ GoesOn(path, Len(path))'
  <2> SUFFICES ASSUME Len(stack') # 0
               PROVE  IsPath(path)' /\ GoesOn(path, Len(path))'
    OBVIOUS
  <2>1. n # 1 /\ path' = Front(path) /\ Len(path) # 0
    BY <1>1, <1>2 DEF Pop
  <2>2. IsPath(path) /\ GoesOn(path, n - 1)
    BY <1>1, <1>2, <1>4 DEF CompleteInv
  <2>3. IsPath(path') /\ GoesOn(path', n - 2) /\ Len(path') = n - 2
    <3>1. IsPath(Front(path)) /\ GoesOn(Front(path), Len(path) - 1)
      BY <2>1, <2>2, PathShorter
    <3>2. n - 2 \in Nat /\ n - 1 \in Nat /\ n - 2 <= n - 1
      BY <1>1, <2>1
    <3> QED
      BY <1>2, <2>1, <3>1, <3>2, GoesOnBelow
  <2>4. \A at, m : (IsPath(at)' <=> IsPath(at)) /\ (GoesOn(at, m)' <=> GoesOn(at, m))
    BY <1>3
  <2> QED
    BY <2>3, <2>4
<1>6. ASSUME NEW at, NEW i \in 1..n, ToCome(at, i, stack[i], path)
      PROVE  i \in 1..Len(stack') /\ ToCome(at, i, stack'[i], path')
  <2>1. i # n
    <3> SUFFICES ASSUME i = n
                 PROVE  FALSE
      OBVIOUS
    <3>1. PICK j \in DOMAIN TopUsages : j >= Top.next
      BY <1>2, <1>6 DEF ToCome, TopUsages
    <3>2. \E c \in Nat : DOMAIN TopUsages = 1..c
      BY UsagesInOrder DEF OccurrencesInv, WalkInv, ReadsInv, TopUsages
    <3>3. Top.next \in Nat \ {0}
      <4>1. n \in 1..n
        BY <1>1
      <4> QED
        BY <1>1, <1>2, <4>1 DEF OccurrencesInv, WalkInv, StackInv, IsLevel
    <3> QED
      BY <1>2, <3>1, <3>2, <3>3
  <2>2. i \in 1..n - 1 /\ \A k \in 1..i - 1 : k \in 1..n - 2
    BY <1>1, <2>1
  <2> QED
    BY <1>2, <1>6, <2>2 DEF ToCome, Agree
<1>7. \A at : IsPath(at) => IsListed(at)' \/ Pending(at)'
  <2> SUFFICES ASSUME NEW at, IsPath(at), ~IsListed(at)'
               PROVE  Pending(at)'
    OBVIOUS
  <2>1. Pending(at)
    BY <1>2, <1>4 DEF CompleteInv, IsListed
  <2>2. PICK i \in 1..n : ToCome(at, i, stack[i], path)
    BY <1>1, <2>1 DEF Pending
  <2>3. i \in 1..Len(stack') /\ ToCome(at, i, stack'[i], path')
    BY <1>6, <2>2
  <2>4. ToCome(at, i, stack[i], path)'
    BY <1>3, <2>3
  <2> QED
    BY <2>3, <2>4 DEF Pending
<1>8. \A i \in DOMAIN listed' : IsPath(listed'[i].path)
  BY <1>2, <1>4 DEF CompleteInv
<1> QED
  BY <1>3, <1>5, <1>7, <1>8 DEF CompleteInv

(* What is visited comes after what was listed last.                        *)
LEMMA OrderVisit ==
  ASSUME OccurrencesInv, Visit
  PROVE  OrderInv'
<1>1. PICK n \in Nat : n # 0 /\ Len(stack) = n
  <2>1. stack # << >> /\ StackInv
    BY DEF Visit, OccurrencesInv, WalkInv
  <2> QED
    BY <2>1, TopLevel
<1>2. /\ Len(path) = n - 1 /\ Top = stack[n] /\ Next1 = TopUsages[Top.next] /\ IsLevel(Top)
      /\ Top.next \in DOMAIN TopUsages
      /\ IsSequence(Below) /\ Len(Below) = n /\ DOMAIN Below = 1..n /\ Below[n] = Next1
      /\ \A i \in 1..n - 1 : Below[i] = path[i]
      /\ listed' = Append(listed, Occurrence(Below, Child(Next1), Components, NewTransform))
      /\ SameElsewhere(stack, stack', n)
      /\ RefusedNow = {} => /\ Len(stack') = n + 1 /\ path' = Below
                            /\ stack'[n + 1] = Level(Child(Next1), NewTransform, NewSpace)
      /\ RefusedNow # {} => Len(stack') = n /\ path' = path
      /\ UNCHANGED <<structure, root>>
  <2>1. n \in 1..n
    BY <1>1
  <2> QED
    BY <1>1, <2>1, VisitFacts DEF OccurrencesInv, Next1, WalkInv, StackInv
<1>3. OrderInv /\ ListedInv /\ IsSequence(structure.usages) /\ IsSequence(path)
  BY DEF Visit, OccurrencesInv, WalkInv, ReadsInv, StackInv
<1>4. PICK m \in Nat : /\ m = Len(listed) /\ Len(listed') = m + 1
                       /\ DOMAIN listed = 1..m
                       /\ listed'[m + 1].path = Below /\ \A i \in 1..m : listed'[i] = listed[i]
  <2> DEFINE e == Occurrence(Below, Child(Next1), Components, NewTransform)
  <2>1. e.path = Below
    BY DEF Occurrence
  <2>2. listed' = Append(listed, e)
    BY <1>2
  <2> HIDE DEF e
  <2> QED
    BY <1>2, <1>3, <2>1, <2>2, ListedGrows
<1>5. m # 0
  BY <1>3, <1>4 DEF OrderInv
<1> DEFINE last == listed[m].path
<1>6. ComesBefore(last, Below)
  <2>1. StandsAfter(Top, path, last)
    BY <1>1, <1>2, <1>3, <1>4 DEF OrderInv
  <2>2. CASE Top.next = 1
    <3>1. last = path
      BY <2>1, <2>2 DEF StandsAfter
    <3> QED
      BY <1>3, <3>1, LongerComesAfter DEF Below
  <2>3. CASE Top.next # 1
    <3>1. (n - 1) + 1 = n
      BY <1>1
    <3>2. n <= Len(last) /\ Agree(last, path, n - 1) /\ TakenFrom(Top, last[n])
      BY <1>2, <2>1, <2>3, <3>1 DEF StandsAfter
    <3>3. n \in DOMAIN last
      <4>1. m \in DOMAIN listed
        BY <1>4, <1>5
      <4>2. IsSequence(last)
        BY <1>3, <4>1 DEF ListedInv
      <4> HIDE DEF last
      <4> QED
        BY <1>1, <3>2, <4>2, SequenceOf
    <3>4. n \in DOMAIN Below /\ Agree(last, Below, n - 1)
      BY <1>1, <1>2, <3>2 DEF Agree
    <3>5. last[n] < Below[n]
      <4>1. Top.next - 1 \in DOMAIN TopUsages /\ last[n] = TopUsages[Top.next - 1]
        BY <3>2 DEF TakenFrom, TopUsages
      <4>2. \A i, j \in DOMAIN TopUsages : i < j => TopUsages[i] < TopUsages[j]
        BY <1>3, UsagesInOrder DEF TopUsages
      <4>3. Top.next - 1 < Top.next
        BY <1>2 DEF IsLevel
      <4> QED
        BY <1>2, <4>1, <4>2, <4>3
    <3> HIDE DEF last
    <3> QED
      BY <1>1, <3>3, <3>4, <3>5, LaterComesAfter
  <2> QED
    BY <2>2, <2>3
<1>7. \A i \in 1..m : ComesBefore(listed'[i].path, listed'[i + 1].path)
  <2> TAKE i \in 1..m
  <2>1. CASE i = m
    BY <1>4, <1>5, <1>6, <2>1
  <2>2. CASE i # m
    <3>1. i \in 1..m - 1 /\ i + 1 \in 1..m
      BY <2>2
    <3> QED
      BY <1>3, <1>4, <3>1 DEF OrderInv
  <2> QED
    BY <2>1, <2>2
<1>8. \A level, above, at : StandsAfter(level, above, at)' <=> StandsAfter(level, above, at)
  BY <1>2, PathsUnchanged
<1>9. StandsAfter(stack'[Len(stack')], path', Below)
  <2>1. CASE RefusedNow = {}
    <3>1. path' = Below /\ stack'[Len(stack')].next = 1
      BY <1>2, <2>1 DEF Level
    <3> QED
      BY <3>1 DEF StandsAfter
  <2>2. CASE RefusedNow # {}
    <3>1. /\ Len(stack') = n /\ path' = path
          /\ stack'[n].definition = Top.definition /\ stack'[n].next = Top.next + 1
      BY <1>2, <2>2 DEF SameElsewhere
    <3>2. Top.next \in Nat \ {0}
      BY <1>2 DEF IsLevel
    <3>3. Agree(Below, path, n - 1) /\ (n - 1) + 1 = n
      BY <1>1, <1>2 DEF Agree
    <3>4. TakenFrom(stack'[n], Below[n])
      <4>1. (Top.next + 1) - 1 = Top.next
        BY <3>2
      <4> QED
        BY <1>2, <3>1, <4>1 DEF TakenFrom, TopUsages
    <3>5. stack'[n].next # 1 /\ n <= Len(Below)
      BY <1>1, <1>2, <3>1, <3>2
    <3> QED
      BY <1>2, <3>1, <3>3, <3>4, <3>5 DEF StandsAfter
  <2> QED
    BY <2>1, <2>2
<1>10. StandsAfter(stack[Len(stack)], path, listed[Len(listed)].path)'
  <2>1. StandsAfter(stack'[Len(stack')], path', listed'[Len(listed')].path)
    BY <1>4, <1>9
  <2> QED
    BY <1>8, <2>1
<1>11. Len(listed') # 0 /\ Len(listed') - 1 = m
  BY <1>4
<1> QED
  BY <1>7, <1>10, <1>11 DEF OrderInv, ComesBefore

LEMMA OrderPop ==
  ASSUME OccurrencesInv, Pop
  PROVE  OrderInv'
<1>1. PICK n \in Nat : n # 0 /\ Len(stack) = n
  <2>1. stack # << >> /\ StackInv
    BY DEF Pop, OccurrencesInv, WalkInv
  <2> QED
    BY <2>1, TopLevel
<1>2. /\ Len(path) = n - 1 /\ Top = stack[n]
      /\ Len(stack') = n - 1 /\ \A i \in 1..n - 1 : stack'[i] = stack[i]
      /\ Len(path') = (IF n = 1 THEN 0 ELSE n - 2)
      /\ \A i \in 1..n - 2 : path'[i] = path[i]
      /\ UNCHANGED <<structure, root, listed>>
  BY <1>1, PopFacts DEF OccurrencesInv
<1>3. OrderInv /\ StackInv
  BY DEF Pop, OccurrencesInv, WalkInv
<1>4. \A level, above, at : StandsAfter(level, above, at)' <=> StandsAfter(level, above, at)
  BY <1>2, PathsUnchanged
<1> DEFINE last == listed[Len(listed)].path
<1>5. ASSUME Len(stack') # 0
      PROVE  StandsAfter(stack'[Len(stack')], path', last)
  <2>1. n # 1 /\ n - 1 \in 1..n - 1 /\ n - 1 # 0
    BY <1>1, <1>2, <1>5
  <2>2. n - 1 <= Len(last) /\ Agree(last, path, n - 1)
    <3>1. StandsAfter(Top, path, last)
      BY <1>1, <1>2, <1>3 DEF OrderInv
    <3>2. CASE Top.next = 1
      <4>1. last = path
        BY <3>1, <3>2 DEF StandsAfter
      <4> QED
        BY <1>1, <1>2, <4>1 DEF Agree
    <3>3. CASE Top.next # 1
      <4>1. (n - 1) + 1 = n
        BY <1>1
      <4>2. n <= Len(last) /\ Agree(last, path, n - 1)
        BY <1>2, <3>1, <3>3, <4>1 DEF StandsAfter
      <4>3. Len(last) \in Nat
        <5>1. Len(listed) \in DOMAIN listed
          <6>1. DOMAIN listed = 1..Len(listed) /\ Len(listed) \in Nat
            BY SequenceOf DEF OccurrencesInv, WalkInv, ListedInv
          <6> QED
            BY <1>3, <6>1 DEF OrderInv
        <5> QED
          BY <5>1, SequenceOf DEF OccurrencesInv, WalkInv, ListedInv
      <4> HIDE DEF last
      <4> QED
        BY <1>1, <4>2, <4>3
    <3> QED
      BY <3>2, <3>3
  <2>3. TakenFrom(stack[n - 1], last[n - 1])
    BY <1>2, <1>3, <2>1, <2>2 DEF StackInv, Agree
  <2>4. stack[n - 1].next # 1
    <3>1. \E c \in Nat : DOMAIN ChildUsages(structure, stack[n - 1].definition) = 1..c
      BY UsagesInOrder DEF OccurrencesInv, WalkInv, ReadsInv
    <3> QED
      BY <2>3, <3>1 DEF TakenFrom
  <2>5. Agree(last, path', n - 2)
    <3>1. \A k \in 1..n - 2 : k \in 1..n - 1
      BY <1>1
    <3> QED
      BY <1>2, <2>2, <3>1 DEF Agree
  <2>6. Len(path') + 1 = n - 1 /\ (n - 1) - 1 = n - 2
    BY <1>1, <1>2, <2>1
  <2>7. stack'[Len(stack')] = stack[n - 1]
    BY <1>2, <2>1
  <2> HIDE DEF last
  <2> QED
    BY <2>2, <2>3, <2>4, <2>5, <2>6, <2>7 DEF StandsAfter
<1>6. Len(stack') # 0 => StandsAfter(stack[Len(stack)], path, listed[Len(listed)].path)'
  <2> SUFFICES ASSUME Len(stack') # 0
               PROVE  StandsAfter(stack[Len(stack)], path, listed[Len(listed)].path)'
    OBVIOUS
  <2>1. StandsAfter(stack'[Len(stack')], path', listed'[Len(listed')].path)
    BY <1>2, <1>5
  <2> QED
    BY <1>4, <2>1
<1> QED
  BY <1>2, <1>3, <1>6 DEF OrderInv, ComesBefore

(* Only the root is listed, and every usage of it is to come.               *)
LEMMA CompleteBegin ==
  ASSUME OccurrencesInv, NEW d, Begin(d)
  PROVE  CompleteInv' /\ OrderInv'
<1> DEFINE level == Level(d, Ok(Identity), RootSpace(d))
           first == Occurrence(<< >>, d, RepresentationOf(RootSpace(d)), Ok(Identity))
<1>1. /\ pc = "placed" /\ root' = d /\ stack' = <<level>> /\ listed' = <<first>>
      /\ structure' = structure /\ path' = path
  BY DEF Begin
<1>2. path' = << >>
  BY <1>1 DEF OccurrencesInv, WalkInv, NotBegun
<1>3. level.definition = d /\ level.next = 1 /\ first.path = << >>
  BY DEF Level, Occurrence
<1> HIDE DEF level, first
<1>4. /\ Len(stack') = 1 /\ stack'[1] = level
      /\ Len(listed') = 1 /\ listed'[1] = first /\ DOMAIN listed' = 1..1
      /\ \A i \in 1..1 : i = 1
  BY <1>1, ShortSequences, SequenceOf
<1>5. IsSequence(<< >>) /\ Len(<< >>) = 0 /\ 1..0 = {}
  BY ShortSequences
<1>6. IsPath(<< >>)' /\ GoesOn(<< >>, 0)'
  BY <1>5, AssemblyDepth DEF IsPath, GoesOn
<1>7. Len(stack') # 0 => IsPath(path)' /\ GoesOn(path, Len(path))'
  BY <1>2, <1>5, <1>6
<1>8. \A i \in DOMAIN listed' : IsPath(listed[i].path)'
  BY <1>3, <1>4, <1>6
<1>9. ASSUME NEW at, IsPath(at)', ~IsListed(at)'
      PROVE  Pending(at)'
  <2>1. IsSequence(at) /\ at # << >>
    BY <1>3, <1>4, <1>9 DEF IsPath, IsListed
  <2>2. Len(at) \in Nat /\ Len(at) # 0
    <3> SUFFICES ASSUME Len(at) = 0
                 PROVE  FALSE
      BY <2>1, SequenceOf
    <3>1. at = [i \in 1..0 |-> at[i]]
      BY <2>1 DEF IsSequence
    <3> QED
      BY <1>5, <2>1, <3>1
  <2>3. at[1] \in UsagesOf(d)
    <3>1. 1 \in 1..Len(at)
      BY <2>2
    <3>2. at[1] \in UsagesOf(DefinitionAt(at, 1 - 1))'
      BY <1>9, <3>1 DEF IsPath
    <3>3. DefinitionAt(at, 1 - 1)' = d
      BY <1>1 DEF DefinitionAt
    <3> QED
      BY <1>1, <3>2, <3>3 DEF UsagesOf
  <2> DEFINE uses == ChildUsages(structure, d)
  <2>4. PICK j \in DOMAIN uses : uses[j] = at[1]
    BY <2>3, UsagesInOrder DEF OccurrencesInv, WalkInv, ReadsInv
  <2>5. j >= 1
    <3>1. \E c \in Nat : DOMAIN uses = 1..c
      BY UsagesInOrder DEF OccurrencesInv, WalkInv, ReadsInv
    <3> HIDE DEF uses
    <3> QED
      BY <3>1
  <2>6. ToCome(at, 1, stack'[1], path')
    <3>1. 1 <= Len(at) /\ 1 - 1 = 0
      BY <2>2
    <3> QED
      BY <1>3, <1>4, <1>5, <2>4, <2>5, <3>1 DEF ToCome, Agree
  <2>7. ToCome(at, 1, stack[1], path)'
    BY <1>1, <2>6 DEF ToCome, Agree, ChildUsages
  <2> QED
    BY <1>4, <2>7 DEF Pending
<1>10. OrderInv'
  <2>1. 1..(Len(listed') - 1) = {} /\ Len(listed') # 0
    BY <1>4
  <2>2. StandsAfter(stack[Len(stack)], path, listed[Len(listed)].path)'
    BY <1>2, <1>3, <1>4 DEF StandsAfter
  <2> QED
    BY <2>1, <2>2 DEF OrderInv
<1> QED
  BY <1>7, <1>8, <1>9, <1>10 DEF CompleteInv

LEMMA OccurrencesInvStep == OccurrencesInv /\ [NextPlacement]_placing => OccurrencesInv'
<1> SUFFICES ASSUME OccurrencesInv, [NextPlacement]_placing
             PROVE  OccurrencesInv'
  OBVIOUS
<1>1. WalkInv'
  BY WalkInvStep DEF OccurrencesInv
<1>2. CASE BuildGraph \/ BuildStructure \/ ReadOne \/ ReadAll
  BY <1>1, <1>2 DEF BuildGraph, BuildStructure, ReadOne, ReadAll, OccurrencesInv
<1>3. ASSUME NEW d, Begin(d)
      PROVE  OccurrencesInv'
  <2>1. pc' = "walking"
    BY <1>3 DEF Begin
  <2> QED
    BY <1>1, <1>3, <2>1, CompleteBegin DEF OccurrencesInv
<1>4. CASE Visit
  <2>1. pc' = "walking"
    BY <1>4 DEF Visit
  <2> QED
    BY <1>1, <1>4, <2>1, CompleteVisit, OrderVisit DEF OccurrencesInv
<1>5. CASE Pop
  <2>1. pc' = "walking"
    BY <1>5 DEF Pop
  <2> QED
    BY <1>1, <1>5, <2>1, CompletePop, OrderPop DEF OccurrencesInv
<1>6. CASE Done \/ UNCHANGED placing
  <2>1. /\ UNCHANGED <<structure, reads, root, stack, path, listed>>
        /\ Done \/ pc' = pc
    BY <1>6 DEF Done, placing
  <2>2. pc' = "done" => stack' = << >>
    BY <1>6, <2>1 DEF Done, OccurrencesInv
  <2>3. ASSUME pc' \in {"walking", "done"}
        PROVE  CompleteInv' /\ OrderInv'
    <3>1. CompleteInv /\ OrderInv
      BY <2>1, <2>3 DEF Done, OccurrencesInv
    <3>2. /\ \A at : IsPath(at)' <=> IsPath(at)
          /\ \A at, n : GoesOn(at, n)' <=> GoesOn(at, n)
          /\ \A at, i, level, above : ToCome(at, i, level, above)' <=> ToCome(at, i, level, above)
          /\ \A level, above, at : StandsAfter(level, above, at)' <=> StandsAfter(level, above, at)
      BY <2>1, PathsUnchanged
    <3>3. CompleteInv'
      BY <2>1, <3>1, <3>2 DEF CompleteInv, IsListed, Pending
    <3>4. OrderInv'
      BY <2>1, <3>1, <3>2 DEF OrderInv, ComesBefore
    <3> QED
      BY <3>3, <3>4
  <2> QED
    BY <1>1, <2>2, <2>3 DEF OccurrencesInv
<1> QED
  BY <1>2, <1>3, <1>4, <1>5, <1>6 DEF NextPlacement

LEMMA OccurrencesInvImplies == OccurrencesInv => OccurrencesComplete
<1> SUFFICES ASSUME OccurrencesInv, pc = "done"
             PROVE  /\ {listed[i].path : i \in DOMAIN listed} = Paths
                    /\ \A i \in 1..(Len(listed) - 1) : ComesBefore(listed[i].path, listed[i + 1].path)
  BY DEF OccurrencesComplete
<1>1. CompleteInv /\ OrderInv /\ Len(stack) = 0 /\ 1..0 = {} /\ IsSequence(structure.usages)
  BY ShortSequences DEF OccurrencesInv, WalkInv, ReadsInv
<1>2. \A at : at \in Paths <=> IsPath(at)
  BY <1>1, PathsAre
<1>3. \A at : IsPath(at) => IsListed(at)
  BY <1>1 DEF CompleteInv, Pending
<1>4. \A i \in DOMAIN listed : IsPath(listed[i].path)
  BY <1>1 DEF CompleteInv
<1>5. {listed[i].path : i \in DOMAIN listed} = Paths
  BY <1>2, <1>3, <1>4 DEF IsListed
<1> QED
  BY <1>1, <1>5 DEF OrderInv

(* Occurrences: whatever the file, an iterator that is exhausted has returned *)
(* every path of usages from the root, each after the one before it, and    *)
(* has gone no further than a cycle or the depth limit.                     *)
THEOREM EveryOccurrenceListed == Spec => []OccurrencesComplete
<1>1. Init => OccurrencesInv
  <2>1. Init => WalkInv /\ pc = "graph"
    BY WalkInvInit DEF Init, StartPlacements
  <2> QED
    BY <2>1 DEF OccurrencesInv
<1>2. OccurrencesInv /\ [NextPlacement]_placing => OccurrencesInv'
  BY OccurrencesInvStep
<1>3. OccurrencesInv => OccurrencesComplete
  BY OccurrencesInvImplies
<1> QED
  BY <1>1, <1>2, <1>3, PTL DEF Spec
=============================================================================
