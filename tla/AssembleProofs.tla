----------------------------- MODULE AssembleProofs -----------------------------
(***************************************************************************)
(* What the run of MCAssemble shows for three component files, for any       *)
(* number of them and however they refer to each other.                    *)
(***************************************************************************)
EXTENDS Assemble, SequenceLemmas

(* The frames: of files in the file system, with their links in order.      *)
IsFrame(frame) ==
  /\ DOMAIN frame = {"name", "file", "offset", "links", "done", "dropped", "rename"}
  /\ IsFile(frame.file) /\ UniqueIds(frame.file)
  /\ frame.links = Links(frame.file)
  /\ frame.done \in 0..Len(frame.links)

StackInv ==
  /\ IsSequence(stack) /\ Len(stack) > 0
  /\ \A i \in 1..Len(stack) : IsFrame(stack[i])
  /\ stack[1].file = call.master
  /\ \A i \in 2..Len(stack) :
       stack[i].name \in Loadable /\ stack[i].file = call.disk[stack[i].name]

(* A file read is under way or merged, not both.                            *)
FilesInv ==
  /\ IsSequence(files)
  /\ \A i, j \in 1..Len(files) : files[i] = files[j] => i = j
  /\ \A i, j \in 2..Len(stack) : stack[i].name = stack[j].name => i = j
  /\ Active \cap DOMAIN merged = {}
  /\ {files[i] : i \in 1..Len(files)} = Active \cup DOMAIN merged

(* Every file under way is reached from the master, and from those before    *)
(* it; the links that are done lead to merged files, and from these only     *)
(* merged files are reached, never the file itself.                         *)
ReachInv ==
  /\ Active \cup DOMAIN merged \subseteq AllReached
  /\ \A i, j \in 2..Len(stack) : i < j => stack[j].name \in Reached(RefersTo(stack[i].file))
  /\ \A i \in 1..Len(stack) : \A k \in 1..stack[i].done : stack[i].links[k].file \in DOMAIN merged
  /\ \A name \in DOMAIN merged :
       /\ name \in Loadable
       /\ RefersTo(call.disk[name]) \subseteq DOMAIN merged
       /\ name \notin Reached(RefersTo(call.disk[name]))

ResultInv ==
  /\ stack[1].links = << >> => Active \cup DOMAIN merged = {}
  /\ result.status = "Ok" => Active = {} /\ RefersTo(call.master) \subseteq DOMAIN merged
  /\ result.status = "cycle" => InACycle

MergeInv == call \in Worlds /\ StackInv /\ FilesInv /\ ReachInv /\ ResultInv

-----------------------------------------------------------------------------
(* Reached is the least closed set over where it starts.                    *)
LEMMA ReachedIsClosed ==
  ASSUME NEW from
  PROVE  /\ from \subseteq Reached(from)
         /\ \A name \in Reached(from) \cap DOMAIN call.disk :
              RefersTo(call.disk[name]) \subseteq Reached(from)
BY DEF Reached, Range

LEMMA ReachedIsLeast ==
  ASSUME NEW from, NEW S, from \subseteq S,
         \A name \in S \cap DOMAIN call.disk : RefersTo(call.disk[name]) \subseteq S
  PROVE  Reached(from) \subseteq S
<1> DEFINE refers == [name \in DOMAIN call.disk |-> RefersTo(call.disk[name])]
           all == from \cup UNION Range(refers)
           Closed(T) == from \subseteq T /\ \A name \in T \cap DOMAIN refers : refers[name] \subseteq T
<1>1. Reached(from) = {name \in all : \A T \in SUBSET all : Closed(T) => name \in T}
  BY DEF Reached
<1>2. Closed(S \cap all)
  <2>1. \A name \in DOMAIN refers : refers[name] \subseteq all
    BY DEF Range
  <2>2. DOMAIN refers = DOMAIN call.disk /\ \A name \in DOMAIN refers : refers[name] = RefersTo(call.disk[name])
    OBVIOUS
  <2>3. from \subseteq all
    OBVIOUS
  <2> HIDE DEF refers, all
  <2> QED
    BY <2>1, <2>2, <2>3
<1>3. S \cap all \in SUBSET all
  OBVIOUS
<1> HIDE DEF refers, all, Closed
<1> QED
  BY <1>1, <1>2, <1>3

(* What a file refers to is what its links name.                            *)
LEMMA LinksSequence ==
  ASSUME NEW f, IsFile(f)
  PROVE  /\ IsSequence(Links(f)) /\ Len(Links(f)) \in Nat
         /\ RefersTo(f) = {Links(f)[k].file : k \in 1..Len(Links(f))}
<1> DEFINE S == {n \in Node(f) : IsReference(f, n) /\ DocumentOf(f, n) # {}}
           references == InOrder(S)
           Of(n) == LinksFrom(f, n, CHOOSE d \in DocumentOf(f, n) : TRUE)
           each == [i \in DOMAIN references |-> Of(references[i])]
<1>1. Links(f) = FlattenSeq(each)
  BY DEF Links
<1>2. S \subseteq Nat /\ IsFiniteSet(S) /\ S \subseteq Node(f)
  <2>1. IsSequence(f.instances)
    BY DEF IsFile
  <2>2. Node(f) = 1..Len(f.instances) /\ Len(f.instances) \in Nat
    BY <2>1, SequenceOf DEF Node
  <2>3. IsFiniteSet(Node(f)) /\ Node(f) \subseteq Nat
    BY <2>2, FS_Interval
  <2>4. S \in SUBSET Node(f)
    OBVIOUS
  <2> HIDE DEF S
  <2> QED
    BY <2>3, <2>4, FS_Subset
<1> HIDE DEF S
<1>3. PICK c \in Nat : c = Cardinality(S)
  BY <1>2, FS_CardinalityType
<1>4. DOMAIN references = 1..c /\ \A i \in 1..c : references[i] \in S
  BY <1>2, <1>3, InOrderLists
<1> HIDE DEF references
<1>5. ASSUME NEW n \in S PROVE IsSequence(Of(n))
  <2>1. IsInstance(f.instances[n])
    BY <1>2 DEF IsFile
  <2>2. RecordOf(f, n) \in ToSet(f.instances[n].records)
    <3>1. IsSequence(f.instances[n].records) /\ f.instances[n].records # << >>
      BY <2>1 DEF IsInstance
    <3>2. 1 \in DOMAIN f.instances[n].records
      <4> DEFINE s == f.instances[n].records
      <4>1. s \in Seq({s[i] : i \in 1..Len(s)}) /\ s # << >>
        BY <3>1, SequenceOf
      <4> HIDE DEF s
      <4>2. 1 \in DOMAIN s
        BY <4>1, EmptySeq
      <4> QED
        BY <4>2 DEF s
    <3> QED
      BY <3>2 DEF RecordOf, ToSet
  <2>3. IsSequence(RecordOf(f, n).params)
        /\ \A param \in ToSet(RecordOf(f, n).params) : IsSequence(param.refs)
    BY <2>1, <2>2 DEF IsInstance
  <2> DEFINE params == RecordOf(f, n).params
             items == IF 3 \in DOMAIN params /\ params[3].list THEN params[3].refs ELSE << >>
             document == CHOOSE d \in DocumentOf(f, n) : TRUE
  <2>4. IsSequence(items)
    <3>1. IsSequence(<< >>)
      BY DEF IsSequence
    <3>2. CASE 3 \in DOMAIN params /\ params[3].list
      <4>1. params[3] \in ToSet(params)
        BY <3>2 DEF ToSet
      <4> HIDE DEF params
      <4> QED
        BY <2>3, <3>2, <4>1 DEF params
    <3> HIDE DEF params
    <3> QED
      BY <3>1, <3>2
  <2>5. Of(n) = [i \in DOMAIN items |-> [file |-> FileNamed(f, document), stub |-> items[i],
                                         chain |-> Chain(f, n, document)]]
    BY DEF LinksFrom
  <2> DEFINE of == Of(n)
  <2> HIDE DEF items, document
  <2>6. of = [i \in DOMAIN items |-> of[i]]
    BY <2>5
  <2> HIDE DEF of
  <2> QED
    BY <2>4, <2>6, SameDomainSequence DEF of
<1> HIDE DEF Of
<1> DEFINE E == UNION {{Of(n)[i] : i \in 1..Len(Of(n))} : n \in S}
<1>6. ASSUME NEW n \in S PROVE Of(n) \in Seq(E)
  <2> DEFINE R == {Of(n)[i] : i \in 1..Len(Of(n))}
  <2>1. Of(n) \in Seq(R)
    BY <1>5, SequenceOf
  <2>2. R \subseteq E
    OBVIOUS
  <2> HIDE DEF R, E
  <2> QED
    BY <2>1, <2>2, SeqMonotonic
<1> HIDE DEF E
<1>7. each \in Seq(Seq(E))
  <2>1. each \in [1..c -> Seq(E)]
    BY <1>4, <1>6
  <2> HIDE DEF each
  <2> QED
    BY <1>3, <2>1, SeqDef
<1> HIDE DEF each
<1>8. Links(f) \in Seq(E)
  BY <1>1, <1>7, FlattenPlaces
<1>9. IsSequence(Links(f))
  BY <1>8, SeqIsSequence
<1> QED
  BY <1>9, SequenceOf DEF RefersTo, ToSet

-----------------------------------------------------------------------------
(* The frame on top, and the link it is at.                                 *)
LEMMA TopIsFrame ==
  ASSUME StackInv
  PROVE  /\ Len(stack) \in Nat \ {0} /\ Top = stack[Len(stack)] /\ IsFrame(Top)
         /\ IsFile(Top.file) /\ Top.links = Links(Top.file)
         /\ Top.done \in Nat /\ Len(Top.links) \in Nat /\ Top.done <= Len(Top.links)
<1>1. Len(stack) \in Nat \ {0} /\ Len(stack) \in 1..Len(stack)
  BY DEF StackInv, IsSequence
<1>2. Top = stack[Len(stack)] /\ IsFrame(Top)
  BY <1>1 DEF StackInv, Top, Last
<1> QED
  BY <1>1, <1>2, LinksSequence DEF IsFrame

LEMMA LinkReferred ==
  ASSUME StackInv, AtALink
  PROVE  /\ Top.done + 1 \in 1..Len(Top.links)
         /\ Link.file \in RefersTo(Top.file)
<1>1. Top.done + 1 \in 1..Len(Top.links)
  BY TopIsFrame DEF AtALink
<1> QED
  BY <1>1, TopIsFrame, LinksSequence DEF Link

(* What the files under way, but the master, are.                           *)
LEMMA ActiveNames ==
  ASSUME StackInv
  PROVE  /\ Active = {stack[i].name : i \in 2..Len(stack)}
         /\ \A i \in 2..Len(stack) :
              /\ stack[i].name \in Active /\ stack[i].name \in DOMAIN call.disk
              /\ stack[i].file = call.disk[stack[i].name]
              /\ i \in 1..Len(stack)
<1>1. Len(stack) \in Nat
  BY DEF StackInv, IsSequence
<1> QED
  BY <1>1 DEF StackInv, Active, Loadable

(* A file that something under way refers to is reached.                    *)
LEMMA AllReachedByFrames ==
  ASSUME StackInv, ReachInv, NEW i \in 1..Len(stack)
  PROVE  RefersTo(stack[i].file) \subseteq AllReached
<1>1. CASE i = 1
  <2>1. RefersTo(stack[1].file) = RefersTo(call.master)
    BY DEF StackInv
  <2> QED
    BY <1>1, <2>1, ReachedIsClosed DEF AllReached
<1>2. CASE i # 1
  <2>1. i \in 2..Len(stack)
    BY <1>2, TopIsFrame
  <2>2. stack[i].name \in AllReached \cap DOMAIN call.disk /\ stack[i].file = call.disk[stack[i].name]
    BY <2>1, ActiveNames DEF ReachInv
  <2> QED
    BY <2>2, ReachedIsClosed DEF AllReached
<1> QED
  BY <1>1, <1>2

LEMMA ResultStep ==
  ASSUME MergeInv, UNCHANGED <<call, stack, merged, files>>, ResultInv'
  PROVE  MergeInv'
<1>1. StackInv' /\ Active' = Active /\ AllReached' = AllReached
      /\ \A from : Reached(from)' = Reached(from)
  BY DEF MergeInv, StackInv, Active, AllReached, Reached, Loadable, IsFrame
<1> QED
  BY <1>1 DEF MergeInv, FilesInv, ReachInv, Loadable

(* A file that is under way and referred to again closes a cycle.           *)
LEMMA CycleFound ==
  ASSUME MergeInv, Cycle
  PROVE  InACycle
<1>1. AtALink /\ Link.file \in Active
  BY DEF Cycle, NotMerged
<1>2. PICK i \in 2..Len(stack) : Link.file = stack[i].name
  BY <1>1 DEF Active
<1>3. /\ stack[i].name \in Active /\ stack[i].name \in DOMAIN call.disk
      /\ stack[i].file = call.disk[stack[i].name]
  BY ActiveNames DEF MergeInv
<1>4. Link.file \in RefersTo(stack[Len(stack)].file)
  BY <1>1, TopIsFrame, LinkReferred DEF MergeInv
<1>5. Link.file \in Reached(RefersTo(stack[i].file))
  <2>1. CASE i = Len(stack)
    BY <1>4, <2>1, ReachedIsClosed
  <2>2. CASE i # Len(stack)
    <3>1. Len(stack) \in 2..Len(stack) /\ i < Len(stack)
      BY <2>2, TopIsFrame DEF MergeInv
    <3>2. /\ stack[Len(stack)].name \in Reached(RefersTo(stack[i].file)) \cap DOMAIN call.disk
          /\ stack[Len(stack)].file = call.disk[stack[Len(stack)].name]
      BY <3>1, ActiveNames DEF MergeInv, ReachInv
    <3> QED
      BY <1>4, <3>2, ReachedIsClosed
  <2> QED
    BY <2>1, <2>2
<1> QED
  BY <1>2, <1>3, <1>5 DEF InACycle, MergeInv, ReachInv

(* A result is only made when all that the master reaches is merged.        *)
LEMMA ResultInvStep ==
  ASSUME MergeInv,
         NothingToDo \/ StubMissing \/ Cycle \/ LoadFails \/ NoDefinition \/ NotClosed \/ WriteMaster
  PROVE  MergeInv'
<1>1. UNCHANGED <<call, stack, merged, files>>
  BY DEF NothingToDo, StubMissing, Cycle, LoadFails, NoDefinition, NotClosed, WriteMaster, Fail
<1>2. Active' = Active /\ InACycle' = InACycle
  BY <1>1 DEF Active, InACycle, AllReached, Reached
<1>3. CASE NothingToDo
  <2>1. stack[1].links = << >> /\ result'.status = "Ok"
    BY <1>3 DEF NothingToDo
  <2>2. RefersTo(call.master) = {}
    <3>1. Links(call.master) = << >>
      BY <2>1, TopIsFrame DEF MergeInv, StackInv, IsFrame
    <3> QED
      BY <3>1 DEF RefersTo, ToSet
  <2>3. ResultInv'
    BY <1>1, <1>2, <2>1, <2>2 DEF MergeInv, ResultInv
  <2> QED
    BY <1>1, <2>3, ResultStep
<1>4. CASE WriteMaster
  <2>1. /\ Len(stack) = 1 /\ stack[1].links # << >> /\ Top.done = Len(Top.links) /\ result'.status = "Ok"
    BY <1>4 DEF WriteMaster, AllLinksDone
  <2>2. /\ Top = stack[1] /\ IsFrame(stack[1]) /\ stack[1].file = call.master
        /\ stack[1].done = Len(stack[1].links) /\ 1 \in 1..Len(stack)
    BY <2>1, TopIsFrame DEF MergeInv, StackInv
  <2>3. \A k \in 1..Len(Links(call.master)) : Links(call.master)[k].file \in DOMAIN merged
    BY <2>2 DEF MergeInv, ReachInv, IsFrame
  <2>4. RefersTo(call.master) \subseteq DOMAIN merged
    BY <2>2, <2>3, LinksSequence DEF IsFrame
  <2>5. Active = {}
    BY <2>1 DEF Active
  <2>6. ResultInv'
    BY <1>1, <1>2, <2>1, <2>4, <2>5 DEF MergeInv, ResultInv
  <2> QED
    BY <1>1, <2>6, ResultStep
<1>5. CASE Cycle
  <2>1. InACycle /\ result'.status = "cycle"
    BY <1>5, CycleFound DEF Cycle, Fail, Failed, Running
  <2>2. ResultInv'
    BY <1>1, <1>2, <2>1 DEF MergeInv, ResultInv
  <2> QED
    BY <1>1, <2>2, ResultStep
<1>6. CASE StubMissing \/ LoadFails \/ NoDefinition \/ NotClosed
  <2>1. result'.status \notin {"Ok", "cycle"}
    BY <1>6 DEF StubMissing, LoadFails, NoDefinition, NotClosed, Fail, Failed, Running
  <2>2. ResultInv'
    BY <1>1, <1>2, <2>1 DEF MergeInv, ResultInv
  <2> QED
    BY <1>1, <2>2, ResultStep
<1> QED
  BY <1>3, <1>4, <1>5, <1>6

(* A link that is done changes only how far its file is, and what it drops   *)
(* and renames.                                                            *)
LEMMA RedirectedFrame ==
  ASSUME NEW frame, IsFrame(frame), NEW target, frame.done + 1 \in 1..Len(frame.links)
  PROVE  /\ IsFrame(Redirected(frame, target))
         /\ Redirected(frame, target).name = frame.name
         /\ Redirected(frame, target).file = frame.file
         /\ Redirected(frame, target).offset = frame.offset
         /\ Redirected(frame, target).links = frame.links
         /\ Redirected(frame, target).done = frame.done + 1
<1> DEFINE pairs == Pairs(StubParts(frame.file, CHOOSE d \in StubNode : TRUE), target)
           r == pairs @@ frame.rename
           c == frame.dropped \cup Link.chain \cup NodesNamed(frame.file, DOMAIN pairs)
<1>1. Redirected(frame, target) = [frame EXCEPT !.done = frame.done + 1, !.rename = r, !.dropped = c]
  BY DEF Redirected
<1> HIDE DEF r, c
<1> DEFINE new == [frame EXCEPT !.done = frame.done + 1, !.rename = r, !.dropped = c]
<1>2. /\ DOMAIN new = DOMAIN frame
      /\ new.name = frame.name /\ new.file = frame.file /\ new.offset = frame.offset
      /\ new.links = frame.links /\ new.done = frame.done + 1
  BY DEF IsFrame
<1>3. frame.done + 1 \in 0..Len(frame.links)
  BY LinksSequence DEF IsFrame
<1> HIDE DEF new
<1>4. IsFrame(new)
  BY <1>2, <1>3 DEF IsFrame
<1> QED
  BY <1>1, <1>2, <1>4 DEF new

(* The stack after a step that ends a link.                                 *)
LEMMA RedirectStack ==
  ASSUME StackInv, Redirect
  PROVE  /\ IsSequence(stack') /\ Len(stack') = Len(stack)
         /\ \A i \in 1..Len(stack) : /\ IsFrame(stack'[i])
                                     /\ stack'[i].name = stack[i].name
                                     /\ stack'[i].file = stack[i].file
                                     /\ stack'[i].offset = stack[i].offset
                                     /\ stack'[i].links = stack[i].links
         /\ \A i \in 1..Len(stack) - 1 : stack'[i].done = stack[i].done
         /\ stack'[Len(stack)].done = Top.done + 1
<1>1. AtALink
  BY DEF Redirect
<1>2. PICK n \in Nat : n = Len(stack) /\ n # 0
  BY TopIsFrame
<1>3. PICK target : stack' = [stack EXCEPT ![n] = Redirected(stack[n], target)]
  BY <1>2 DEF Redirect
<1>4. IsSequence(stack) /\ DOMAIN stack = 1..n /\ n \in 1..n
  BY <1>2, SequenceOf DEF StackInv
<1>5. /\ stack' = [i \in DOMAIN stack |-> stack'[i]]
      /\ \A i \in 1..n : stack'[i] = IF i = n THEN Redirected(stack[n], target) ELSE stack[i]
  BY <1>3, <1>4
<1>6. IsSequence(stack') /\ Len(stack') = n
  BY <1>2, <1>4, <1>5, SameDomainSequence
<1>7. Top = stack[n] /\ IsFrame(stack[n]) /\ stack[n].done + 1 \in 1..Len(stack[n].links)
  BY <1>1, <1>2, TopIsFrame, LinkReferred
<1> DEFINE new == Redirected(stack[n], target)
<1>8. /\ IsFrame(new) /\ new.name = stack[n].name /\ new.file = stack[n].file /\ new.offset = stack[n].offset
      /\ new.links = stack[n].links /\ new.done = stack[n].done + 1
  BY <1>7, RedirectedFrame
<1> HIDE DEF new
<1>9. \A i \in 1..n - 1 : i \in 1..n /\ i # n
  BY <1>2
<1>10. stack'[n] = new
  BY <1>4, <1>5 DEF new
<1>11. \A i \in 1..n : i # n => stack'[i] = stack[i]
  BY <1>5
<1>12. \A i \in 1..n : IsFrame(stack[i])
  BY <1>2 DEF StackInv
<1> QED
  BY <1>2, <1>6, <1>7, <1>8, <1>9, <1>10, <1>11, <1>12

LEMMA RedirectStep ==
  ASSUME MergeInv, Redirect
  PROVE  MergeInv'
<1>1. /\ AtALink /\ Link.file \in DOMAIN merged
      /\ UNCHANGED <<call, next, merged, files, out, result>>
  BY DEF Redirect
<1>2. PICK n \in Nat : n = Len(stack) /\ n # 0
  BY TopIsFrame DEF MergeInv
<1>3. /\ IsSequence(stack') /\ Len(stack') = n
      /\ \A i \in 1..n : /\ IsFrame(stack'[i])
                         /\ stack'[i].name = stack[i].name
                         /\ stack'[i].file = stack[i].file
                         /\ stack'[i].links = stack[i].links
      /\ \A i \in 1..n - 1 : stack'[i].done = stack[i].done
      /\ stack'[n].done = Top.done + 1
  BY <1>2, RedirectStack DEF MergeInv
<1>4. 1 \in 1..n /\ \A i \in 2..n : i \in 1..n
  BY <1>2
<1>5. /\ Active' = Active /\ AllReached' = AllReached /\ Loadable' = Loadable /\ InACycle' = InACycle
      /\ \A from : Reached(from)' = Reached(from)
  <2>1. Active' = Active
    BY <1>2, <1>3, <1>4 DEF Active
  <2> QED
    BY <1>1, <2>1 DEF InACycle, AllReached, Reached, Loadable
<1>6. StackInv'
  BY <1>1, <1>2, <1>3, <1>4, <1>5 DEF MergeInv, StackInv
<1>7. FilesInv'
  BY <1>1, <1>2, <1>3, <1>4, <1>5 DEF MergeInv, FilesInv
<1>8. ReachInv'
  <2>1. \A i, j \in 2..n : i < j => stack'[j].name \in Reached(RefersTo(stack'[i].file))
    BY <1>2, <1>3, <1>4 DEF MergeInv, ReachInv
  <2>2. ASSUME NEW i \in 1..n, NEW k \in 1..stack'[i].done
        PROVE  stack'[i].links[k].file \in DOMAIN merged
    <3>1. CASE i # n
      <4>1. i \in 1..n - 1
        BY <3>1
      <4>2. k \in 1..stack[i].done /\ stack'[i].links = stack[i].links
        BY <1>3, <4>1
      <4> QED
        BY <1>2, <4>2 DEF MergeInv, ReachInv
    <3>2. CASE i = n
      <4>1. Top = stack[n] /\ stack'[n].links = Top.links /\ k \in 1..Top.done + 1 /\ Top.done \in Nat
        BY <1>2, <1>3, <1>4, <3>2, TopIsFrame DEF MergeInv
      <4>2. CASE k = Top.done + 1
        BY <1>1, <3>2, <4>1, <4>2 DEF Link
      <4>3. CASE k # Top.done + 1
        <5>1. k \in 1..stack[n].done
          BY <4>1, <4>3
        <5> QED
          BY <1>2, <3>2, <4>1, <5>1 DEF MergeInv, ReachInv
      <4> QED
        BY <4>2, <4>3
    <3> QED
      BY <3>1, <3>2
  <2> QED
    BY <1>1, <1>3, <1>5, <2>1, <2>2 DEF MergeInv, ReachInv
<1>9. ResultInv'
  BY <1>1, <1>3, <1>4, <1>5 DEF MergeInv, ResultInv
<1> QED
  BY <1>1, <1>6, <1>7, <1>8, <1>9 DEF MergeInv

(* The stack after a file is read.                                          *)
LEMMA LoadStack ==
  ASSUME call \in Worlds, StackInv, Load
  PROVE  /\ IsSequence(stack') /\ Len(stack') = Len(stack) + 1
         /\ \A i \in 1..Len(stack) : stack'[i] = stack[i]
         /\ stack'[Len(stack) + 1] = Frame(Link.file, call.disk[Link.file], next)
         /\ IsFrame(stack'[Len(stack) + 1])
<1> DEFINE f == call.disk[Link.file]
           new == Frame(Link.file, f, next)
<1>1. stack' = Append(stack, new) /\ Link.file \in Loadable
  BY DEF Load, NextAfter
<1>2. IsFile(f) /\ UniqueIds(f)
  BY <1>1, WorldsAssumption DEF Loadable, Accepted
<1>3. Len(Links(f)) \in Nat
  BY <1>2, LinksSequence
<1>4. IsFrame(new)
  <2> HIDE DEF f
  <2> QED
    BY <1>2, <1>3 DEF Frame, IsFrame
<1> HIDE DEF new
<1>5. IsSequence(stack)
  BY DEF StackInv
<1>6. /\ IsSequence(Append(stack, new)) /\ Len(Append(stack, new)) = Len(stack) + 1
      /\ \A i \in 1..Len(stack) : Append(stack, new)[i] = stack[i]
      /\ Append(stack, new)[Len(stack) + 1] = new
  BY <1>5, AppendSequence
<1> QED
  BY <1>1, <1>4, <1>6 DEF new

LEMMA LoadStep ==
  ASSUME MergeInv, Load
  PROVE  MergeInv'
<1> DEFINE file == Link.file
<1>1. /\ AtALink /\ file \notin DOMAIN merged /\ file \notin Active /\ file \in Loadable
      /\ files' = Append(files, file)
      /\ UNCHANGED <<call, merged, out, result>> /\ result = Running
  BY DEF Load, NextAfter, NotMerged, AtALink
<1>2. PICK n \in Nat : n = Len(stack) /\ n # 0
  BY TopIsFrame DEF MergeInv
<1>3. /\ IsSequence(stack') /\ Len(stack') = n + 1
      /\ \A i \in 1..n : stack'[i] = stack[i]
      /\ IsFrame(stack'[n + 1])
      /\ stack'[n + 1].name = file /\ stack'[n + 1].file = call.disk[file] /\ stack'[n + 1].done = 0
  BY <1>2, LoadStack DEF MergeInv, Frame
<1>4. file \in RefersTo(stack[n].file) /\ Top.done < Len(Top.links) /\ Top = stack[n]
  BY <1>1, <1>2, TopIsFrame, LinkReferred DEF MergeInv, AtALink
<1> HIDE DEF file
<1>5. /\ 1 \in 1..n /\ 1 \in 1..n + 1 /\ n \in 1..n
      /\ \A i \in 1..n + 1 : i \in 1..n \/ i = n + 1
      /\ \A i \in 2..n + 1 : i \in 2..n \/ i = n + 1
      /\ \A i \in 2..n : i \in 1..n /\ i \in 2..n + 1 /\ i # n + 1
      /\ n + 1 \in 2..n + 1
  BY <1>2
<1>6. Active = {stack[i].name : i \in 2..n} /\ Active' = {stack'[i].name : i \in 2..n + 1}
  BY <1>2, <1>3, TopIsFrame DEF Active
<1>7. Active' = Active \cup {file}
  BY <1>3, <1>5, <1>6
<1>8. /\ AllReached' = AllReached /\ Loadable' = Loadable /\ InACycle' = InACycle
      /\ \A from : Reached(from)' = Reached(from)
  BY <1>1 DEF InACycle, AllReached, Reached, Loadable
<1>9. StackInv'
  <2>1. \A i \in 1..n + 1 : IsFrame(stack'[i])
    BY <1>2, <1>3, <1>5 DEF MergeInv, StackInv
  <2>2. \A i \in 2..n + 1 : stack'[i].name \in Loadable /\ stack'[i].file = call.disk[stack'[i].name]
    BY <1>1, <1>2, <1>3, <1>5 DEF MergeInv, StackInv
  <2> QED
    BY <1>1, <1>2, <1>3, <1>5, <1>8, <2>1, <2>2 DEF MergeInv, StackInv
<1>10. FilesInv'
  <2>1. PICK m \in Nat : m = Len(files)
    BY DEF MergeInv, FilesInv, IsSequence
  <2>2. /\ IsSequence(files') /\ Len(files') = m + 1
        /\ \A i \in 1..m : files'[i] = files[i]
        /\ files'[m + 1] = file
    BY <1>1, <2>1, AppendSequence DEF MergeInv, FilesInv
  <2>3. file \notin {files[i] : i \in 1..m}
    BY <1>1, <2>1 DEF MergeInv, FilesInv
  <2>4. /\ \A i \in 1..m + 1 : i \in 1..m \/ i = m + 1
        /\ \A i \in 1..m : i \in 1..m + 1
        /\ m + 1 \in 1..m + 1
    BY <2>1
  <2>5. {files'[i] : i \in 1..m + 1} = {files[i] : i \in 1..m} \cup {file}
    BY <2>2, <2>4
  <2>6. \A i, j \in 1..m + 1 : files'[i] = files'[j] => i = j
    <3>1. \A i, j \in 1..m : files[i] = files[j] => i = j
      BY <2>1 DEF MergeInv, FilesInv
    <3> QED
      BY <2>2, <2>3, <2>4, <3>1
  <2>7. \A i, j \in 2..n + 1 : stack'[i].name = stack'[j].name => i = j
    <3>1. \A i, j \in 2..n : stack[i].name = stack[j].name => i = j
      BY <1>2 DEF MergeInv, FilesInv
    <3>2. \A i \in 2..n : stack[i].name # file
      BY <1>1, <1>6
    <3> QED
      BY <1>3, <1>5, <3>1, <3>2
  <2>8. {files[i] : i \in 1..m} = Active \cup DOMAIN merged /\ Active \cap DOMAIN merged = {}
    BY <2>1 DEF MergeInv, FilesInv
  <2> QED
    BY <1>1, <1>3, <1>7, <2>2, <2>5, <2>6, <2>7, <2>8 DEF FilesInv
<1>11. ReachInv'
  <2>1. file \in AllReached
    BY <1>2, <1>4, <1>5, AllReachedByFrames DEF MergeInv
  <2>2. ASSUME NEW i \in 2..n + 1, NEW j \in 2..n + 1, i < j
        PROVE  stack'[j].name \in Reached(RefersTo(stack'[i].file))
    <3>0. i \in 2..n /\ stack'[i] = stack[i]
      BY <1>2, <1>3, <1>5, <2>2
    <3>1. CASE j \in 2..n
      BY <1>2, <1>3, <1>5, <2>2, <3>0, <3>1 DEF MergeInv, ReachInv
    <3>2. CASE j = n + 1
      <4>1. CASE i = n
        BY <1>3, <1>4, <3>0, <3>2, <4>1, ReachedIsClosed
      <4>2. CASE i # n
        <5>1. n \in 2..n /\ i < n
          BY <1>2, <2>2, <3>0, <3>2, <4>2
        <5>2. /\ stack[n].name \in Reached(RefersTo(stack[i].file)) \cap DOMAIN call.disk
              /\ stack[n].file = call.disk[stack[n].name]
          BY <1>2, <3>0, <5>1, ActiveNames DEF MergeInv, ReachInv
        <5> QED
          BY <1>3, <1>4, <3>0, <3>2, <5>2, ReachedIsClosed
      <4> QED
        BY <4>1, <4>2
    <3> QED
      BY <1>5, <3>1, <3>2
  <2>3. \A i \in 1..n + 1 : \A k \in 1..stack'[i].done : stack'[i].links[k].file \in DOMAIN merged
    BY <1>2, <1>3, <1>5 DEF MergeInv, ReachInv
  <2>4. /\ Active \cup DOMAIN merged \subseteq AllReached
        /\ \A name \in DOMAIN merged :
             /\ name \in Loadable
             /\ RefersTo(call.disk[name]) \subseteq DOMAIN merged
             /\ name \notin Reached(RefersTo(call.disk[name]))
    BY DEF MergeInv, ReachInv
  <2> QED
    BY <1>1, <1>3, <1>7, <1>8, <2>1, <2>2, <2>3, <2>4 DEF ReachInv
<1>12. ResultInv'
  <2>1. stack[1].links # << >>
    <3>1. CASE n = 1
      <4>1. IsSequence(stack[1].links) /\ Len(stack[1].links) # 0
        BY <1>1, <1>2, <1>4, <3>1, TopIsFrame, LinksSequence DEF MergeInv
      <4> QED
        BY <4>1
    <3>2. CASE n # 1
      <4>1. 2 \in 2..n
        BY <1>2, <3>2
      <4> QED
        BY <1>6, <4>1 DEF MergeInv, ResultInv
    <3> QED
      BY <3>1, <3>2
  <2>2. result.status = "running"
    BY <1>1 DEF Running
  <2> QED
    BY <1>1, <1>3, <1>5, <2>1, <2>2 DEF ResultInv
<1> QED
  BY <1>1, <1>9, <1>10, <1>11, <1>12 DEF MergeInv

LEMMA WriteComponentStep ==
  ASSUME MergeInv, WriteComponent
  PROVE  MergeInv'
<1> DEFINE file == Top.name
<1>1. /\ Len(stack) > 1 /\ stack' = Front(stack) /\ Top.done = Len(Top.links)
      /\ DOMAIN merged' = DOMAIN merged \cup {file}
      /\ UNCHANGED <<call, files, result>> /\ result = Running /\ stack[1].links # << >>
  BY DEF WriteComponent, AllLinksDone
<1>2. PICK n \in Nat : n = Len(stack) /\ n > 1
  BY <1>1, TopIsFrame DEF MergeInv
<1>3. /\ IsSequence(stack') /\ Len(stack') = n - 1
      /\ \A i \in 1..n - 1 : stack'[i] = stack[i]
  BY <1>1, <1>2, FrontSequence DEF MergeInv, StackInv
<1>4. /\ 1 \in 1..n /\ 1 \in 1..n - 1 /\ n \in 1..n /\ n \in 2..n
      /\ \A i \in 1..n - 1 : i \in 1..n /\ i # n
      /\ \A i \in 2..n - 1 : i \in 1..n - 1 /\ i \in 2..n /\ i # n
      /\ \A i \in 2..n : i \in 2..n - 1 \/ i = n
  BY <1>2
<1>5. Top = stack[n] /\ file = stack[n].name /\ IsFrame(stack[n])
  BY <1>2, TopIsFrame DEF MergeInv
<1>6. /\ file \in Active /\ file \in Loadable /\ file \in DOMAIN call.disk
      /\ stack[n].file = call.disk[file]
  BY <1>2, <1>4, <1>5, ActiveNames DEF MergeInv, StackInv
<1>7. RefersTo(call.disk[file]) \subseteq DOMAIN merged
  <2>1. \A k \in 1..Len(Links(stack[n].file)) : Links(stack[n].file)[k].file \in DOMAIN merged
    BY <1>1, <1>2, <1>4, <1>5 DEF MergeInv, ReachInv, IsFrame
  <2> QED
    BY <1>5, <1>6, <2>1, LinksSequence DEF IsFrame
<1> HIDE DEF file
<1>8. file \notin DOMAIN merged /\ Active \cap DOMAIN merged = {}
  BY <1>6 DEF MergeInv, FilesInv
<1>9. Active' = Active \ {file}
  <2>1. Active = {stack[i].name : i \in 2..n} /\ Active' = {stack'[i].name : i \in 2..n - 1}
    BY <1>2, <1>3, TopIsFrame DEF Active
  <2>2. \A i \in 2..n - 1 : stack[i].name # file
    BY <1>2, <1>4, <1>5 DEF MergeInv, FilesInv
  <2> QED
    BY <1>3, <1>4, <1>5, <2>1, <2>2
<1>10. /\ AllReached' = AllReached /\ Loadable' = Loadable /\ InACycle' = InACycle
       /\ \A from : Reached(from)' = Reached(from)
  BY <1>1 DEF InACycle, AllReached, Reached, Loadable
<1>11. StackInv'
  <2>1. \A i \in 1..n - 1 : IsFrame(stack'[i])
    BY <1>2, <1>3, <1>4 DEF MergeInv, StackInv
  <2>2. stack'[1].file = call.master
    BY <1>3, <1>4 DEF MergeInv, StackInv
  <2>3. \A i \in 2..n - 1 : stack'[i].name \in Loadable /\ stack'[i].file = call.disk[stack'[i].name]
    BY <1>2, <1>3, <1>4 DEF MergeInv, StackInv
  <2>4. n - 1 > 0
    BY <1>2
  <2> QED
    BY <1>1, <1>3, <1>10, <2>1, <2>2, <2>3, <2>4 DEF StackInv
<1>12. FilesInv'
  <2>1. \A i, j \in 2..n - 1 : stack'[i].name = stack'[j].name => i = j
    BY <1>2, <1>3, <1>4 DEF MergeInv, FilesInv
  <2>2. Active' \cap DOMAIN merged' = {} /\ Active' \cup DOMAIN merged' = Active \cup DOMAIN merged
    BY <1>1, <1>6, <1>8, <1>9
  <2> QED
    BY <1>1, <1>3, <2>1, <2>2 DEF MergeInv, FilesInv
<1>13. ReachInv'
  <2>1. file \notin Reached(RefersTo(call.disk[file]))
    <3>1. Reached(RefersTo(call.disk[file])) \subseteq DOMAIN merged
      BY <1>7, ReachedIsLeast DEF MergeInv, ReachInv
    <3> QED
      BY <1>8, <3>1
  <2>2. \A name \in DOMAIN merged' :
          /\ name \in Loadable
          /\ RefersTo(call.disk[name]) \subseteq DOMAIN merged'
          /\ name \notin Reached(RefersTo(call.disk[name]))
    BY <1>1, <1>6, <1>7, <2>1 DEF MergeInv, ReachInv
  <2>3. Active' \cup DOMAIN merged' \subseteq AllReached
    BY <1>1, <1>6, <1>9 DEF MergeInv, ReachInv
  <2>4. \A i, j \in 2..n - 1 : i < j => stack'[j].name \in Reached(RefersTo(stack'[i].file))
    BY <1>2, <1>3, <1>4 DEF MergeInv, ReachInv
  <2>5. \A i \in 1..n - 1 : \A k \in 1..stack'[i].done : stack'[i].links[k].file \in DOMAIN merged'
    BY <1>1, <1>2, <1>3, <1>4 DEF MergeInv, ReachInv
  <2> QED
    BY <1>1, <1>3, <1>10, <2>2, <2>3, <2>4, <2>5 DEF ReachInv
<1>14. ResultInv'
  <2>1. result.status = "running"
    BY <1>1 DEF Running
  <2> QED
    BY <1>1, <1>3, <1>4, <2>1 DEF ResultInv
<1> QED
  BY <1>1, <1>11, <1>12, <1>13, <1>14 DEF MergeInv

-----------------------------------------------------------------------------
LEMMA MergeInvInit == Init => MergeInv
<1> SUFFICES ASSUME Init
             PROVE  MergeInv
  OBVIOUS
<1>1. /\ call \in Worlds /\ stack = <<Frame("", call.master, 0)>>
      /\ DOMAIN merged = {} /\ files = << >> /\ result = Running
  BY DEF Init
<1>2. IsFile(call.master) /\ UniqueIds(call.master)
  BY <1>1, WorldsAssumption DEF Accepted
<1>3. IsSequence(stack) /\ Len(stack) = 1 /\ stack[1] = Frame("", call.master, 0)
  BY <1>1, ShortSequences
<1>4. IsFrame(stack[1]) /\ stack[1].file = call.master /\ stack[1].done = 0
  <2>1. Len(Links(call.master)) \in Nat
    BY <1>2, LinksSequence
  <2> DEFINE f == call.master
             frame == Frame("", f, 0)
  <2>2. IsFile(f) /\ UniqueIds(f) /\ Len(Links(f)) \in Nat
    BY <1>2, <2>1
  <2> HIDE DEF f
  <2>3. IsFrame(frame) /\ frame.file = f /\ frame.done = 0
    BY <2>2 DEF Frame, IsFrame
  <2> QED
    BY <1>3, <2>3 DEF f
<1>5. Active = {} /\ Len(stack) > 0 /\ (\A i \in 1..Len(stack) : i = 1) /\ (\A i \in 2..Len(stack) : FALSE)
  <2>1. PICK n \in Nat : n = 1 /\ Len(stack) = n
    BY <1>3
  <2>2. n > 0 /\ (\A i \in 1..n : i = 1) /\ (\A i \in 2..n : FALSE)
    BY <2>1
  <2> QED
    BY <2>1, <2>2 DEF Active
<1>6. IsSequence(files) /\ Len(files) = 0
  BY <1>1, ShortSequences
<1>7. StackInv
  <2>1. \A i \in 1..Len(stack) : IsFrame(stack[i])
    BY <1>4, <1>5
  <2> QED
    BY <1>3, <1>4, <1>5, <2>1 DEF StackInv
<1>8. FilesInv
  <2>1. {files[i] : i \in 1..Len(files)} = {} /\ \A i \in 1..Len(files) : FALSE
    BY <1>6
  <2> QED
    BY <1>1, <1>5, <1>6, <2>1 DEF FilesInv
<1>9. ReachInv
  <2>1. 1..stack[1].done = {}
    BY <1>4
  <2> QED
    BY <1>1, <1>3, <1>5, <2>1 DEF ReachInv
<1> QED
  BY <1>1, <1>5, <1>7, <1>8, <1>9 DEF MergeInv, ResultInv, Running

LEMMA MergeInvStep == MergeInv /\ [Next]_vars => MergeInv'
<1> SUFFICES ASSUME MergeInv, [Next]_vars
             PROVE  MergeInv'
  OBVIOUS
<1>1. CASE UNCHANGED vars
  <2>1. UNCHANGED <<call, stack, merged, files, result>>
    BY <1>1 DEF vars
  <2>2. Active' = Active /\ InACycle' = InACycle
    BY <2>1 DEF Active, InACycle, AllReached, Reached
  <2>3. ResultInv'
    BY <2>1, <2>2 DEF MergeInv, ResultInv
  <2> QED
    BY <2>1, <2>3, ResultStep
<1> QED
  BY <1>1, ResultInvStep, LoadStep, RedirectStep, WriteComponentStep DEF Next, Returned

(* A file is merged once, however many masters name it, and a result has     *)
(* every file the master reaches (Merger::merge of src/src/assemble.rs).     *)
THEOREM FilesMergedOnce == Spec => []MergedOnce
<1>1. MergeInv => MergedOnce
  <2> SUFFICES ASSUME MergeInv
               PROVE  MergedOnce
    OBVIOUS
  <2>1. DOMAIN files = 1..Len(files) /\ ToSet(files) = {files[i] : i \in 1..Len(files)}
    BY SequenceOf DEF MergeInv, FilesInv, ToSet
  <2>2. ASSUME result.status = "Ok" PROVE ToSet(files) = AllReached /\ DOMAIN merged = AllReached
    <3>1. AllReached \subseteq DOMAIN merged
      BY <2>2, ReachedIsLeast DEF MergeInv, ResultInv, ReachInv, AllReached
    <3> QED
      BY <2>1, <2>2, <3>1 DEF MergeInv, ResultInv, ReachInv, FilesInv
  <2> QED
    BY <2>1, <2>2 DEF MergedOnce, MergeInv, FilesInv
<1> QED
  BY <1>1, MergeInvInit, MergeInvStep, PTL DEF Spec

(* Files that refer to each other in a cycle never give a result, and a      *)
(* cycle is only reported where there is one.                              *)
THEOREM CyclesNeverAssemble == Spec => []CyclesRefused
<1>1. MergeInv => CyclesRefused
  <2> SUFFICES ASSUME MergeInv
               PROVE  CyclesRefused
    OBVIOUS
  <2>1. ASSUME result.status = "Ok" PROVE ~InACycle
    <3>1. AllReached \subseteq DOMAIN merged
      BY <2>1, ReachedIsLeast DEF MergeInv, ResultInv, ReachInv, AllReached
    <3> QED
      BY <3>1 DEF InACycle, MergeInv, ReachInv
  <2> QED
    BY <2>1 DEF CyclesRefused, MergeInv, ResultInv
<1> QED
  BY <1>1, MergeInvInit, MergeInvStep, PTL DEF Spec

LEMMA StepAdvances ==
  ASSUME MergeInv, Next, result' = Running
  PROVE  \/ ToLoad' < ToLoad
         \/ ToLoad' = ToLoad /\ Len(stack') < Len(stack)
         \/ ToLoad' = ToLoad /\ Len(stack') = Len(stack) /\ LinksLeft' < LinksLeft
         \/ UNCHANGED vars
<1>1. PICK n \in Nat : n = Len(stack) /\ n # 0
  BY TopIsFrame DEF MergeInv
<1>2. DOMAIN files = 1..Len(files) /\ ToSet(files) = Active \cup DOMAIN merged
  BY SequenceOf DEF MergeInv, FilesInv, ToSet
<1>3. CASE Load
  <2> DEFINE left == DOMAIN call.disk \ ToSet(files)
  <2>1. Link.file \in left
    BY <1>2, <1>3 DEF Load, NotMerged, Loadable
  <2>2. files' = Append(files, Link.file) /\ call' = call
    BY <1>3 DEF Load, NextAfter
  <2>3. ToSet(files') = ToSet(files) \cup {Link.file}
    <3>1. PICK m \in Nat : m = Len(files)
      BY DEF MergeInv, FilesInv, IsSequence
    <3>2. /\ IsSequence(files') /\ Len(files') = m + 1
          /\ \A i \in 1..m : files'[i] = files[i]
          /\ files'[m + 1] = Link.file
      BY <2>2, <3>1, AppendSequence DEF MergeInv, FilesInv
    <3>3. DOMAIN files' = 1..m + 1 /\ DOMAIN files = 1..m
      BY <1>2, <3>1, <3>2, SequenceOf
    <3>4. (\A i \in 1..m + 1 : i \in 1..m \/ i = m + 1) /\ (\A i \in 1..m : i \in 1..m + 1) /\ m + 1 \in 1..m + 1
      BY <3>1
    <3> QED
      BY <3>2, <3>3, <3>4 DEF ToSet
  <2>4. IsFiniteSet(left)
    <3>1. IsFiniteSet(DOMAIN call.disk)
      BY WorldsAssumption DEF MergeInv
    <3> QED
      BY <3>1, FS_Difference
  <2>5. DOMAIN call'.disk \ ToSet(files') = left \ {Link.file}
    BY <2>2, <2>3
  <2> HIDE DEF left
  <2>6. Cardinality(left \ {Link.file}) = Cardinality(left) - 1 /\ Cardinality(left) \in Nat
    BY <2>1, <2>4, FS_RemoveElement, FS_CardinalityType
  <2>7. ToLoad' = Cardinality(left \ {Link.file}) /\ ToLoad = Cardinality(left)
    BY <2>5 DEF ToLoad, left
  <2> QED
    BY <2>6, <2>7
<1>4. CASE Redirect
  <2>1. ToLoad' = ToLoad
    BY <1>4 DEF Redirect, ToLoad
  <2>2. /\ Len(stack') = n
        /\ stack'[n].links = stack[n].links /\ stack'[n].done = Top.done + 1
    BY <1>1, <1>4, RedirectStack DEF MergeInv
  <2>3. Top = stack[n] /\ Top.done \in Nat /\ Len(Top.links) \in Nat
    BY <1>1, TopIsFrame DEF MergeInv
  <2>4. Top' = stack'[n]
    BY <2>2 DEF Top, Last
  <2>5. LinksLeft' = Len(Top.links) - (Top.done + 1) /\ LinksLeft = Len(Top.links) - Top.done
    BY <2>2, <2>3, <2>4 DEF LinksLeft
  <2>6. LinksLeft' < LinksLeft
    BY <2>3, <2>5
  <2> QED
    BY <1>1, <2>1, <2>2, <2>6
<1>5. CASE WriteComponent
  <2>1. ToLoad' = ToLoad
    BY <1>5 DEF WriteComponent, ToLoad
  <2>2. Len(stack') = n - 1
    BY <1>1, <1>5, FrontSequence DEF MergeInv, StackInv, WriteComponent
  <2> QED
    BY <1>1, <2>1, <2>2
<1>6. CASE Returned
  BY <1>6 DEF Returned
<1>7. CASE NothingToDo \/ StubMissing \/ Cycle \/ LoadFails \/ NoDefinition \/ NotClosed \/ WriteMaster
  BY <1>7 DEF NothingToDo, StubMissing, Cycle, LoadFails, NoDefinition, NotClosed, WriteMaster,
              Fail, Failed, Running
<1> QED
  BY <1>3, <1>4, <1>5, <1>6, <1>7 DEF Next

(* Assembling always ends: every step reads a file that was not read, is     *)
(* done with a file, or is done with a link of the file it is at.           *)
THEOREM AssembleAdvances == Spec => Advances
<1>1. MergeInv /\ [Next]_vars =>
        [result' = Running =>
           \/ ToLoad' < ToLoad
           \/ ToLoad' = ToLoad /\ Len(stack') < Len(stack)
           \/ ToLoad' = ToLoad /\ Len(stack') = Len(stack) /\ LinksLeft' < LinksLeft]_vars
  BY StepAdvances
<1> QED
  BY <1>1, MergeInvInit, MergeInvStep, PTL DEF Spec, Advances

-----------------------------------------------------------------------------
(* Names: what keeps the blocks apart, with the types it needs.              *)
NamesInv ==
  /\ MergeInv
  /\ next \in Nat /\ IsSequence(out) /\ NamesIn(out) \subseteq Nat
  /\ \A i \in 1..Len(stack) : stack[i].offset \in Nat
  /\ NamesApart

(* A file's names, and the greatest of them.                                *)
LEMMA NamesOfFile ==
  ASSUME NEW f, IsFile(f)
  PROVE  /\ Node(f) \subseteq Nat /\ IsFiniteSet(Node(f))
         /\ \A n \in Node(f) : f.instances[n].id \in Nat
         /\ MaxId(f) \in Nat /\ \A n \in Node(f) : f.instances[n].id <= MaxId(f)
<1>1. IsSequence(f.instances)
  BY DEF IsFile
<1>2. Node(f) = 1..Len(f.instances) /\ Len(f.instances) \in Nat
  BY <1>1, SequenceOf DEF Node
<1>3. IsFiniteSet(Node(f)) /\ Node(f) \subseteq Nat
  BY <1>2, FS_Interval
<1>4. \A n \in Node(f) : f.instances[n].id \in Nat
  BY DEF IsFile, IsInstance
<1> DEFINE S == {f.instances[n].id : n \in Node(f)}
           all == {0} \cup S
<1>5. IsFiniteSet(S)
  <2> DEFINE id == [n \in Node(f) |-> f.instances[n].id]
  <2>1. id \in Surjection(Node(f), S)
    BY DEF Surjection
  <2> HIDE DEF id, S
  <2> QED
    BY <1>3, <2>1, FS_Surjection
<1>6. IsFiniteSet(all)
  BY <1>5, FS_AddElement
<1>7. all \subseteq Nat /\ all # {}
  BY <1>4
<1> HIDE DEF all
<1>8. Max(all) \in all /\ \A x \in all : x <= Max(all)
  BY <1>6, <1>7, FiniteMax
<1>9. MaxId(f) = Max(all)
  BY DEF MaxId, all
<1> QED
  BY <1>3, <1>4, <1>7, <1>8, <1>9 DEF all

LEMMA InstanceName ==
  ASSUME NEW f, NEW names, NEW pruned, NEW replaced, NEW n \in Node(f), IsInstance(f.instances[n])
  PROVE  WrittenInstance(f, names, pruned, replaced, n).id = names.data[n]
<1> DEFINE inst == f.instances[n]
<1>1. PICK records : WrittenInstance(f, names, pruned, replaced, n)
                       = [inst EXCEPT !.id = names.data[n], !.records = records]
  BY DEF WrittenInstance
<1>2. "id" \in DOMAIN inst
  BY DEF IsInstance
<1> HIDE DEF inst
<1> QED
  BY <1>1, <1>2

(* A component is written under the names of its block, each once.          *)
LEMMA TopWrittenNames ==
  ASSUME StackInv, Len(stack) # 1, Top.offset \in Nat
  PROVE  /\ IsSequence(TopWritten) /\ Len(TopWritten) \in Nat
         /\ \A k \in 1..Len(TopWritten) : TopWritten[k].id \in Block(Top)
         /\ \A k, l \in 1..Len(TopWritten) : TopWritten[k].id = TopWritten[l].id => k = l
<1> DEFINE f == Top.file
           order == InOrder(Kept)
           written(k) == WrittenInstance(f, Names, {}, Top.rename, order[k])
<1>1. IsFile(f) /\ UniqueIds(f)
  BY TopIsFrame DEF IsFrame
<1>2. Kept \subseteq Nat /\ IsFiniteSet(Kept) /\ \A n \in Kept : n \in Node(f)
  <2>1. Kept \in SUBSET Node(f)
    BY DEF Kept
  <2> HIDE DEF f
  <2> QED
    BY <1>1, <2>1, NamesOfFile, FS_Subset
<1>3. PICK c \in Nat : c = Cardinality(Kept)
  BY <1>2, FS_CardinalityType
<1>4. /\ DOMAIN order = 1..c /\ IsSequence(order) /\ Len(order) = c
      /\ \A k \in 1..c : order[k] \in Kept /\ Rank(order[k], Kept) = k
  <2>1. order \in Seq(Kept)
    BY <1>2, InOrderLists
  <2> QED
    BY <1>2, <1>3, <2>1, InOrderLists, SeqIsSequence
<1> HIDE DEF order
<1>5. TopWritten = [k \in DOMAIN order |-> written(k)]
  BY DEF TopWritten, order
<1>6. /\ IsSequence(TopWritten) /\ Len(TopWritten) = c
      /\ \A k \in 1..c : TopWritten[k] = written(k)
  <2> HIDE DEF written
  <2>1. TopWritten = [k \in DOMAIN order |-> TopWritten[k]] /\ \A k \in 1..c : TopWritten[k] = written(k)
    BY <1>4, <1>5
  <2> QED
    BY <1>4, <2>1, SameDomainSequence
<1>7. \A n \in Kept : Names.data[n] = f.instances[n].id + Top.offset
  <2>1. Names = AssignedNames(f, Kept, Offset(Top.offset))
    BY DEF Names
  <2>2. Names.data = [n \in Kept |-> NewName(Offset(Top.offset), f.instances[n].id, Rank(n, Kept))]
    BY <2>1 DEF AssignedNames
  <2>3. \A old, dense : NewName(Offset(Top.offset), old, dense) = old + Top.offset
    BY DEF NewName, Offset
  <2> QED
    BY <2>2, <2>3
<1>8. \A k \in 1..c : TopWritten[k].id = f.instances[order[k]].id + Top.offset
  <2> TAKE k \in 1..c
  <2>1. order[k] \in Kept /\ order[k] \in Node(f) /\ IsInstance(f.instances[order[k]])
    BY <1>1, <1>2, <1>4 DEF IsFile
  <2>2. written(k).id = Names.data[order[k]]
    BY <2>1, InstanceName
  <2> QED
    BY <1>6, <1>7, <2>1, <2>2
<1>9. \A k, l \in 1..c : TopWritten[k].id = TopWritten[l].id => k = l
  <2> TAKE k, l \in 1..c
  <2> HAVE TopWritten[k].id = TopWritten[l].id
  <2>1. /\ order[k] \in Node(f) /\ order[l] \in Node(f)
        /\ f.instances[order[k]].id \in Nat /\ f.instances[order[l]].id \in Nat
    BY <1>1, <1>2, <1>4, NamesOfFile
  <2>2. f.instances[order[k]].id = f.instances[order[l]].id
    BY <1>8, <2>1
  <2>3. order[k] = order[l]
    BY <1>1, <2>1, <2>2 DEF UniqueIds
  <2> QED
    BY <1>4, <2>3
<1>10. ASSUME NEW k \in 1..c PROVE TopWritten[k].id \in Block(Top)
  <2>1. order[k] \in Node(f) /\ f.instances[order[k]].id \in Nat
    BY <1>1, <1>2, <1>4, NamesOfFile
  <2>2. TopWritten[k].id = Top.offset + f.instances[order[k]].id
    BY <1>8, <2>1
  <2> QED
    BY <2>1, <2>2 DEF Block
<1> QED
  BY <1>3, <1>6, <1>9, <1>10

LEMMA BlockRange ==
  ASSUME NEW frame, IsFrame(frame), frame.offset \in Nat
  PROVE  \A id \in Block(frame) : id \in Nat /\ id <= frame.offset + MaxId(frame.file)
<1> TAKE id \in Block(frame)
<1>1. PICK n \in Node(frame.file) : id = frame.offset + frame.file.instances[n].id
  BY DEF Block
<1> QED
  BY <1>1, NamesOfFile, SMTT(30) DEF IsFrame

LEMMA NamesLoad ==
  ASSUME NamesInv, Load
  PROVE  NamesInv'
<1> DEFINE f == call.disk[Link.file]
<1>1. PICK n \in Nat : n = Len(stack) /\ n # 0
  BY TopIsFrame DEF NamesInv, MergeInv
<1>2. Link.file \in Loadable /\ Link.file \in DOMAIN call.disk /\ IsFile(f)
  BY WorldsAssumption DEF Load, Loadable, NamesInv, MergeInv
<1>3. PICK m \in Nat : m = MaxId(f)
  BY <1>2, NamesOfFile
<1>4. next' = next + m /\ UNCHANGED <<call, out>>
  BY <1>3 DEF Load, NextAfter
<1>5. /\ IsSequence(stack') /\ Len(stack') = n + 1
      /\ \A i \in 1..n : stack'[i] = stack[i]
      /\ stack'[n + 1].file = f /\ stack'[n + 1].offset = next
  BY <1>1, LoadStack DEF NamesInv, MergeInv, Frame
<1>6. MergeInv'
  BY LoadStep DEF NamesInv
<1>7. (\A i \in 1..n + 1 : i \in 1..n \/ i = n + 1) /\ (\A i \in 1..n : i # n + 1) /\ next \in Nat
  BY <1>1 DEF NamesInv
<1>8. \A i \in 1..n + 1 : stack'[i].offset \in Nat
  BY <1>1, <1>5, <1>7 DEF NamesInv
<1> DEFINE new == {next + f.instances[k].id : k \in Node(f)}
<1>9. Block(stack'[n + 1]) = new /\ \A i \in 1..n : Block(stack'[i]) = Block(stack[i])
  BY <1>5 DEF Block
<1>10. ASSUME NamedFromOne
       PROVE  \A id \in new : id \in Nat /\ id > next /\ id <= next + m
  <2> TAKE id \in new
  <2>1. PICK k \in Node(f) : id = next + f.instances[k].id
    OBVIOUS
  <2>2. f.instances[k].id \in Nat /\ f.instances[k].id <= m /\ f.instances[k].id > 0
    BY <1>2, <1>3, <1>10, NamesOfFile DEF NamedFromOne
  <2>3. PICK j \in Nat : j = f.instances[k].id /\ j <= m /\ j > 0
    BY <2>2
  <2>4. id = next + j
    BY <2>1, <2>3
  <2> HIDE DEF f, new
  <2> QED
    BY <1>3, <1>7, <2>3, <2>4
<1> HIDE DEF f, new
<1>11. DOMAIN stack = 1..n /\ DOMAIN stack' = 1..n + 1
  BY <1>1, <1>5, SequenceOf DEF NamesInv, MergeInv, StackInv
<1>12. NamesApart'
  <2> SUFFICES ASSUME NamedFromOne'
               PROVE  /\ \A i, j \in DOMAIN stack' : i # j => Block(stack'[i]) \cap Block(stack'[j]) = {}
                      /\ \A i \in DOMAIN stack' : Block(stack'[i]) \cap NamesIn(out') = {}
                      /\ \A i, j \in DOMAIN out' : out'[i].id = out'[j].id => i = j
                      /\ \A id \in NamesIn(out') \cup UNION {Block(stack'[i]) : i \in DOMAIN stack'} : id <= next'
    BY DEF NamesApart
  <2>0. NamedFromOne
    BY <1>4 DEF NamedFromOne
  <2>1. /\ \A i, j \in 1..n : i # j => Block(stack[i]) \cap Block(stack[j]) = {}
        /\ \A i \in 1..n : Block(stack[i]) \cap NamesIn(out) = {}
        /\ \A i, j \in DOMAIN out : out[i].id = out[j].id => i = j
        /\ \A id \in NamesIn(out) : id <= next
        /\ \A i \in 1..n : \A id \in Block(stack[i]) : id <= next
    BY <1>11, <2>0 DEF NamesInv, NamesApart
  <2>2. \A i \in 1..n : Block(stack[i]) \cap new = {}
    BY <1>7, <1>10, <2>0, <2>1
  <2>3. NamesIn(out) \cap new = {}
    BY <1>7, <1>10, <2>0, <2>1
  <2>4. \A i, j \in 1..n + 1 : i # j => Block(stack'[i]) \cap Block(stack'[j]) = {}
    BY <1>7, <1>9, <2>1, <2>2
  <2>5. \A i \in 1..n + 1 : Block(stack'[i]) \cap NamesIn(out) = {}
    BY <1>7, <1>9, <2>1, <2>3
  <2>6. \A i \in 1..n : \A id \in Block(stack[i]) : id \in Nat
    <3> TAKE i \in 1..n
    <3>1. IsFrame(stack[i]) /\ stack[i].offset \in Nat
      BY <1>1 DEF NamesInv, MergeInv, StackInv
    <3> QED
      BY <3>1, BlockRange
  <2>7. ASSUME NEW i \in 1..n + 1, NEW id \in Block(stack'[i])
        PROVE  id <= next + m
    <3>1. CASE i = n + 1
      <4>1. id \in new
        BY <1>9, <3>1
      <4> QED
        BY <1>10, <2>0, <4>1
    <3>2. CASE i \in 1..n
      <4>1. id \in Block(stack[i])
        BY <1>9, <3>2
      <4>2. id \in Nat /\ id <= next
        BY <2>1, <2>6, <3>2, <4>1
      <4> QED
        BY <1>3, <1>7, <4>2
    <3>3. i = n + 1 \/ i \in 1..n
      BY <1>7
    <3> QED
      BY <3>1, <3>2, <3>3
  <2>8. \A id \in NamesIn(out) : id <= next + m
    <3>1. \A id \in NamesIn(out) : id \in Nat
      BY DEF NamesInv
    <3> QED
      BY <1>3, <1>7, <2>1, <3>1
  <2>9. NamesIn(out') = NamesIn(out)
    BY <1>4
  <2> QED
    BY <1>4, <1>11, <2>1, <2>4, <2>5, <2>7, <2>8, <2>9
<1> QED
  BY <1>1, <1>3, <1>4, <1>5, <1>6, <1>7, <1>8, <1>12 DEF NamesInv

LEMMA NamesWriteComponent ==
  ASSUME NamesInv, WriteComponent
  PROVE  NamesInv'
<1>1. PICK n \in Nat : n = Len(stack) /\ n # 0 /\ n # 1
  <2>1. Len(stack) > 1
    BY DEF WriteComponent
  <2> QED
    BY <2>1, TopIsFrame DEF NamesInv, MergeInv
<1>2. StackInv /\ IsSequence(stack) /\ DOMAIN stack = 1..n /\ n \in 1..n
  BY <1>1, SequenceOf DEF NamesInv, MergeInv, StackInv
<1>3. stack' = Front(stack) /\ out' = out \o TopWritten /\ UNCHANGED <<call, next>>
  BY DEF WriteComponent
<1>4. IsSequence(stack') /\ Len(stack') = n - 1 /\ \A i \in 1..n - 1 : stack'[i] = stack[i]
  BY <1>1, <1>2, <1>3, FrontSequence
<1>5. DOMAIN stack' = 1..n - 1 /\ \A i \in 1..n - 1 : i \in 1..n /\ i # n
  BY <1>1, <1>4, SequenceOf
<1>6. Top = stack[n] /\ Top.offset \in Nat /\ IsFrame(Top)
  BY <1>1, <1>2, TopIsFrame DEF NamesInv
<1> DEFINE new == TopWritten
<1>7. /\ IsSequence(new)
      /\ \A k \in 1..Len(new) : new[k].id \in Block(Top)
      /\ \A k, l \in 1..Len(new) : new[k].id = new[l].id => k = l
  BY <1>1, <1>2, <1>6, TopWrittenNames
<1> HIDE DEF new
<1>8. PICK a \in Nat, b \in Nat : a = Len(out) /\ b = Len(new)
  BY <1>7 DEF NamesInv, IsSequence
<1>9. IsSequence(out) /\ IsSequence(new)
  BY <1>7 DEF NamesInv
<1> DEFINE both == out \o new
<1>10. /\ IsSequence(both) /\ Len(both) = a + b
       /\ \A i \in 1..a : both[i] = out[i]
       /\ \A i \in 1..b : both[a + i] = new[i]
  <2>1. /\ IsSequence(both) /\ Len(both) = Len(out) + Len(new)
        /\ \A i \in 1..Len(out) : both[i] = out[i]
        /\ \A i \in 1..Len(new) : both[Len(out) + i] = new[i]
    BY <1>9, ConcatSequence
  <2> HIDE DEF both
  <2> QED
    BY <1>8, <2>1
<1> HIDE DEF both
<1>11. out' = both
  BY <1>3 DEF both, new
<1>12. DOMAIN both = 1..a + b /\ DOMAIN out = 1..a
  BY <1>8, <1>9, <1>10, SequenceOf
<1>13. \A i \in 1..a + b : i \in 1..a \/ \E k \in 1..b : i = a + k
  <2>1. ASSUME NEW i \in 1..a + b, i \notin 1..a PROVE i - a \in 1..b /\ i = a + (i - a)
    BY <1>8, <2>1
  <2> QED
    BY <2>1
<1>14. NamesIn(both) \subseteq NamesIn(out) \cup Block(Top)
  <2> SUFFICES ASSUME NEW i \in 1..a + b
               PROVE  both[i].id \in NamesIn(out) \cup Block(Top)
    BY <1>12 DEF NamesIn
  <2>1. CASE i \in 1..a
    BY <1>10, <1>12, <2>1 DEF NamesIn
  <2>2. CASE \E k \in 1..b : i = a + k
    BY <1>7, <1>8, <1>10, <2>2
  <2> QED
    BY <1>13, <2>1, <2>2
<1>15. NamesIn(both) \subseteq Nat
  BY <1>6, <1>14, BlockRange DEF NamesInv
<1>16. MergeInv'
  BY WriteComponentStep DEF NamesInv
<1>17. NamesApart'
  <2> SUFFICES ASSUME NamedFromOne'
               PROVE  /\ \A i, j \in DOMAIN stack' : i # j => Block(stack'[i]) \cap Block(stack'[j]) = {}
                      /\ \A i \in DOMAIN stack' : Block(stack'[i]) \cap NamesIn(out') = {}
                      /\ \A i, j \in DOMAIN out' : out'[i].id = out'[j].id => i = j
                      /\ \A id \in NamesIn(out') \cup UNION {Block(stack'[i]) : i \in DOMAIN stack'} : id <= next'
    BY DEF NamesApart
  <2>0. NamedFromOne
    BY <1>3 DEF NamedFromOne
  <2>1. /\ \A i, j \in 1..n : i # j => Block(stack[i]) \cap Block(stack[j]) = {}
        /\ \A i \in 1..n : Block(stack[i]) \cap NamesIn(out) = {}
        /\ \A i, j \in 1..a : out[i].id = out[j].id => i = j
        /\ \A id \in NamesIn(out) : id <= next
        /\ \A i \in 1..n : \A id \in Block(stack[i]) : id <= next
    BY <1>2, <1>12, <2>0 DEF NamesInv, NamesApart
  <2>2. \A i, j \in 1..n - 1 : i # j => Block(stack'[i]) \cap Block(stack'[j]) = {}
    BY <1>4, <1>5, <2>1
  <2>3. \A i \in 1..n - 1 : Block(stack'[i]) \cap NamesIn(both) = {}
    BY <1>2, <1>4, <1>5, <1>6, <1>14, <2>1
  <2>4. ASSUME NEW i \in 1..a + b, NEW j \in 1..a + b, both[i].id = both[j].id
        PROVE  i = j
    <3>1. Block(Top) \cap NamesIn(out) = {}
      BY <1>2, <1>6, <2>1
    <3>2. CASE i \in 1..a /\ j \in 1..a
      BY <1>10, <2>1, <2>4, <3>2
    <3>3. CASE i \in 1..a /\ \E k \in 1..b : j = a + k
      <4>1. both[i].id \in NamesIn(out)
        BY <1>10, <1>12, <3>3 DEF NamesIn
      <4>2. both[j].id \in Block(Top)
        BY <1>7, <1>8, <1>10, <3>3
      <4> QED
        BY <2>4, <3>1, <4>1, <4>2
    <3>4. CASE j \in 1..a /\ \E k \in 1..b : i = a + k
      <4>1. both[j].id \in NamesIn(out)
        BY <1>10, <1>12, <3>4 DEF NamesIn
      <4>2. both[i].id \in Block(Top)
        BY <1>7, <1>8, <1>10, <3>4
      <4> QED
        BY <2>4, <3>1, <4>1, <4>2
    <3>5. CASE (\E k \in 1..b : i = a + k) /\ (\E k \in 1..b : j = a + k)
      <4>1. PICK k \in 1..b, l \in 1..b : i = a + k /\ j = a + l
        BY <3>5
      <4>2. new[k].id = new[l].id
        BY <1>10, <2>4, <4>1
      <4> QED
        BY <1>7, <1>8, <4>1, <4>2
    <3> QED
      BY <1>13, <3>2, <3>3, <3>4, <3>5
  <2>5. \A id \in NamesIn(both) : id <= next
    BY <1>2, <1>6, <1>14, <2>1
  <2>6. \A i \in 1..n - 1 : \A id \in Block(stack'[i]) : id <= next
    BY <1>4, <1>5, <2>1
  <2> QED
    BY <1>3, <1>5, <1>11, <1>12, <2>2, <2>3, <2>4, <2>5, <2>6
<1>18. \A i \in 1..n - 1 : stack'[i].offset \in Nat
  BY <1>1, <1>4, <1>5 DEF NamesInv
<1> QED
  BY <1>3, <1>4, <1>10, <1>11, <1>15, <1>16, <1>17, <1>18 DEF NamesInv

(* Steps that neither read nor write a file leave the blocks as they are.   *)
LEMMA NamesSame ==
  ASSUME NamesInv, MergeInv', UNCHANGED <<call, next, out>>, Len(stack') = Len(stack),
         \A i \in 1..Len(stack) : stack'[i].file = stack[i].file /\ stack'[i].offset = stack[i].offset
  PROVE  NamesInv'
<1>1. PICK n \in Nat : n = Len(stack)
  BY TopIsFrame DEF NamesInv, MergeInv
<1>2. DOMAIN stack = 1..n /\ DOMAIN stack' = 1..n
  BY <1>1, SequenceOf DEF NamesInv, MergeInv, StackInv
<1>3. \A i \in 1..n : Block(stack'[i]) = Block(stack[i])
  BY <1>1 DEF Block
<1>4. UNION {Block(stack'[i]) : i \in 1..n} = UNION {Block(stack[i]) : i \in 1..n}
  BY <1>3
<1>5. NamesApart'
  BY <1>2, <1>3, <1>4 DEF NamesInv, NamesApart, NamedFromOne
<1> QED
  BY <1>1, <1>5 DEF NamesInv

(* A merge gives every instance a name of its own: what is written and what  *)
(* the files under way will write keep out of each other's names, whatever    *)
(* names the files have and however they are nested, as long as no            *)
(* component has an instance #0 (Merger::merge of src/src/assemble.rs).      *)
THEOREM NamesKeepApart == Spec => []NamesApart
<1>1. Init => NamesInv
  <2> SUFFICES ASSUME Init
               PROVE  NamesInv
    OBVIOUS
  <2>1. MergeInv /\ IsFile(call.master)
    BY MergeInvInit, WorldsAssumption DEF Init
  <2>2. next = MaxId(call.master) /\ next \in Nat /\ out = << >>
    BY <2>1, NamesOfFile DEF Init
  <2>3. DOMAIN stack = {1} /\ stack[1].offset = 0 /\ stack[1].file = call.master /\ \A i \in 1..Len(stack) : i = 1
    <3> DEFINE f == Frame("", call.master, 0)
    <3>1. f.offset = 0 /\ f.file = call.master
      BY DEF Frame
    <3> HIDE DEF f
    <3>2. stack = <<f>>
      BY DEF Init, f
    <3>3. IsSequence(<<f>>) /\ DOMAIN <<f>> = {1} /\ <<f>>[1] = f
      BY ShortSequences
    <3>4. Len(<<f>>) = 1
      OBVIOUS
    <3>5. PICK k \in Nat : k = 1 /\ Len(stack) = k
      BY <3>2, <3>4
    <3>6. \A i \in 1..k : i = 1
      BY <3>5
    <3> QED
      BY <3>1, <3>2, <3>3, <3>5, <3>6
  <2>4. IsSequence(out) /\ DOMAIN out = {} /\ NamesIn(out) = {}
    BY <2>2, ShortSequences DEF NamesIn
  <2>5. \A id \in Block(stack[1]) : id <= next
    BY <2>1, <2>2, <2>3, NamesOfFile DEF Block
  <2> QED
    BY <2>1, <2>2, <2>3, <2>4, <2>5 DEF NamesInv, NamesApart
<1>2. NamesInv /\ [Next]_vars => NamesInv'
  <2> SUFFICES ASSUME NamesInv, [Next]_vars
               PROVE  NamesInv'
    OBVIOUS
  <2>1. MergeInv'
    BY MergeInvStep DEF NamesInv
  <2>2. CASE Redirect
    <3>1. UNCHANGED <<call, next, out>>
      BY <2>2 DEF Redirect
    <3> QED
      BY <2>1, <2>2, <3>1, RedirectStack, NamesSame DEF NamesInv, MergeInv
  <2>3. CASE \/ NothingToDo \/ StubMissing \/ Cycle \/ LoadFails \/ NoDefinition \/ NotClosed \/ WriteMaster
             \/ Returned \/ UNCHANGED vars
    <3>1. UNCHANGED <<call, stack, next, out>>
      BY <2>3 DEF NothingToDo, StubMissing, Cycle, LoadFails, NoDefinition, NotClosed, WriteMaster,
                  Returned, Fail, vars
    <3> QED
      BY <2>1, <3>1, NamesSame
  <2> QED
    BY <2>2, <2>3, NamesLoad, NamesWriteComponent DEF Next
<1>3. NamesInv => NamesApart
  BY DEF NamesInv
<1> QED
  BY <1>1, <1>2, <1>3, PTL DEF Spec
=============================================================================
