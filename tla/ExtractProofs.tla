---------------------------- MODULE ExtractProofs ----------------------------
(***************************************************************************)
(* Proofs about Extract, for every file, every rule table and every call:  *)
(* the worklist's invariant, and that what it returns is the least closed  *)
(* set whatever the order of the visits.                                   *)
(***************************************************************************)
EXTENDS Extract, TLAPS

(* What a node pulls in are nodes of the graph (graph.node finds a position *)
(* or nothing).                                                             *)
LEMMA PullsAreNodes == \A f, n : Pulls(f, n) \subseteq Node(f)
<1>1. \A f, ids : NodesNamed(f, ids) \subseteq Node(f)
  BY DEF NodesNamed
<1>2. \A f, n : ReferencedBy(f, n) \subseteq Node(f)
  BY DEF ReferencedBy
<1>3. \A f, n : References(f, n) \subseteq Node(f)
  BY <1>1 DEF References
<1>4. \A f, inst, rule : FollowedItems(f, inst, rule) \subseteq Node(f)
  BY <1>1 DEF FollowedItems
<1>5. \A f, n : Forward(f, n) \subseteq Node(f)
  BY <1>1, <1>3, <1>4 DEF Forward
<1>6. \A f, n : Backward(f, n) \subseteq Node(f)
  BY <1>2 DEF Backward
<1> QED
  BY <1>5, <1>6 DEF Pulls

-----------------------------------------------------------------------------
(* What `take` does to the states, for any set of nodes: it takes the nodes *)
(* that were Out, classifies them, and leaves every other state alone.      *)
LEMMA TakeStep ==
  ASSUME TypeOK, NEW S, S \subseteq Node(file), Take(S), call' = call, Classified
  PROVE  /\ state' \in [Node(file) -> States]
         /\ Fresh(S) \subseteq Node(file) \ excluded
         /\ Extracted' = Extracted \cup Fresh(S)
         /\ S \ excluded \subseteq Extracted'
         /\ Classified'
<1> DEFINE f == file
<1>1. /\ f' = f
      /\ excluded' = excluded
      /\ seeds' = seeds
  BY DEF file, excluded, seeds
<1>2. \A n \in Node(f) :
        state'[n] = IF n \notin Fresh(S) THEN state[n]
                    ELSE IF IsShared(f.instances[n]) THEN "Shared" ELSE "Owned"
  BY DEF Take
<1>3. state' \in [Node(f) -> States]
  BY DEF Take, TypeOK, States
<1>4. Fresh(S) \subseteq Node(f) \ excluded
  BY DEF Fresh, Classified
<1>5. \A n \in Node(f) : state[n] \in States
  BY DEF TypeOK
<1>6. Extracted' = Extracted \cup Fresh(S)
  <2>1. Extracted' = {n \in Node(f) : state'[n] \in {"Owned", "Shared"}}
    BY <1>1 DEF Extracted
  <2>2. \A n \in Node(f) : n \in Fresh(S) => state[n] = "Out"
    BY DEF Fresh
  <2> QED
    BY <1>2, <1>4, <2>1, <2>2 DEF Extracted
<1>7. S \ excluded \subseteq Extracted'
  <2> SUFFICES ASSUME NEW n \in S, n \notin excluded
               PROVE  n \in Extracted \cup Fresh(S)
    BY <1>6
  <2>1. n \in Node(f) /\ state[n] # "Excluded"
    BY DEF Classified
  <2>2. state[n] \in {"Out", "Owned", "Shared"}
    BY <1>5, <2>1 DEF States
  <2> QED
    BY <2>1, <2>2 DEF Extracted, Fresh
<1>8. \A n \in Node(f) : state'[n] = "Excluded" <=> n \in excluded
  BY <1>2, <1>4 DEF Classified
<1>9. \A n \in Extracted' : state'[n] = "Shared" <=> IsShared(f.instances[n])
  <2> SUFFICES ASSUME NEW n \in Extracted'
               PROVE  state'[n] = "Shared" <=> IsShared(f.instances[n])
    OBVIOUS
  <2>1. n \in Node(f)
    BY <1>4, <1>6 DEF Extracted
  <2>2. CASE n \in Fresh(S)
    BY <1>2, <2>1, <2>2
  <2>3. CASE n \notin Fresh(S)
    BY <1>2, <1>6, <2>1, <2>3 DEF Classified
  <2> QED
    BY <2>2, <2>3
<1>10. Classified'
  BY <1>1, <1>8, <1>9 DEF Classified
<1> QED
  BY <1>3, <1>4, <1>6, <1>7, <1>10

-----------------------------------------------------------------------------
(* The inductive invariant: the call is one of the requests, and the types  *)
(* and the loop invariant together.                                         *)
IInv == call \in Requests /\ TypeOK /\ LoopInv

LEMMA InitIInv == Init => IInv
<1> SUFFICES ASSUME Init PROVE IInv
  OBVIOUS
<1>1. \A n \in Node(file) : state[n] \in {"Out", "Excluded"}
  BY DEF Init
<1>2. TypeOK
  BY DEF Init, TypeOK, States, NoResult
<1>3. Extracted = {}
  BY <1>1 DEF Extracted
<1>4. Classified
  BY <1>3 DEF Init, Classified
<1>5. Started
  BY <1>3 DEF Init, Started
<1>6. VisitedIsClosed
  BY <1>3 DEF Init, VisitedIsClosed
<1>7. NothingSuperfluous
  BY <1>3 DEF NothingSuperfluous
<1>8. Reported
  BY DEF Init, Reported, NoResult
<1>9. call \in Requests
  BY DEF Init
<1> QED
  BY <1>2, <1>4, <1>5, <1>6, <1>7, <1>8, <1>9 DEF IInv, LoopInv

(* The seeds are taken, and nothing had been taken before them. *)
LEMMA TakeSeedsIInv ==
  ASSUME IInv, TakeSeeds
  PROVE  IInv'
<1>1. call' = call /\ file' = file /\ seeds' = seeds /\ excluded' = excluded
  BY DEF TakeSeeds, file, seeds, excluded
<1>2. call \in Requests /\ TypeOK /\ Classified /\ Started /\ VisitedIsClosed /\ NothingSuperfluous /\ Reported
  BY DEF IInv, LoopInv
<1>3. seeds \subseteq Node(file)
  BY <1>2, RequestsInGraph DEF seeds, file
<1>4. /\ state' \in [Node(file) -> States]
      /\ Fresh(seeds) \subseteq Node(file) \ excluded
      /\ Extracted' = Extracted \cup Fresh(seeds)
      /\ seeds \ excluded \subseteq Extracted'
      /\ Classified'
  BY <1>1, <1>2, <1>3, TakeStep DEF TakeSeeds
<1>5. Extracted = {} /\ queue = {}
  BY <1>2 DEF Started, TakeSeeds
<1>6. queue' = Fresh(seeds) /\ pc' = "visit" /\ result' = result
  BY <1>5 DEF TakeSeeds
<1>7. TypeOK'
  BY <1>1, <1>2, <1>4, <1>6 DEF TypeOK
<1>8. Started'
  BY <1>1, <1>4, <1>6 DEF Started
<1>9. VisitedIsClosed'
  BY <1>4, <1>5, <1>6 DEF VisitedIsClosed
<1>10. NothingSuperfluous'
  <2>1. Fresh(seeds) \subseteq seeds \ excluded
    BY <1>4 DEF Fresh
  <2> QED
    BY <1>1, <1>4, <1>5, <2>1 DEF NothingSuperfluous
<1>11. Reported'
  <2>1. ~result.done /\ result = NoResult
    BY <1>2 DEF Reported, TakeSeeds
  <2> QED
    BY <1>6, <2>1 DEF Reported, NoResult
<1> QED
  BY <1>1, <1>2, <1>4, <1>7, <1>8, <1>9, <1>10, <1>11 DEF IInv, LoopInv

(* A pass of the loop: what the visited node owes is taken, and a closed set *)
(* that holds the node cannot do without it.                                *)
LEMMA VisitIInv ==
  ASSUME IInv, NEW n \in queue, Visit(n)
  PROVE  IInv'
<1> DEFINE pulled == Pulls(file, n)
<1>1. call' = call /\ file' = file /\ seeds' = seeds /\ excluded' = excluded
  BY DEF Visit, file, seeds, excluded
<1>2. call \in Requests /\ TypeOK /\ Classified /\ Started /\ VisitedIsClosed /\ NothingSuperfluous /\ Reported
  BY DEF IInv, LoopInv
<1>3. pulled \subseteq Node(file)
  BY PullsAreNodes
<1>4. /\ state' \in [Node(file) -> States]
      /\ Fresh(pulled) \subseteq Node(file) \ excluded
      /\ Extracted' = Extracted \cup Fresh(pulled)
      /\ pulled \ excluded \subseteq Extracted'
      /\ Classified'
  BY <1>1, <1>2, <1>3, TakeStep DEF Visit
<1>5. /\ queue' = (queue \ {n}) \cup Fresh(pulled)
      /\ pc = "visit" /\ pc' = pc
      /\ result' = result
  BY DEF Visit
<1>6. TypeOK'
  BY <1>1, <1>2, <1>4, <1>5 DEF TypeOK
<1>7. Started'
  BY <1>1, <1>2, <1>4, <1>5 DEF Started
<1>8. VisitedIsClosed'
  <2>1. queue' \subseteq Extracted'
    BY <1>2, <1>4, <1>5 DEF VisitedIsClosed
  <2>2. ASSUME NEW m \in Extracted' \ queue'
        PROVE  Pulls(file, m) \ excluded \subseteq Extracted'
    <3>1. m \in Extracted /\ (m = n \/ m \notin queue)
      BY <1>4, <1>5, <2>2
    <3>2. CASE m = n
      BY <1>4, <3>2
    <3>3. CASE m \notin queue
      BY <1>2, <1>4, <3>1, <3>3 DEF VisitedIsClosed
    <3> QED
      BY <3>1, <3>2, <3>3
  <2> QED
    BY <1>1, <2>1, <2>2 DEF VisitedIsClosed
<1>9. NothingSuperfluous'
  <2>1. ASSUME NEW T \in SUBSET Node(file),
               seeds \ excluded \subseteq T, IsClosed(file, T, excluded)
        PROVE  Extracted \cup Fresh(pulled) \subseteq T
    <3>1. Extracted \subseteq T
      BY <1>2, <2>1 DEF NothingSuperfluous
    <3>2. n \in T
      BY <1>2, <3>1 DEF VisitedIsClosed
    <3>3. pulled \ excluded \subseteq T
      BY <2>1, <3>2 DEF IsClosed
    <3>4. Fresh(pulled) \subseteq pulled \ excluded
      BY <1>4 DEF Fresh
    <3> QED
      BY <3>1, <3>3, <3>4
  <2> QED
    BY <1>1, <1>4, <2>1 DEF NothingSuperfluous
<1>10. Reported'
  <2>1. ~result.done /\ result = NoResult
    BY <1>2, <1>5 DEF Reported
  <2> QED
    BY <1>5, <2>1 DEF Reported, NoResult
<1> QED
  BY <1>1, <1>2, <1>4, <1>6, <1>7, <1>8, <1>9, <1>10 DEF IInv, LoopInv

(* The end: the states are only read. *)
LEMMA FinishIInv ==
  ASSUME IInv, Finish
  PROVE  IInv'
<1>1. /\ call' = call /\ file' = file /\ seeds' = seeds /\ excluded' = excluded
      /\ state' = state /\ queue' = queue
  BY DEF Finish, file, seeds, excluded
<1>2. call \in Requests /\ TypeOK /\ Classified /\ Started /\ VisitedIsClosed /\ NothingSuperfluous /\ Reported
  BY DEF IInv, LoopInv
<1>3. Extracted' = Extracted /\ Pruned' = Pruned
  BY <1>1 DEF Extracted, Pruned
<1>4. /\ pc = "visit" /\ pc' = "done" /\ queue = {}
      /\ result' = [nodes |-> Extracted, pruned |-> Pruned, done |-> TRUE]
  BY DEF Finish
<1>5. Pruned \subseteq Extracted /\ Extracted \subseteq Node(file)
  BY DEF Extracted, Pruned
<1>6. TypeOK'
  BY <1>1, <1>2, <1>4, <1>5 DEF TypeOK
<1>7. Classified'
  BY <1>1, <1>2, <1>3 DEF Classified
<1>8. Started'
  BY <1>1, <1>2, <1>3, <1>4 DEF Started
<1>9. VisitedIsClosed'
  BY <1>1, <1>2, <1>3 DEF VisitedIsClosed
<1>10. NothingSuperfluous'
  BY <1>1, <1>2, <1>3 DEF NothingSuperfluous
<1>11. Reported'
  BY <1>1, <1>3, <1>4 DEF Reported
<1> QED
  BY <1>1, <1>2, <1>6, <1>7, <1>8, <1>9, <1>10, <1>11 DEF IInv, LoopInv

LEMMA NextIInv == IInv /\ [Next]_vars => IInv'
<1> SUFFICES ASSUME IInv, [Next]_vars PROVE IInv'
  OBVIOUS
<1>1. CASE TakeSeeds
  BY <1>1, TakeSeedsIInv
<1>2. CASE \E n \in queue : Visit(n)
  BY <1>2, VisitIInv
<1>3. CASE Finish
  BY <1>3, FinishIInv
<1>4. CASE UNCHANGED vars
  BY <1>4 DEF IInv, LoopInv, TypeOK, Classified, Started, VisitedIsClosed,
              NothingSuperfluous, Reported, Extracted, Pruned, vars, file, seeds, excluded
<1> QED
  BY <1>1, <1>2, <1>3, <1>4 DEF Next

(* Types, for every set of calls within their graphs. *)
THEOREM TypeCorrect == Spec => []TypeOK
<1>1. IInv => TypeOK
  BY DEF IInv
<1> QED
  BY InitIInv, NextIInv, <1>1, PTL DEF Spec

(* The worklist's invariant: it has taken only what every closed set over   *)
(* the seeds holds, and owes only what the queued nodes pull in.            *)
THEOREM LoopCorrect == Spec => []LoopInv
<1>1. IInv => LoopInv
  BY DEF IInv
<1> QED
  BY InitIInv, NextIInv, <1>1, PTL DEF Spec

-----------------------------------------------------------------------------
(* When the loop has ended the taken nodes are the least closed set over the *)
(* seeds, and the pruned ones are those the writer has to cut down.          *)
LEMMA FinishedIsClosure ==
  ASSUME IInv, Finish
  PROVE  /\ IsClosure(file, Extracted, seeds, excluded)
         /\ Pruned = ToPrune(file, Extracted, excluded)
<1>1. TypeOK /\ Classified /\ Started /\ VisitedIsClosed /\ NothingSuperfluous
  BY DEF IInv, LoopInv
<1>2. queue = {} /\ pc = "visit"
  BY DEF Finish
<1>3. seeds \ excluded \subseteq Extracted
  BY <1>1, <1>2 DEF Started
<1>4. IsClosed(file, Extracted, excluded)
  BY <1>1, <1>2 DEF VisitedIsClosed, IsClosed
<1>5. IsClosure(file, Extracted, seeds, excluded)
  BY <1>1, <1>3, <1>4 DEF IsClosure, NothingSuperfluous
<1>6. \A n \in Extracted : state[n] = "Shared" <=> IsShared(file.instances[n])
  BY <1>1 DEF Classified
<1>7. \A n : References(file, n) \subseteq Node(file)
  BY DEF References, NodesNamed
<1>8. \A n : (\E m \in References(file, n) : state[m] = "Excluded")
               <=> References(file, n) \cap excluded # {}
  BY <1>1, <1>7 DEF Classified
<1>9. Pruned = ToPrune(file, Extracted, excluded)
  BY <1>6, <1>8 DEF Pruned, ToPrune
<1> QED
  BY <1>5, <1>9

LEMMA NothingLostInv == IInv => NothingLost
<1> SUFFICES ASSUME IInv, result.done,
                    NEW n \in result.nodes, NEW m \in References(file, n) \ result.nodes
             PROVE  /\ n \in result.pruned
                    /\ \/ m \in excluded
                       \/ /\ IsShared(file.instances[n])
                          /\ m \notin NodesNamed(file, IdsOutside(file.instances[n],
                                                   SharedRule(file.instances[n])))
  BY DEF NothingLost
<1>1. TypeOK /\ Classified /\ VisitedIsClosed /\ Reported
  BY DEF IInv, LoopInv
<1>2. queue = {} /\ result.nodes = Extracted /\ result.pruned = Pruned
  BY <1>1 DEF Reported
<1>3. m \in Pulls(file, n) => m \in excluded
  BY <1>1, <1>2 DEF VisitedIsClosed
<1>4. m \in Node(file)
  BY DEF References, NodesNamed
<1>5. CASE IsShared(file.instances[n])
  <2>1. n \in Pruned
    BY <1>1, <1>2, <1>5 DEF Classified, Pruned
  <2>2. NodesNamed(file, IdsOutside(file.instances[n], SharedRule(file.instances[n])))
          \subseteq Pulls(file, n)
    BY <1>5 DEF Pulls, Forward
  <2> QED
    BY <1>2, <1>3, <1>5, <2>1, <2>2
<1>6. CASE ~IsShared(file.instances[n])
  <2>1. m \in Pulls(file, n)
    BY <1>6 DEF Pulls, Forward
  <2>2. m \in excluded /\ state[m] = "Excluded"
    BY <1>1, <1>3, <1>4, <2>1 DEF Classified
  <2>3. n \in Pruned
    BY <1>2, <2>2 DEF Pruned
  <2> QED
    BY <1>2, <2>2, <2>3
<1> QED
  BY <1>5, <1>6

(* No reference is lost silently: whatever an extraction holds and refers   *)
(* outside of it is marked for pruning, for the caller's exclusions or as   *)
(* an item of a shared list.                                                *)
THEOREM NothingLostCorrect == Spec => []NothingLost
<1> QED
  BY InitIInv, NextIInv, NothingLostInv, PTL DEF Spec

-----------------------------------------------------------------------------
(* The closure's operators, seen through the instance, are the same.       *)
LEMMA SameOperators ==
  /\ \A f : C!Node(f) = Node(f)
  /\ \A f, S, start, X : C!IsClosure(f, S, start, X) <=> IsClosure(f, S, start, X)
  /\ \A f, S, X : C!ToPrune(f, S, X) = ToPrune(f, S, X)
<1>1. \A f : C!Node(f) = Node(f)
  BY DEF Node, C!Node
<1>2. /\ \A s : C!ToSet(s) = ToSet(s)
      /\ \A S : C!Min(S) = Min(S)
  BY DEF ToSet, C!ToSet, Min, C!Min
<1>3. \A f, ids : C!NodesNamed(f, ids) = NodesNamed(f, ids)
  BY <1>1 DEF NodesNamed, C!NodesNamed
<1>4. \A inst : C!InstanceIds(inst) = InstanceIds(inst)
  <2>1. \A r : C!RecordIds(r) = RecordIds(r)
    BY <1>2 DEF RecordIds, C!RecordIds
  <2> QED
    BY <2>1 DEF InstanceIds, C!InstanceIds
<1>5. \A f, n : C!References(f, n) = References(f, n)
  BY <1>3, <1>4 DEF References, C!References
<1>6. \A f, n : C!ReferencedBy(f, n) = ReferencedBy(f, n)
  BY <1>1, <1>5 DEF ReferencedBy, C!ReferencedBy
<1>7. \A inst, types : C!HasType(inst, types) <=> HasType(inst, types)
  BY DEF HasType, C!HasType
<1>8. \A inst, rule : C!RulePlaces(inst, rule) = RulePlaces(inst, rule)
  BY <1>2, <1>7 DEF RulePlaces, C!RulePlaces
<1>9. \A inst, rule : C!RuleIds(inst, rule) = RuleIds(inst, rule)
  BY <1>2, <1>8 DEF RuleIds, C!RuleIds
<1>10. \A inst, target : C!Matches(inst, target) <=> Matches(inst, target)
  BY <1>9 DEF Matches, C!Matches
<1>11. \A inst : /\ C!IsShared(inst) <=> IsShared(inst)
                 /\ C!SharedRule(inst) = SharedRule(inst)
  BY <1>2, <1>8 DEF IsShared, C!IsShared, SharedRule, C!SharedRule, SharedRules, C!SharedRules
<1>12. \A inst, rule : C!IdsOutside(inst, rule) = IdsOutside(inst, rule)
  BY <1>2, <1>8 DEF IdsOutside, C!IdsOutside
<1>13. \A f, n : C!IsAssociatedPlane(f, n) <=> IsAssociatedPlane(f, n)
  BY <1>5, <1>6, <1>7 DEF IsAssociatedPlane, C!IsAssociatedPlane
<1>14. \A f, inst, rule : C!FollowedItems(f, inst, rule) = FollowedItems(f, inst, rule)
  BY <1>3, <1>7, <1>9, <1>13 DEF FollowedItems, C!FollowedItems
<1>15. \A f, n : C!Pulls(f, n) = Pulls(f, n)
  <2>1. \A f, n : C!Forward(f, n) = Forward(f, n)
    BY <1>3, <1>5, <1>11, <1>12, <1>14 DEF Forward, C!Forward
  <2>2. \A f, n : C!Backward(f, n) = Backward(f, n)
    BY <1>6, <1>10 DEF Backward, C!Backward
  <2> QED
    BY <2>1, <2>2 DEF Pulls, C!Pulls
<1>16. \A f, S, X : C!IsClosed(f, S, X) <=> IsClosed(f, S, X)
  BY <1>15 DEF IsClosed, C!IsClosed
<1>17. \A f, S, start, X : C!IsClosure(f, S, start, X) <=> IsClosure(f, S, start, X)
  BY <1>1, <1>16 DEF IsClosure, C!IsClosure
<1>18. \A f, S, X : C!ToPrune(f, S, X) = ToPrune(f, S, X)
  BY <1>5, <1>11 DEF ToPrune, C!ToPrune
<1> QED
  BY <1>1, <1>17, <1>18

(* The worklist implements the closure: the answer appears in one step, and *)
(* it is the least closed set, whatever the order of the visits.            *)
THEOREM ExtractImplementsClosure == Spec => ImplementsClosure
<1>1. Init => C!Init
  <2> SUFFICES ASSUME Init PROVE C!Init
    OBVIOUS
  <2>1. call.seeds \subseteq Node(call.file) /\ call.excluded \subseteq Node(call.file)
    BY RequestsInGraph DEF Init
  <2>2. result = C!Pending
    BY DEF Init, NoResult, C!Pending
  <2> QED
    BY <2>1, <2>2, SameOperators DEF C!Init
<1>2. IInv /\ [Next]_vars => [C!Answer]_(C!vars)
  <2> SUFFICES ASSUME IInv, [Next]_vars
               PROVE  C!Answer \/ (call' = call /\ result' = result)
    BY DEF C!vars
  <2>1. CASE TakeSeeds
    BY <2>1 DEF TakeSeeds
  <2>2. CASE \E n \in queue : Visit(n)
    BY <2>2 DEF Visit
  <2>3. CASE Finish
    <3>1. ~result.done
      BY <2>3 DEF IInv, LoopInv, Reported, Finish
    <3>2. Extracted \in SUBSET C!Node(call.file)
      BY SameOperators DEF Extracted, file
    <3>3. C!IsClosure(call.file, Extracted, call.seeds, call.excluded)
      BY <2>3, FinishedIsClosure, SameOperators DEF file, seeds, excluded
    <3>4. Pruned = C!ToPrune(call.file, Extracted, call.excluded)
      BY <2>3, FinishedIsClosure, SameOperators DEF file, seeds, excluded
    <3>5. result' = [nodes |-> Extracted, pruned |-> Pruned, done |-> TRUE] /\ call' = call
      BY <2>3 DEF Finish
    <3> QED
      BY <3>1, <3>2, <3>3, <3>4, <3>5 DEF C!Answer
  <2>4. CASE UNCHANGED vars
    BY <2>4 DEF vars
  <2> QED
    BY <2>1, <2>2, <2>3, <2>4 DEF Next
<1> QED
  BY InitIInv, NextIInv, <1>1, <1>2, PTL DEF Spec, ImplementsClosure, C!Spec
=============================================================================
