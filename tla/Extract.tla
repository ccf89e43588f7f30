------------------------------- MODULE Extract -------------------------------
(***************************************************************************)
(* extract_excluding (src/src/model/extract.rs): the worklist that         *)
(* computes an extraction.                                                 *)
(*                                                                         *)
(* `state` is the code's vector of states and `queue` its VecDeque.  The   *)
(* queue is a set here and Visit takes any member of it: the code's first- *)
(* in, first-out order is one of the orders checked and proved about, so   *)
(* what is shown does not depend on the order of the references in a file. *)
(***************************************************************************)
EXTENDS ExtractRules

CONSTANT Requests        \* the calls: [file, seeds, excluded]

(* The code panics on a seed or an excluded node that is not in the graph. *)
ASSUME RequestsInGraph ==
  \A r \in Requests : r.seeds \subseteq Node(r.file) /\ r.excluded \subseteq Node(r.file)

VARIABLES call,          \* the arguments; they do not change
          state,         \* Node -> what is known of it
          queue,         \* the nodes taken and not yet visited
          pc,            \* the part of the function that runs next
          result         \* the Extraction returned

vars == <<call, state, queue, pc, result>>

(* The file behind the graph, where to start, and what never to take. *)
file == call.file
seeds == call.seeds
excluded == call.excluded

NoResult == [nodes |-> {}, pruned |-> {}, done |-> FALSE]

States == {"Out", "Owned", "Shared", "Excluded"}

Init ==
  /\ call \in Requests
  /\ state = [n \in Node(file) |-> IF n \in excluded THEN "Excluded" ELSE "Out"]
  /\ queue = {}
  /\ pc = "seed"
  /\ result = NoResult

(* Mutants of Fresh: a node is taken again, or although it is excluded.     *)
FreshAgain(S) == {n \in S : state[n] # "Excluded"}
FreshExcluded(S) == {n \in S : state[n] \in {"Out", "Excluded"}}

(* The closure `take`, over every node of S: only a node still Out is      *)
(* taken, classified and queued.                                           *)
Fresh(S) == {n \in S : state[n] = "Out"}

Take(S) ==
  state' = [n \in Node(file) |->
              IF n \notin Fresh(S) THEN state[n]
              ELSE IF IsShared(file.instances[n]) THEN "Shared" ELSE "Owned"]

TakeSeeds ==
  /\ pc = "seed"
  /\ Take(seeds)
  /\ queue' = queue \cup Fresh(seeds)
  /\ pc' = "visit"
  /\ UNCHANGED <<call, result>>

(* Mutant of Visit: the rule table's referrers are forgotten.               *)
VisitForward(n) ==
  /\ pc = "visit"
  /\ n \in queue
  /\ Take(Forward(file, n))
  /\ queue' = (queue \ {n}) \cup Fresh(Forward(file, n))
  /\ UNCHANGED <<call, pc, result>>

(* One pass of the while loop. *)
Visit(n) ==
  /\ pc = "visit"
  /\ n \in queue
  /\ Take(Pulls(file, n))
  /\ queue' = (queue \ {n}) \cup Fresh(Pulls(file, n))
  /\ UNCHANGED <<call, pc, result>>

(* The loop over the states after the queue ran empty. *)
Extracted == {n \in Node(file) : state[n] \in {"Owned", "Shared"}}

(* Mutant of Pruned: only aggregates, not what refers to excluded instances. *)
PrunedAggregates == {n \in Extracted : state[n] = "Shared"}

Pruned == {n \in Extracted : \/ state[n] = "Shared"
                             \/ excluded # {} /\ \E m \in References(file, n) : state[m] = "Excluded"}

Finish ==
  /\ pc = "visit"
  /\ queue = {}
  /\ result' = [nodes |-> Extracted, pruned |-> Pruned, done |-> TRUE]
  /\ pc' = "done"
  /\ UNCHANGED <<call, state, queue>>

Next == TakeSeeds \/ (\E n \in queue : Visit(n)) \/ Finish

(* The function runs to its end: nothing else is scheduled. *)
Spec == Init /\ [][Next]_vars /\ WF_vars(Next)

-----------------------------------------------------------------------------
(* Types of the state. *)
TypeOK ==
  /\ state \in [Node(file) -> States]
  /\ queue \subseteq Node(file)
  /\ pc \in {"seed", "visit", "done"}
  /\ result \in [nodes : SUBSET Node(file), pruned : SUBSET Node(file), done : BOOLEAN]

(* The loop's invariant, part by part: how a state is decided, what the     *)
(* queue holds, and what the result says.                                   *)
Classified ==
  /\ \A n \in Node(file) : state[n] = "Excluded" <=> n \in excluded
  /\ \A n \in Extracted : state[n] = "Shared" <=> IsShared(file.instances[n])

Started ==
  IF pc = "seed" THEN Extracted = {} /\ queue = {}
                 ELSE seeds \ excluded \subseteq Extracted

(* Whatever was taken and is no longer queued has had all it pulls in taken. *)
VisitedIsClosed ==
  /\ queue \subseteq Extracted
  /\ \A n \in Extracted \ queue : Pulls(file, n) \ excluded \subseteq Extracted

(* Nothing is taken that a closed set over the seeds could do without. *)
NothingSuperfluous ==
  \A T \in SUBSET Node(file) :
    seeds \ excluded \subseteq T /\ IsClosed(file, T, excluded) => Extracted \subseteq T

Reported ==
  /\ result.done <=> pc = "done"
  /\ ~result.done => result = NoResult
  /\ result.done => queue = {} /\ result.nodes = Extracted /\ result.pruned = Pruned

(* What the worklist keeps true between passes, for every order of visits:  *)
(* it has taken only what the closure must hold, and owes only what the     *)
(* queued nodes pull in.                                                    *)
LoopInv == Classified /\ Started /\ VisitedIsClosed /\ NothingSuperfluous /\ Reported

(* An extraction never loses a reference silently: an instance it holds     *)
(* that refers to one it does not is marked for pruning, and either that    *)
(* target was excluded by the caller or it is only an item of the shared    *)
(* aggregate's list.                                                        *)
NothingLost ==
  result.done =>
    \A n \in result.nodes : \A m \in References(file, n) \ result.nodes :
      /\ n \in result.pruned
      /\ \/ m \in excluded
         \/ /\ IsShared(file.instances[n])
            /\ m \notin NodesNamed(file, IdsOutside(file.instances[n],
                                                   SharedRule(file.instances[n])))

(* The worklist gives what the closure promises, and nothing before the end. *)
C == INSTANCE Closure

ImplementsClosure == C!Spec

(* The loop ends, however the file's references are tied in cycles. *)
Terminates == <>(pc = "done")
=============================================================================
