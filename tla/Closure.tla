------------------------------- MODULE Closure -------------------------------
(***************************************************************************)
(* What an extraction promises (the module comment of                      *)
(* src/src/model/extract.rs): the least set of instances that holds the    *)
(* seeds and everything its members pull in under the rule table, without  *)
(* the excluded instances; and which of its members list instances that    *)
(* were left out.  There is no queue and no order here: the answer appears *)
(* in one step.                                                            *)
(***************************************************************************)
EXTENDS ExtractRules

VARIABLES call,    \* the arguments: [file, seeds, excluded]
          result   \* the Extraction returned

Pending == [nodes |-> {}, pruned |-> {}, done |-> FALSE]

Init ==
  /\ call.seeds \subseteq Node(call.file)
  /\ call.excluded \subseteq Node(call.file)
  /\ result = Pending

Answer ==
  /\ ~result.done
  /\ \E S \in SUBSET Node(call.file) :
       /\ result' = [nodes |-> S, pruned |-> ToPrune(call.file, S, call.excluded), done |-> TRUE]
       /\ IsClosure(call.file, S, call.seeds, call.excluded)
  /\ UNCHANGED call

vars == <<call, result>>

Spec == Init /\ [][Answer]_vars
=============================================================================
