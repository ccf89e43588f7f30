----------------------------- MODULE ExtractRules -----------------------------
(***************************************************************************)
(* The rule table's meaning (src/src/model/extract.rs): which instances a  *)
(* taken instance pulls into an extraction.  RULES is a constant: the      *)
(* specification and its theorems hold for every rule table.               *)
(*                                                                         *)
(*   rule  [entities |-> set of type names, simple |-> position,           *)
(*          partial |-> <<type name, position>> or << >> for None,         *)
(*          shared |-> BOOLEAN, follow |-> set of type names]              *)
(*                                                                         *)
(* Positions count from 0, as in the code.                                 *)
(***************************************************************************)
EXTENDS StepGraph

CONSTANTS RULES,         \* the rule table, in order
          ASSOCIATIONS   \* the types that tie semantic PMI to its presentation

HasType(inst, types) == \E i \in DOMAIN inst.records : inst.records[i].name \in types

(* rule_record: the places <<record, position>> the rule's attribute is     *)
(* at; one place, or none if the rule does not apply.                       *)
RulePlaces(inst, rule) ==
  LET named == {i \in DOMAIN inst.records : inst.records[i].name = rule.partial[1]}
  IN  IF inst.complex
      THEN IF rule.partial # << >> /\ HasType(inst, rule.entities) /\ named # {}
           THEN {<<Min(named), rule.partial[2]>>}
           ELSE {}
      ELSE IF inst.records # << >> /\ inst.records[1].name \in rule.entities
           THEN {<<1, rule.simple>>}
           ELSE {}

(* rule_param, then collect_references: the names in the rule's attribute. *)
RuleIds(inst, rule) ==
  UNION {ToSet(inst.records[place[1]].params[place[2] + 1].refs) :
           place \in {p \in RulePlaces(inst, rule) :
                        p[2] + 1 \in DOMAIN inst.records[p[1]].params}}

(* matching_rule: the instance would join an extraction that holds target. *)
Matches(inst, target) == \E k \in DOMAIN RULES : target \in RuleIds(inst, RULES[k])

(* shared_rule: the shared rules the instance is an aggregate of; the code *)
(* takes the first.                                                        *)
SharedRules(inst) ==
  {k \in DOMAIN RULES : RULES[k].shared /\ RulePlaces(inst, RULES[k]) # {}}

IsShared(inst) == SharedRules(inst) # {}

SharedRule(inst) == RULES[Min(SharedRules(inst))]

(* references_outside: every name except those in the rule's attribute.     *)
(* The attribute is skipped in every record of the same type name.          *)
IdsOutside(inst, rule) ==
  LET Skipped(i, j) == \E p \in RulePlaces(inst, rule) :
                         /\ inst.records[i].name = inst.records[p[1]].name
                         /\ j = p[2] + 1
  IN  UNION {UNION {ToSet(inst.records[i].params[j].refs) :
                      j \in {k \in DOMAIN inst.records[i].params : ~Skipped(i, k)}} :
               i \in DOMAIN inst.records}

(* An annotation plane whose elements semantic PMI is associated with. *)
IsAssociatedPlane(f, n) ==
  /\ HasType(f.instances[n], {"ANNOTATION_PLANE"})
  /\ \E element \in References(f, n) :
       \E user \in ReferencedBy(f, element) : HasType(f.instances[user], ASSOCIATIONS)

(* followed_items: the list items a shared aggregate's rule follows all the *)
(* same: items of a follow type, except associated annotation planes.       *)
FollowedItems(f, inst, rule) ==
  {n \in NodesNamed(f, RuleIds(inst, rule)) :
     HasType(f.instances[n], rule.follow) /\ ~IsAssociatedPlane(f, n)}

(* What one pass of the loop takes for a node it pops: an aggregate's      *)
(* references outside its list and its followed items, anything else's     *)
(* references, and the referrers that match a rule.                        *)
Forward(f, n) ==
  LET inst == f.instances[n]
  IN  IF IsShared(inst)
      THEN NodesNamed(f, IdsOutside(inst, SharedRule(inst)))
             \cup FollowedItems(f, inst, SharedRule(inst))
      ELSE References(f, n)

Backward(f, n) == {m \in ReferencedBy(f, n) : Matches(f.instances[m], f.instances[n].id)}

Pulls(f, n) == Forward(f, n) \cup Backward(f, n)

(* S holds what each of its members pulls in, short of X. *)
IsClosed(f, S, X) == \A n \in S : Pulls(f, n) \ X \subseteq S

(* S is the least closed set over the seeds. *)
IsClosure(f, S, start, X) ==
  /\ start \ X \subseteq S
  /\ IsClosed(f, S, X)
  /\ \A T \in SUBSET Node(f) : start \ X \subseteq T /\ IsClosed(f, T, X) => S \subseteq T

(* The members of S whose lists are cut down when they are written: shared *)
(* aggregates, and whatever refers to an excluded instance.                *)
ToPrune(f, S, X) ==
  {n \in S : IsShared(f.instances[n]) \/ References(f, n) \cap X # {}}
=============================================================================
