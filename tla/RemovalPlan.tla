----------------------------- MODULE RemovalPlan -----------------------------
(***************************************************************************)
(* removal_plan (src/src/p21/writer.rs): which tokens of a pruned instance *)
(* to drop so that no list item refers to an unwritten instance.  The loop *)
(* over the instance's tokens, one token a step; positions count from 1.   *)
(***************************************************************************)
EXTENDS Parser

CONSTANTS Unwritten,     \* the names of instances that are not written
          Replaced(_)    \* token positions -> the sets that may have replacement text

VARIABLES plan,          \* the arguments: [tokens, unwritten, replaced]
          i,             \* the token the loop looks at
          removed,       \* the positions to drop
          outcome

vars == <<read, state, plan, i, removed, outcome>>

tokens == plan.tokens

Kind(j) == IF j \in DOMAIN tokens THEN tokens[j].kind ELSE "none"

(* The "(" enclosing a token: the last one before it that is still open.   *)
Opens(j, k) == Cardinality({m \in j..k : Kind(m) = "("})
Closes(j, k) == Cardinality({m \in j..k : Kind(m) = ")"})

Enclosing(j) ==
  {p \in 1..j - 1 : Kind(p) = "(" /\ \A k \in p + 1..j - 1 : Closes(p + 1, k) <= Opens(p + 1, k)}

(* Mutant of InList: a typed value's or a record's parenthesis counts.      *)
InAnything(j) == Enclosing(j) # {}

(* in_list: the enclosing "(" follows no name, which would make it a        *)
(* record's or a typed value's, and is not the first token.                 *)
InList(j) ==
  Enclosing(j) # {} /\ LET paren == Max(Enclosing(j))
                       IN  paren > 1 /\ Kind(paren - 1) # "keyword"

IsItem(j) == InList(j) /\ Kind(j - 1) \in {"(", ","} /\ Kind(j + 1) \in {",", ")"}

MustGo(j) == Kind(j) = "name" /\ tokens[j].id \in plan.unwritten /\ j \notin plan.replaced

(* Mutant of CommaBefore: the last item leaves its comma behind.            *)
NoCommaBefore(j) == {}

(* The item goes with the comma after it, or as the last one with the       *)
(* nearest comma before it that is still kept, if only dropped tokens are   *)
(* between them.                                                            *)
CommaBefore(j) ==
  LET kept == {k \in 1..j - 1 : k \notin removed}
  IN  IF kept # {} /\ Kind(Max(kept)) = "," THEN {Max(kept)} ELSE {}

Dropped(j) ==
  {j} \cup IF Kind(j + 1) = "," THEN {j + 1} ELSE CommaBefore(j)

Init ==
  /\ StartReading
  /\ plan = [tokens |-> << >>, unwritten |-> {}, replaced |-> {}]
  /\ i = 1
  /\ removed = {}
  /\ outcome = "reading"

Parse == Read /\ UNCHANGED <<plan, i, removed, outcome>>

(* Any value that parses may come to be pruned.                            *)
Prune ==
  /\ outcome = "reading" /\ state.expect = "Done"
  /\ \E replaced \in Replaced(DOMAIN read) :
       plan' = [tokens |-> read, unwritten |-> Unwritten, replaced |-> replaced]
  /\ outcome' = "planning"
  /\ UNCHANGED <<read, state, i, removed>>

(* Every other token, and every name that is written or replaced, stays.   *)
Keep ==
  /\ outcome = "planning" /\ i \in DOMAIN tokens
  /\ ~MustGo(i)
  /\ i' = i + 1
  /\ UNCHANGED <<read, state, plan, removed, outcome>>

Drop ==
  /\ outcome = "planning" /\ i \in DOMAIN tokens
  /\ MustGo(i) /\ IsItem(i)
  /\ removed' = removed \cup Dropped(i)
  /\ i' = i + 1
  /\ UNCHANGED <<read, state, plan, outcome>>

Refuse ==
  /\ outcome = "planning" /\ i \in DOMAIN tokens
  /\ MustGo(i) /\ ~IsItem(i)
  /\ outcome' = "UnresolvedReference"
  /\ UNCHANGED <<read, state, plan, i, removed>>

Finish ==
  /\ outcome = "planning" /\ i > Len(tokens)
  /\ outcome' = "Ok"
  /\ UNCHANGED <<read, state, plan, i, removed>>

Next == Parse \/ Prune \/ Keep \/ Drop \/ Refuse \/ Finish

Spec == Init /\ [][Next]_vars

-----------------------------------------------------------------------------
KeptPositions == SelectSeq([k \in DOMAIN tokens |-> k], LAMBDA k : k \notin removed)

Kept == [k \in DOMAIN KeptPositions |-> tokens[KeptPositions[k]]]

(* After every pass of the loop what is kept still parses: exactly one      *)
(* comma is left between two items, none before the first or after the      *)
(* last, and no bracket is touched.                                         *)
StaysWellFormed == outcome # "reading" => IsAccepted(Kept)

(* Where the name stands, by the parser's own account: directly in a list   *)
(* that is not a record's parameters.                                       *)
StandsInList(j) ==
  LET before == After(SubSeq(tokens, 1, j - 1)).stack
  IN  Len(before) > 1 /\ Last(before) = "List"

(* Only unwritten names and commas go, and in the end no unwritten name is  *)
(* left; the plan is refused exactly when one is no list item: an attribute *)
(* of its own, or the content of a typed value.                             *)
DropsTheUnwritten ==
  /\ \A j \in removed : MustGo(j) \/ Kind(j) = ","
  /\ outcome = "Ok" => \A j \in DOMAIN tokens : MustGo(j) => j \in removed /\ StandsInList(j)
  /\ outcome = "UnresolvedReference" => \E j \in DOMAIN tokens : MustGo(j) /\ ~StandsInList(j)
=============================================================================
