--------------------------------- MODULE Bom ---------------------------------
(***************************************************************************)
(* The two bills of materials of one structure (src/src/model/assembly.rs, *)
(* both behind `stepq bom`): the flat totals, then the multi-level tree.   *)
(* They share nothing but the structure, and must not disagree about it.   *)
(***************************************************************************)
EXTENDS Products

CONSTANTS Requests,              \* [structure, root, dedupe, depth]
          MAX_ASSEMBLY_DEPTH, MAX_BOM_NODES

ASSUME LimitsAssumption == MAX_ASSEMBLY_DEPTH \in Nat \ {0} /\ MAX_BOM_NODES \in Nat \ {0}

(* A usage names a parent and a child that ProductStructure::new has listed. *)
IsStructure(s) ==
  /\ s.definitions \in Nat
  /\ IsSequence(s.usages)
  /\ \A u \in ToSet(s.usages) : u.parent \in Definitions(s) /\ u.child \in Definitions(s)
  /\ s.children = ChildrenByParent(s.definitions, s.usages)

ASSUME RequestsAssumption ==
  \A r \in Requests : IsStructure(r.structure) /\ r.root \in Definitions(r.structure)

(* Quantities add up and multiply exactly: whole numbers stand for f64.     *)
ASSUME QuantitiesAssumption ==
  \A r \in Requests : \A u \in ToSet(r.structure.usages) : Quantity(u) \in Int

VARIABLES call,                                       \* the request
          calls, memo, visiting, result,              \* of totals
          nodes, stack, expanded, path, budget        \* of bom_tree

totalsVars == <<calls, memo, visiting, result>>
treeVars == <<nodes, stack, expanded, path, budget>>
vars == <<call, totalsVars, treeVars>>

Totals == INSTANCE BomTotals WITH stack <- calls
Tree == INSTANCE BomTree

Init == Totals!Init /\ Tree!Start

ListTotals == Totals!Next /\ UNCHANGED treeVars
ListTree == result.done /\ Tree!Next /\ UNCHANGED totalsVars

Next == ListTotals \/ ListTree

(* Each listing is a function that runs to its end.                         *)
Spec == Init /\ [][Next]_vars /\ WF_vars(Next)

-----------------------------------------------------------------------------
(* A definition is walked once, however many paths lead to it.              *)
WalkedOnce == Totals!WalkedOnce

(* Every definition below the root has one line in the flat list, and only  *)
(* those do, even when usages form a cycle: an ignored usage never hides a  *)
(* component.                                                              *)
EveryComponentListed == Totals!EveryComponentListed

(* Quantities multiply down the tree and add up across branches, also where *)
(* the memo stands in for a walk.                                           *)
TotalsOfAcyclic == Totals!TotalsOfAcyclic

(* Nothing is missing from the tree without a mark.                         *)
MarkedIfIncomplete == Tree!MarkedIfIncomplete

(* The two listings of one file agree: the totals of a full tree's nodes    *)
(* add up to the flat list's, and a tree without a cut shows every          *)
(* definition the flat list has, deduplicated or not.                       *)
ListingsAgree ==
  Tree!Done /\ (\A i \in DOMAIN nodes : ~nodes[i].truncated) =>
    /\ {nodes[i].definition : i \in DOMAIN nodes} \ {call.root}
         = {result.lines[i].definition : i \in DOMAIN result.lines} \ {call.root}
    /\ ~call.dedupe =>
         \A x \in Definitions(call.structure) \ {call.root} :
           Tree!TotalOf(x) = Totals!ListedQuantity(x)

(* Both listings end, cycles or not.                                        *)
Finishes == <>(result.done /\ Tree!Done)

=============================================================================
