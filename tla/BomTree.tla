------------------------------- MODULE BomTree -------------------------------
(***************************************************************************)
(* bom_tree and bom_node (src/src/model/assembly.rs): the multi-level bill *)
(* of materials, expanded under a depth limit, a size limit, a cycle check *)
(* and, when asked for, deduplication.  The tree is kept as its nodes in   *)
(* the order they are made, which is depth first; each names its parent.   *)
(***************************************************************************)
EXTENDS Products

CONSTANTS Requests,              \* [structure, root, dedupe, depth]; depth is
                                 \* <<n>>, or << >> for no limit
          MAX_ASSEMBLY_DEPTH,    \* 1024 in the code
          MAX_BOM_NODES          \* 1,000,000 in the code

VARIABLES call,         \* the request; it does not change
          nodes,        \* the nodes made so far
          stack,        \* the calls of bom_node under way
          expanded,     \* sub-assemblies expanded somewhere in the tree
          path,         \* sub-assemblies from the root to the current node
          budget        \* nodes that may still be made

vars == <<call, nodes, stack, expanded, path, budget>>

structure == call.structure

(* A call of bom_node at a node of the tree, and how many components of it  *)
(* have been made.                                                         *)
Frame(at) == [at |-> at, done |-> 0]

Exhausted == budget = 0

Spent == IF budget = 0 THEN 0 ELSE budget - 1

(* bom_node up to its loop, for one definition: the node, and whether its   *)
(* components are to be listed.  `left` is the budget after this node.      *)
IsRepeated(d) == call.dedupe /\ d \in expanded

IsCutOff(d, level, left) ==
  \/ call.depth # << >> /\ level >= call.depth[1]
  \/ d \in path
  \/ level >= MAX_ASSEMBLY_DEPTH
  \/ left = 0

Opens(d, level, left) ==
  IsAssembly(structure, d) /\ ~IsRepeated(d) /\ ~IsCutOff(d, level, left)

Node(d, parent, quantity, total, level, left) ==
  [definition |-> d, parent |-> parent, quantity |-> quantity, total |-> total,
   repeated  |-> IsAssembly(structure, d) /\ IsRepeated(d),
   truncated |-> IsAssembly(structure, d) /\ ~IsRepeated(d) /\ IsCutOff(d, level, left)]

Start ==
  /\ nodes = << >> /\ stack = << >> /\ expanded = {} /\ path = {}
  /\ budget = MAX_BOM_NODES

Init == call \in Requests /\ Start

(* The call of bom_node for d at `level`, `callers` being the calls above.  *)
Enter(d, parent, quantity, total, level, callers) ==
  /\ nodes' = Append(nodes, Node(d, parent, quantity, total, level, Spent))
  /\ budget' = Spent
  /\ IF Opens(d, level, Spent)
     THEN /\ stack' = Append(callers, Frame(Len(nodes) + 1))
          /\ expanded' = expanded \cup {d}
          /\ path' = path \cup {d}
     ELSE /\ stack' = callers
          /\ UNCHANGED <<expanded, path>>

Begin ==
  /\ nodes = << >>
  /\ Enter(call.root, 0, 1, 1, 0, << >>)
  /\ UNCHANGED call

Top == Last(stack)
TopNode == nodes[Top.at]
Parts == Components(structure, TopNode.definition)

(* Mutant of AddComponent: the total is the quantity in the parent.         *)
AddComponentOnce ==
  /\ stack # << >> /\ Top.done < Len(Parts) /\ ~Exhausted
  /\ LET part == Parts[Top.done + 1]
     IN  Enter(part.definition, Top.at, part.quantity, part.quantity, Len(stack),
               [stack EXCEPT ![Len(stack)].done = @ + 1])
  /\ UNCHANGED call

(* One turn of the loop over the components of the node on top.             *)
AddComponent ==
  /\ stack # << >> /\ Top.done < Len(Parts) /\ ~Exhausted
  /\ LET part == Parts[Top.done + 1]
     IN  Enter(part.definition, Top.at, part.quantity, TopNode.total * part.quantity, Len(stack),
               [stack EXCEPT ![Len(stack)].done = @ + 1])
  /\ UNCHANGED call

(* Mutant of BreakOff: the node does not say that it is cut off.            *)
BreakOffUnmarked ==
  /\ stack # << >> /\ Top.done < Len(Parts) /\ Exhausted
  /\ stack' = Front(stack) /\ path' = path \ {TopNode.definition}
  /\ UNCHANGED <<call, nodes, expanded, budget>>

(* The loop breaks when the budget runs out ...                             *)
BreakOff ==
  /\ stack # << >> /\ Top.done < Len(Parts) /\ Exhausted
  /\ nodes' = [nodes EXCEPT ![Top.at].truncated = TRUE]
  /\ stack' = Front(stack) /\ path' = path \ {TopNode.definition}
  /\ UNCHANGED <<call, expanded, budget>>

(* ... or ends after the last component.                                    *)
Complete ==
  /\ stack # << >> /\ Top.done = Len(Parts)
  /\ stack' = Front(stack) /\ path' = path \ {TopNode.definition}
  /\ UNCHANGED <<call, nodes, expanded, budget>>

Next == Begin \/ AddComponent \/ BreakOff \/ Complete

-----------------------------------------------------------------------------
Done == nodes # << >> /\ stack = << >>

Listed(i) == LET made == InOrder({j \in DOMAIN nodes : nodes[j].parent = i})
             IN  [k \in DOMAIN made |-> nodes[made[k]].definition]
Wanted(i) == LET parts == Components(structure, nodes[i].definition)
             IN  [k \in DOMAIN parts |-> parts[k].definition]

(* Nothing is missing without a mark: a node lists all components of its    *)
(* definition in order, or says `truncated`, or says `repeated` and an      *)
(* earlier node lists them.                                                 *)
MarkedIfIncomplete ==
  Done => \A i \in DOMAIN nodes :
            \/ nodes[i].truncated
            \/ Listed(i) = Wanted(i)
            \/ /\ nodes[i].repeated
               /\ \E j \in 1..i - 1 : /\ nodes[j].definition = nodes[i].definition
                                      /\ Listed(j) = Wanted(j) \/ nodes[j].truncated

(* The total of x, over the nodes of the tree.                             *)
TotalOf(x) == FoldLeft(LAMBDA sum, node : IF node.definition = x THEN sum + node.total ELSE sum,
                       0, nodes)
=============================================================================
