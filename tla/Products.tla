------------------------------- MODULE Products -------------------------------
(***************************************************************************)
(* The product structure of a file (src/src/model/assembly.rs): its        *)
(* product definitions, numbered from 1 in file order, and the assembly    *)
(* usages that nest them.                                                  *)
(*                                                                         *)
(*   structure  [definitions |-> Nat, usages |-> Seq(usage),               *)
(*               children |-> definition -> places in usages]              *)
(*   usage      [parent, child |-> definition,                             *)
(*               quantity |-> <<Nat>>, or << >> for None]                  *)
(***************************************************************************)
EXTENDS Order, SequencesExt

Definitions(s) == 1..s.definitions

(* ProductStructure::new lists the usages of each parent once, in file order;*)
(* ProductStructure::children reads that list.                             *)
ChildrenByParent(definitions, usages) ==
  [d \in 1..definitions |-> InOrder({k \in DOMAIN usages : usages[k].parent = d})]

ChildUsages(s, d) == s.children[d]

IsAssembly(s, d) == ChildUsages(s, d) # << >>

(* A usage without a quantity is one occurrence.                           *)
Quantity(usage) == IF usage.quantity = << >> THEN 1 ELSE usage.quantity[1]

(* ProductStructure::components: the distinct children of a definition in   *)
(* order of first use, with the quantities of their usages added up.        *)
Components(s, d) ==
  LET uses == ChildUsages(s, d)
      Earlier(i) == \E j \in 1..i - 1 : s.usages[uses[j]].child = s.usages[uses[i]].child
      first == InOrder({i \in DOMAIN uses : ~Earlier(i)})
      Each(child) == FoldLeft(LAMBDA sum, k : sum + IF s.usages[k].child = child
                                                    THEN Quantity(s.usages[k]) ELSE 0,
                              0, uses)
  IN  [i \in DOMAIN first |-> LET child == s.usages[uses[first[i]]].child
                              IN  [definition |-> child, quantity |-> Each(child)]]

-----------------------------------------------------------------------------
(* What a bill of materials means, without an algorithm.                   *)

(* The definitions below a definition.                                     *)
Children(s, S) == {u.child : u \in {v \in ToSet(s.usages) : v.parent \in S}}

Below(s, d) ==
  LET Within[k \in 0..s.definitions] ==
        IF k = 0 THEN {d} ELSE Within[k - 1] \cup Children(s, Within[k - 1])
  IN  Children(s, Within[s.definitions])

IsAcyclic(s) == \A d \in Definitions(s) : d \notin Below(s, d)

(* The total of x under root: over every path down to x that never enters   *)
(* its own ancestry again, the product of the quantities along it.          *)
PathTotal(s, root, x) ==
  LET Under[p \in Definitions(s) \X SUBSET Definitions(s)] ==
        LET above == p[2] \cup {p[1]}
        IN  FoldLeft(LAMBDA sum, k :
                       LET u == s.usages[k]
                       IN  IF u.child \in above THEN sum
                           ELSE sum + Quantity(u) * ((IF u.child = x THEN 1 ELSE 0)
                                                     + Under[<<u.child, above>>]),
                     0, ChildUsages(s, p[1]))
  IN  Under[<<root, {}>>]

(* No such path has more than n usages.                                    *)
IsShallow(s, root, n) ==
  ~\E p \in [1..n + 1 -> Definitions(s) \ {root}] :
     /\ \A i, j \in 1..n + 1 : p[i] = p[j] => i = j
     /\ \A i \in 1..n + 1 : p[i] \in Children(s, {IF i = 1 THEN root ELSE p[i - 1]})
=============================================================================
