-------------------------------- MODULE MCBom --------------------------------
(***************************************************************************)
(* Structures over four definitions, listed from the first: any set of     *)
(* usages, each with its own quantity, one pair used twice, one definition *)
(* used by itself; the tree with and without deduplication and two levels  *)
(* deep.                                                                   *)
(***************************************************************************)
EXTENDS Bom

Usages == << <<1, 2>>, <<1, 3>>, <<2, 3>>, <<2, 4>>, <<3, 4>>,
             <<3, 2>>, <<4, 2>>, <<2, 2>>, <<1, 3>> >>

(* Quantities that tell every path apart; the second pair states none.      *)
UsageOf(k) == [parent |-> Usages[k][1], child |-> Usages[k][2],
               quantity |-> IF k = 2 THEN << >> ELSE <<1 + (k % 3)>>]

StructureOf(S) ==
  LET chosen == SelectSeq([k \in DOMAIN Usages |-> k], LAMBDA k : k \in S)
      usages == [i \in DOMAIN chosen |-> UsageOf(chosen[i])]
  IN  [definitions |-> 4, usages |-> usages, children |-> ChildrenByParent(4, usages)]

McRequests ==
  {[structure |-> StructureOf(S), root |-> 1, dedupe |-> mode[1], depth |-> mode[2]] :
     S \in SUBSET DOMAIN Usages, mode \in {<<FALSE, << >>>>, <<TRUE, << >>>>, <<TRUE, <<2>>>>}}
=============================================================================
