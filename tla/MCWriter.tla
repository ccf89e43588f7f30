------------------------------- MODULE MCWriter -------------------------------
(***************************************************************************)
(* Every selection, pruning and numbering of small files whose instance    *)
(* names are out of order and overlap the dense ones, with a REFERENCE     *)
(* entry for #9 and one, #8, that only an anchor uses.                     *)
(***************************************************************************)
EXTENDS Writer

Ref(s) == [list |-> FALSE, refs |-> s]
List(s) == [list |-> TRUE, refs |-> s]
Inst(id, name, a, b) ==
  [id |-> id, complex |-> FALSE, records |-> <<[name |-> name, params |-> <<Ref(a), List(b)>>]>>]

McFiles ==
  {[instances |-> <<Inst(3, "A", a, b), Inst(1, "B", << >>, c), Inst(2, "C", <<3>>, << >>)>>,
    external |-> <<8, 9>>,
    anchors |-> <<{1}, {8}>>] :
     a \in {<< >>, <<2>>, <<9>>}, b \in {<< >>, <<1>>, <<1, 2>>, <<2, 9, 1, 2>>},
     c \in {<< >>, <<9, 3>>}}

(* One call of assemble's kind: a token with replacement text, and an      *)
(* appended instance.                                                      *)
Substitute == [id \in {2} |-> 20]
Appended == <<Inst(20, "D", << >>, << >>)>>

McCalls ==
  {[file |-> f, positions |-> s, pruned |-> p, numbering |-> n, whole |-> TRUE,
    replacing |-> FALSE, replaced |-> Nothing, appended |-> << >>] :
     f \in McFiles, s \in SUBSET (1..3), p \in SUBSET (1..2),
     n \in {Preserve, Dense, Offset(2)}}
   \cup
  {[file |-> f, positions |-> s, pruned |-> {}, numbering |-> Offset(2), whole |-> FALSE,
    replacing |-> TRUE, replaced |-> r, appended |-> << >>] :
     f \in McFiles, s \in SUBSET (1..3), r \in {Nothing, Substitute}}
   \cup
  {[file |-> f, positions |-> {1, 2}, pruned |-> {}, numbering |-> Preserve, whole |-> TRUE,
    replacing |-> TRUE, replaced |-> Substitute, appended |-> Appended] : f \in McFiles}
=============================================================================
