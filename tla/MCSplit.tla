------------------------------- MODULE MCSplit -------------------------------
(***************************************************************************)
(* Three definitions, an assembly and its two parts, with labels that are  *)
(* alike, differ in case, are blank, have an extension, or look like the   *)
(* numbered name or the body file of another.                              *)
(***************************************************************************)
EXTENDS Split, TLC

Labels == { <<"A">>, <<"a", " ">>, <<"A", "-", "7">>, <<"A", ".stp">>,
            <<"A", ".", "body", "-", "1">>, <<"B">>, <<" ", "/">>, << >> }

Assemblies == { <<"A">>, <<"A", ".stp">>, << >> }

Definition(instance, label, parts, solids) ==
  [instance |-> instance, label |-> label, parts |-> parts, solids |-> solids]

(* Files that may be there: a part's, a body's, and one of no concern.      *)
Foreign == {<<"A", "-", "7", ".stp">>, <<"a", ".", "body", "-", "2", ".stp">>, <<"other">>}

(* What is asked for: one part with two solids or none, and masters or not; *)
(* and where to: forced or not, on a disk with cases or without.            *)
McCalls ==
  {[definitions |-> <<Definition(3, a, {2, 3}, 0), Definition(5, b, {}, 2), Definition(7, c, {}, 1)>>,
    bodies |-> mode[1], master |-> mode[2], force |-> place[1], caseless |-> k, before |-> place[2]] :
     a \in Assemblies, b, c \in Labels, mode \in {<<TRUE, FALSE>>, <<FALSE, TRUE>>}, k \in BOOLEAN,
     place \in {<<FALSE, {}>>, <<TRUE, Foreign>>, <<FALSE, Foreign>>}}
=============================================================================
