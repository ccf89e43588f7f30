------------------------------ MODULE MCExtract ------------------------------
(***************************************************************************)
(* Extract on every small file: three instances, each of any of three      *)
(* types, with every choice of what its two attributes refer to; and four  *)
(* hand-made files for followed items and complex instances.               *)
(***************************************************************************)
EXTENDS Extract

McRules ==
  << [entities |-> {"SHAPE"}, simple |-> 0, partial |-> <<"SHAPE", 0>>,
      shared |-> FALSE, follow |-> {}],
     [entities |-> {"LAYER"}, simple |-> 1, partial |-> <<"LAYER_BASE", 1>>,
      shared |-> TRUE, follow |-> {"CAMERA", "ANNOTATION_PLANE"}] >>

McAssociations == {"ASSOCIATION"}

Ref(s) == [list |-> FALSE, refs |-> s]
List(s) == [list |-> TRUE, refs |-> s]
Rec(name, params) == [name |-> name, params |-> params]
Simple(id, name, params) == [id |-> id, complex |-> FALSE, records |-> <<Rec(name, params)>>]
File(instances) == [instances |-> instances, external |-> << >>, anchors |-> << >>]

(* Every instance but the layer refers to at most one other; a layer refers *)
(* to at most one and lists any of the others.                             *)
OneOrNone(ids) == {<< >>} \cup {<<i>> : i \in ids}
Lists(i, j) == {<< >>, <<i>>, <<j>>, <<i, j>>}

Menu(id, i, j) ==
  {Simple(id, t, <<Ref(a)>>) : t \in {"POINT", "SHAPE"}, a \in OneOrNone({i, j})}
    \cup {Simple(id, "LAYER", <<Ref(a), List(b)>>) : a \in {<< >>, <<j>>}, b \in Lists(i, j)}

SmallFiles ==
  {File(<<a, b, c>>) : a \in Menu(11, 12, 13), b \in Menu(12, 13, 11), c \in Menu(13, 11, 12)}

(* A layer that lists a camera, a plane semantic PMI is associated with,    *)
(* and a plain item; taken through the item.  With and without the          *)
(* association, as a simple and as a complex instance.                      *)
Followed(complex, associated) ==
  File(<< Simple(1, "POINT", << >>),
          IF complex
          THEN [id |-> 2, complex |-> TRUE,
                records |-> <<Rec("LAYER_BASE", <<Ref(<<7>>), List(<<1, 3, 4>>)>>),
                              Rec("LAYER", << >>)>>]
          ELSE Simple(2, "LAYER", <<Ref(<<7>>), List(<<1, 3, 4>>)>>),
          Simple(3, "CAMERA", << >>),
          Simple(4, "ANNOTATION_PLANE", <<List(<<5>>)>>),
          Simple(5, "POINT", << >>),
          Simple(6, IF associated THEN "ASSOCIATION" ELSE "POINT", <<Ref(<<5>>)>>),
          Simple(7, "POINT", << >>) >>)

Scenarios == {Followed(c, a) : c, a \in BOOLEAN}

McRequests ==
  {[file |-> f, seeds |-> {1}, excluded |-> x] : f \in SmallFiles, x \in {{}, {3}}}
    \cup {[file |-> f, seeds |-> {1}, excluded |-> x] : f \in Scenarios, x \in {{}, {5}}}
=============================================================================
