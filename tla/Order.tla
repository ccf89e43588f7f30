--------------------------------- MODULE Order ---------------------------------
(***************************************************************************)
(* Sequences of no particular elements, and ascending order: what a loop    *)
(* over a file, or a BTreeMap, does with the places it keeps.              *)
(***************************************************************************)
EXTENDS Naturals, Sequences, FiniteSets

IsSequence(s) == Len(s) \in Nat /\ s = [i \in 1..Len(s) |-> s[i]]

(* The place of i among the members of S, from 1; the members of a finite   *)
(* set of naturals in ascending order; and the elements of a sequence at    *)
(* such places.                                                            *)
Rank(i, S) == Cardinality({j \in S : j <= i})

InOrder(S) == [k \in 1..Cardinality(S) |-> CHOOSE i \in S : Rank(i, S) = k]

ElementsAt(s, places) == LET at == InOrder(places) IN [k \in DOMAIN at |-> s[at[k]]]

(* Every element once, where it comes first.                               *)
WithoutRepeats(s) == ElementsAt(s, {k \in DOMAIN s : \A j \in 1..k - 1 : s[j] # s[k]})
=============================================================================
