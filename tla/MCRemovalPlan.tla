---------------------------- MODULE MCRemovalPlan ----------------------------
(***************************************************************************)
(* Every sequence of tokens up to LONGEST, against the grammar's sentences *)
(* up to that length, and the removal plan of every value that parses,     *)
(* with no replacement text and with some.  The leaves are a written name, *)
(* which stands for literals too, and an unwritten one.                    *)
(***************************************************************************)
EXTENDS RemovalPlan

Name(id) == [kind |-> "name", id |-> id]

McTokens == {[kind |-> k, id |-> 0] : k \in Kinds \ {"name", "literal"}} \cup {Name(1), Name(2)}

G == INSTANCE ParamGrammar WITH Leaves <- {Name(1), Name(2)},
                                DEPTH <- MAX_DEPTH, LENGTH <- LONGEST

McGrammar == G!Sentences

McReplaced(positions) == {{}, {j \in positions : j % 4 = 1}}
=============================================================================
