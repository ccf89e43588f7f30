----------------------------- MODULE ParamGrammar -----------------------------
(***************************************************************************)
(* The grammar of an instance's value, as the standard states it and       *)
(* without a stack: the sentences of each length.                          *)
(*                                                                         *)
(*   value   = record | "(" record {record} ")"                            *)
(*   record  = keyword "(" [param {"," param}] ")"                         *)
(*   param   = leaf | "(" [param {"," param}] ")" | keyword "(" param ")"  *)
(***************************************************************************)
EXTENDS Naturals, Sequences

CONSTANTS Leaves,      \* the tokens that are a parameter by themselves
          DEPTH,       \* how deep lists may nest, the record's included
          LENGTH       \* the longest sentence

Tok(kind) == <<[kind |-> kind, id |-> 0]>>

(* The single parameters, and the lists of at least one parameter, of n     *)
(* tokens with at most d parentheses about them.                            *)
Phrases[what \in {"param", "params"}, d \in 0..DEPTH - 1, n \in 0..LENGTH] ==
  IF what = "param"
  THEN (IF n = 1 THEN {<<leaf>> : leaf \in Leaves} ELSE {})
       \cup (IF d > 0 /\ n = 2 THEN {Tok("(") \o Tok(")")} ELSE {})
       \cup (IF d > 0 /\ n > 2
             THEN {Tok("(") \o ps \o Tok(")") : ps \in Phrases["params", d - 1, n - 2]}
             ELSE {})
       \cup (IF d > 0 /\ n > 3
             THEN {Tok("keyword") \o Tok("(") \o p \o Tok(")") :
                     p \in Phrases["param", d - 1, n - 3]}
             ELSE {})
  ELSE IF n = 0 THEN {}
  ELSE Phrases["param", d, n]
       \cup UNION {{p \o Tok(",") \o ps :
                      p \in Phrases["param", d, k], ps \in Phrases["params", d, n - k - 1]} :
                     k \in 1..n - 1}

RecordsOf(n) ==
  IF n < 3 THEN {}
  ELSE {Tok("keyword") \o Tok("(") \o ps \o Tok(")") :
          ps \in IF n = 3 THEN {<< >>} ELSE Phrases["params", DEPTH - 1, n - 3]}

(* One record or more, one after the other.                                *)
RecordRuns[n \in 0..LENGTH] ==
  RecordsOf(n) \cup UNION {{r \o rs : r \in RecordsOf(k), rs \in RecordRuns[n - k]} :
                             k \in 1..n - 1}

Sentences ==
  UNION {RecordsOf(n) : n \in 0..LENGTH}
    \cup UNION {{Tok("(") \o rs \o Tok(")") : rs \in RecordRuns[n - 2]} : n \in 2..LENGTH}
=============================================================================
