------------------------------- MODULE Parser --------------------------------
(***************************************************************************)
(* How the parser reads the value of an instance (src/src/p21/parser.rs:   *)
(* instance, record, parameters, push): a pushdown machine with an         *)
(* explicit stack, one token at a time.                                    *)
(*                                                                         *)
(*   token  [kind |-> "keyword" | "literal" | "name" | "(" | ")" | ",",    *)
(*           id |-> Nat]     (an instance name's number; 0 for the others) *)
(*   state  [complex |-> BOOLEAN, stack |-> Seq({"List", "Typed"}),        *)
(*           expect |-> what the parser asks for next]                     *)
(*                                                                         *)
(* "literal" stands for every token that is a value by itself, "keyword"   *)
(* for standard and user-defined names.                                    *)
(*                                                                         *)
(* The parser itself reads from any source of tokens, one token a step.      *)
(***************************************************************************)
EXTENDS Naturals, Sequences, SequencesExt

CONSTANT MAX_DEPTH

ASSUME DepthAssumption == MAX_DEPTH \in Nat \ {0}

Kinds == {"keyword", "literal", "name", "(", ")", ","}

Expects == {"Record", "RecordOpen", "Part", "PartOrClose",
            "ParamOrClose", "Param", "CommaOrClose", "TypedOpen", "Done", "Error"}

Start == [complex |-> FALSE, stack |-> << >>, expect |-> "Record"]

Expecting(s, what) == [s EXCEPT !.expect = what]

(* push: a list or a typed value opens, unless it is nested too deep.      *)
Push(s, frame, then) ==
  IF Len(s.stack) >= MAX_DEPTH THEN Expecting(s, "Error")
  ELSE [s EXCEPT !.stack = Append(s.stack, frame), !.expect = then]

(* Mutant of Pop: a complex instance ends with its first record.            *)
PopSimple(s) ==
  [s EXCEPT !.stack = Front(s.stack),
            !.expect = IF Len(s.stack) > 1 THEN "CommaOrClose" ELSE "Done"]

(* A closing parenthesis ends a value, or the record.                      *)
Pop(s) ==
  [s EXCEPT !.stack = Front(s.stack),
            !.expect = IF Len(s.stack) > 1 THEN "CommaOrClose"
                       ELSE IF s.complex THEN "PartOrClose" ELSE "Done"]

(* instance and record: the arms of their matches.                         *)
InRecord(s, kind) ==
  CASE s.expect = "Record" /\ kind = "("        -> [s EXCEPT !.complex = TRUE, !.expect = "Part"]
    [] s.expect \in {"Record", "Part", "PartOrClose"} /\ kind = "keyword"
                                                -> Expecting(s, "RecordOpen")
    [] s.expect = "PartOrClose" /\ kind = ")"   -> Expecting(s, "Done")
    [] s.expect = "RecordOpen" /\ kind = "("    -> [s EXCEPT !.stack = <<"List">>,
                                                            !.expect = "ParamOrClose"]
    [] OTHER                                    -> Expecting(s, "Error")

(* parameters: the arms of its match, in order.                            *)
InParameters(s, kind) ==
  CASE s.expect = "CommaOrClose" /\ kind = ","  -> Expecting(s, IF Last(s.stack) = "Typed"
                                                                THEN "Error" ELSE "Param")
    [] s.expect \in {"CommaOrClose", "ParamOrClose"} /\ kind = ")" -> Pop(s)
    [] s.expect = "TypedOpen" /\ kind = "("     -> Push(s, "Typed", "Param")
    [] s.expect \in {"CommaOrClose", "TypedOpen"} -> Expecting(s, "Error")
    [] kind = "("                               -> Push(s, "List", "ParamOrClose")
    [] kind = "keyword"                         -> Expecting(s, "TypedOpen")
    [] kind \in {"literal", "name"}             -> Expecting(s, "CommaOrClose")
    [] OTHER                                    -> Expecting(s, "Error")

Step(s, token) ==
  IF s.expect \in {"Record", "RecordOpen", "Part", "PartOrClose", "Done", "Error"}
  THEN InRecord(s, token.kind)
  ELSE InParameters(s, token.kind)

(* The state after some tokens, and whether they are a whole value.        *)
After(tokens) == FoldLeft(Step, Start, tokens)

IsAccepted(tokens) == After(tokens).expect = "Done"

-----------------------------------------------------------------------------
CONSTANTS Tokens,      \* what the lexer may return
          LONGEST,     \* bound: how many tokens are read
          Grammar      \* the sentences of the grammar up to that length

VARIABLES read,        \* the tokens read so far
          state        \* the parser's stack and what it expects

StartReading == read = << >> /\ state = Start

Read ==
  /\ state.expect \notin {"Done", "Error"}
  /\ Len(read) < LONGEST
  /\ \E token \in Tokens :
       /\ read' = Append(read, token)
       /\ state' = Step(state, token)

-----------------------------------------------------------------------------
(* What every sentence begins with.                                        *)
Beginnings == UNION {{SubSeq(sentence, 1, k) : k \in 0..Len(sentence)} : sentence \in Grammar}

(* A way to a whole value: what is expected, and the closing of what is     *)
(* open.                                                                   *)
Completion(s) ==
  LET Of(kind) == [kind |-> kind, id |-> 0]
      head == CASE s.expect = "Record"     -> <<Of("keyword"), Of("("), Of(")")>>
                [] s.expect = "Part"       -> <<Of("keyword"), Of("("), Of(")")>>
                [] s.expect = "RecordOpen" -> <<Of("("), Of(")")>>
                [] s.expect = "Param"      -> <<Of("literal")>>
                [] s.expect = "TypedOpen"  -> <<Of("("), Of("literal"), Of(")")>>
                [] OTHER                   -> << >>
      tail == [i \in 1..Len(s.stack) |-> Of(")")]
  IN  head \o tail \o IF s.complex /\ s.expect # "Done" THEN <<Of(")")>> ELSE << >>

(* The iterative parser accepts exactly the sentences of the grammar, and an  *)
(* error is reported at the first token that no sentence goes on with: never *)
(* earlier, and never later, since any other state can be completed (but a   *)
(* type name at the nesting limit, refused at its parenthesis).             *)
AcceptsTheGrammar ==
  /\ state.expect = "Done" <=> read \in Grammar
  /\ IF state.expect = "Error" THEN read \notin Beginnings
     ELSE \/ FoldLeft(Step, state, Completion(state)).expect = "Done"
          \/ state.expect = "TypedOpen" /\ Len(state.stack) = MAX_DEPTH
=============================================================================
