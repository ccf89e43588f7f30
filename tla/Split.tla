-------------------------------- MODULE Split --------------------------------
(***************************************************************************)
(* stepq split (src/src/bin/stepq.rs): one file per product definition,    *)
(* with --bodies one more per solid of a multi-body part, with --master    *)
(* assemblies that refer to their components' files.  Every output is      *)
(* planned and checked before any is written; then they are written one by *)
(* one, and any may fail.                                                  *)
(*                                                                         *)
(*   definition  [instance |-> Nat, label |-> Seq(segment),                *)
(*                parts |-> set of definitions, solids |-> Nat]            *)
(*   file name   Seq(segment)                                              *)
(*                                                                         *)
(* A name is a sequence of segments: letters or words, " ", "/" (any       *)
(* character that is not kept in a file name), "-", "." and the digits of  *)
(* numbers.                                                                *)
(***************************************************************************)
EXTENDS Order, SequencesExt

CONSTANTS Calls,     \* [definitions, bodies, master, force, caseless, before];
                     \* caseless: how the disk compares names;
                     \* before: the files in the directory
          Digits(_)  \* a number as it is shown in a file name

(* A part is a definition that is used, so it is one of those of the file;  *)
(* no two entities have one instance name.                                  *)
ASSUME CallsAssumption ==
  \A c \in Calls :
    /\ IsSequence(c.definitions)
    /\ \A d \in DOMAIN c.definitions :
         /\ IsSequence(c.definitions[d].label)
         /\ c.definitions[d].solids \in Nat
         /\ c.definitions[d].parts \subseteq DOMAIN c.definitions
    /\ \A d, e \in DOMAIN c.definitions :
         c.definitions[d].instance = c.definitions[e].instance => d = e

(* The numbers in file names: instance names, and those of the bodies.      *)
Numbers ==
  (UNION {{c.definitions[d].instance : d \in DOMAIN c.definitions} : c \in Calls})
    \cup (UNION {UNION {1..c.definitions[d].solids : d \in DOMAIN c.definitions} : c \in Calls})

(* Decimal digits tell numbers apart, and are no letters and no extension.  *)
ASSUME DigitsAssumption ==
  /\ \A m, n \in Numbers : Digits(m) = Digits(n) => m = n
  /\ \A n \in Numbers : Digits(n) \notin {"A", "a", ".stp"}

VARIABLES call,      \* the arguments; they do not change
          used,      \* output_name's names, in lower case
          plans,     \* the file of each definition planned so far
          disk,      \* file name -> content
          at,        \* the next output to write
          open,      \* whether its file has been created
          outcome

vars == <<call, used, plans, disk, at, open, outcome>>

definitions == call.definitions

(* to_ascii_lowercase, of the one letter that has two cases here.           *)
Lower(name) == [i \in DOMAIN name |-> IF name[i] = "A" THEN "a" ELSE name[i]]

Trim(label) ==
  LET solid == {i \in DOMAIN label : label[i] # " "}
  IN  IF solid = {} THEN << >> ELSE SubSeq(label, Min(solid), Max(solid))

(* The stem of a definition's file: its label, trimmed, with every other    *)
(* character replaced; or "definition-" and its instance name, if nothing   *)
(* is left of it.                                                          *)
Stem(definition) ==
  LET shown == Trim(definition.label)
      clean == [i \in DOMAIN shown |-> IF shown[i] \in {" ", "/"} THEN "_" ELSE shown[i]]
  IN  IF ToSet(clean) \subseteq {"_", "."}
      THEN <<"definition", "-", Digits(definition.instance)>>
      ELSE clean

Numbered(definition) == Stem(definition) \o <<"-", Digits(definition.instance)>>

(* Mutant of OutputName: the first name is always free.                     *)
OutputNameAlways(definition, taken) == Stem(definition) \o <<".stp">>

(* output_name: the plain name, or the numbered one if that is taken.       *)
OutputName(definition, taken) ==
  LET plain == Stem(definition) \o <<".stp">>
  IN  IF Lower(plain) \in taken THEN Numbered(definition) \o <<".stp">> ELSE plain

(* trim_end_matches(".stp"), which takes every one at the end, and the      *)
(* files of the bodies.                                                    *)
WithoutExtension(file) ==
  LET other == {i \in DOMAIN file : file[i] # ".stp"}
  IN  SubSeq(file, 1, IF other = {} THEN 0 ELSE Max(other))

BodyFileName(file, number) == WithoutExtension(file) \o <<".", "body", "-", Digits(number), ".stp">>

(* The body files of a definition: a part's with more than one solid.       *)
BodyCount(definition) ==
  IF call.bodies /\ definition.parts = {} /\ definition.solids > 1 THEN definition.solids ELSE 0

BodyFiles(definition, file) == [n \in 1..BodyCount(definition) |-> BodyFileName(file, n)]

(* How the disk knows a file.                                              *)
Path(name) == IF call.caseless THEN Lower(name) ELSE name

Before == [name \in {Path(n) : n \in call.before} |-> [kind |-> "foreign"]]

Init ==
  /\ call \in Calls
  /\ used = {} /\ plans = << >>
  /\ disk = Before
  /\ at = 1 /\ open = FALSE
  /\ outcome = "planning"

(* Mutant of Refused: the bodies' files are not looked for.                 *)
RefusedAlone(targets) == ~call.force /\ Path(Head(targets)) \in DOMAIN disk

(* refuse_existing, for every file a definition would write.               *)
Refused(targets) == ~call.force /\ \E i \in DOMAIN targets : Path(targets[i]) \in DOMAIN disk

(* One definition is planned: it gets its name, and its files must be new.  *)
Plan ==
  /\ outcome = "planning" /\ Len(plans) < Len(definitions)
  /\ LET definition == definitions[Len(plans) + 1]
         file == OutputName(definition, used)
     IN  /\ used' = used \cup {Lower(file)}
         /\ plans' = Append(plans, file)
         /\ outcome' = IF Refused(<<file>> \o BodyFiles(definition, file))
                       THEN "refused" ELSE outcome
  /\ UNCHANGED <<call, disk, at, open>>

Planned ==
  /\ outcome = "planning" /\ Len(plans) = Len(definitions)
  /\ outcome' = "writing"
  /\ UNCHANGED <<call, used, plans, disk, at, open>>

(* What a definition's own file holds: itself, or in a master the names of  *)
(* its components' files in place of the components.                       *)
Content(d) ==
  IF call.master /\ definitions[d].parts # {}
  THEN [kind |-> "master", of |-> d, refers |-> {plans[part] : part \in definitions[d].parts}]
  ELSE [kind |-> "whole", of |-> d]

(* The outputs in the order they are written: each definition's file, then  *)
(* those of its bodies.                                                    *)
OutputsOf(d) ==
  LET bodies == BodyFiles(definitions[d], plans[d])
  IN  <<[file |-> plans[d], content |-> Content(d)]>>
        \o [n \in DOMAIN bodies |-> [file |-> bodies[n], content |-> [kind |-> "body", of |-> d, number |-> n]]]

Outputs ==
  IF outcome \in {"planning", "refused"} THEN << >>
  ELSE FlattenSeq([d \in DOMAIN plans |-> OutputsOf(d)])

Holding(content) ==
  LET path == Path(Outputs[at].file)
  IN  disk' = [name \in DOMAIN disk \cup {path} |-> IF name = path THEN content ELSE disk[name]]

(* Mutant of Create: an output whose file is already there is left out.     *)
CreateNew ==
  /\ outcome = "writing" /\ at <= Len(Outputs) /\ ~open
  /\ IF Path(Outputs[at].file) \in DOMAIN disk
     THEN at' = at + 1 /\ UNCHANGED <<disk, open>>
     ELSE Holding([kind |-> "cut"]) /\ open' = TRUE /\ UNCHANGED at
  /\ UNCHANGED <<call, used, plans, outcome>>

(* File::create empties the file, whatever it held.                        *)
Create ==
  /\ outcome = "writing" /\ at <= Len(Outputs) /\ ~open
  /\ Holding([kind |-> "cut"])
  /\ open' = TRUE
  /\ UNCHANGED <<call, used, plans, at, outcome>>

(* The writer is done with the file.                                        *)
Write ==
  /\ open
  /\ Holding(Outputs[at].content)
  /\ open' = FALSE /\ at' = at + 1
  /\ UNCHANGED <<call, used, plans, outcome>>

(* Creating or writing the file fails; what was written stays.              *)
Fail ==
  /\ outcome = "writing" /\ at <= Len(Outputs)
  /\ open' = FALSE
  /\ outcome' = "failed"
  /\ UNCHANGED <<call, used, plans, disk, at>>

Report ==
  /\ outcome = "writing" /\ at > Len(Outputs)
  /\ outcome' = "Ok"
  /\ UNCHANGED <<call, used, plans, disk, at, open>>

Next == Plan \/ Planned \/ Create \/ Write \/ Fail \/ Report

Spec == Init /\ [][Next]_vars

-----------------------------------------------------------------------------
(* No two outputs are planned for one file.                                *)
Apart == \A i, j \in DOMAIN Outputs : Path(Outputs[i].file) = Path(Outputs[j].file) => i = j

(* No definition's stem is another's with something added, an extension     *)
(* aside.                                                                  *)
NoneExtends ==
  \A d, e \in DOMAIN definitions : d # e =>
    ~IsStrictPrefix(Lower(WithoutExtension(Stem(definitions[d]))), Lower(Stem(definitions[e])))

(* A split either writes everything or nothing over existing files: without *)
(* --force no file that was there is changed, and a split that is refused   *)
(* has written nothing, although its checks are spread over all             *)
(* definitions and their bodies.                                           *)
NothingOverwritten ==
  /\ outcome \in {"planning", "refused"} => disk = Before
  /\ ~call.force => \A name \in DOMAIN Before : disk[name] = Before[name]

(* Unless one stem extends another, no two outputs share a file, on a disk  *)
(* with or without cases, whatever labels are alike or cannot be shown.     *)
ApartIfNoneExtends == NoneExtends => Apart

(* The output among the first n that was the last to go to a file.          *)
IsLastTo(name, i, n) ==
  /\ i \in 1..n /\ Path(Outputs[i].file) = name
  /\ \A j \in i + 1..n : Path(Outputs[j].file) # name

(* A file is cut by the output under way, or holds the last of the outputs  *)
(* before that, or is as it was.                                           *)
IsAsLeft(name) ==
  \/ at <= Len(Outputs) /\ name = Path(Outputs[at].file) /\ disk[name] = [kind |-> "cut"]
  \/ \E i \in 1..at - 1 : IsLastTo(name, i, at - 1) /\ disk[name] = Outputs[i].content
  \/ /\ \A i \in 1..at - 1 : Path(Outputs[i].file) # name
     /\ name \in DOMAIN Before /\ disk[name] = Before[name]

(* However a split ends, the disk holds what the outputs up to that point   *)
(* have put there, in order, and no file is touched that none of them goes  *)
(* to; a report follows only the last output.  Two outputs for one file      *)
(* leave the later one.  Unless one stem extends another, this does not     *)
(* happen: every output before is then whole, and the masters of a finished *)
(* split refer to files that hold just their components.                   *)
WrittenInOrder ==
  /\ DOMAIN Before \subseteq DOMAIN disk
  /\ \A i \in 1..at - 1 : Path(Outputs[i].file) \in DOMAIN disk
  /\ \A name \in DOMAIN disk : IsAsLeft(name)
  /\ NoneExtends => \A i \in 1..at - 1 : disk[Path(Outputs[i].file)] = Outputs[i].content
  /\ outcome = "Ok" =>
       /\ at > Len(Outputs)
       /\ NoneExtends =>
            \A name \in DOMAIN disk \ DOMAIN Before : disk[name].kind = "master" =>
              {disk[Path(file)].of : file \in disk[name].refers} = definitions[disk[name].of].parts

(* stepq.rs:2537-2539: a file name is "made unique within `used`".          *)
MadeUnique == \A d, e \in DOMAIN plans : Lower(plans[d]) = Lower(plans[e]) => d = e
=============================================================================
