-------------------------------- MODULE Writer --------------------------------
(***************************************************************************)
(* write_pruned and write_instances (src/src/p21/writer.rs): names are     *)
(* assigned, the selection is checked, and only then is the output written *)
(* piece by piece through a BufWriter into a sink that may fail.           *)
(*                                                                         *)
(* A piece is what one call of write_all leaves whole: the header, the     *)
(* extra sections, an instance, the appended instances, the end.           *)
(***************************************************************************)
EXTENDS WriterRules

CONSTANTS Calls,         \* [file, positions, pruned, numbering, whole,
                         \*  replacing, replaced, appended]
          CAPACITY       \* the pieces a BufWriter holds

ASSUME CapacityAssumption == CAPACITY \in Nat \ {0}

(* The caller selects instances of a file that was parsed: the parser        *)
(* refuses a repeated name.                                                *)
ASSUME CallsAssumption ==
  \A c \in Calls :
    /\ IsFile(c.file) /\ UniqueIds(c.file)
    /\ c.positions \subseteq Node(c.file)
    /\ c.numbering \in [kind : {"Preserve", "Dense", "Offset"}, by : Nat]

VARIABLES call,          \* the arguments; they do not change
          names,         \* what assign_names returned
          at,            \* the piece to write next
          buffer, sink,  \* the pieces in the BufWriter, and those past it
          pc, outcome

vars == <<call, names, at, buffer, sink, pc, outcome>>

NoNames == [data |-> Nothing, external |-> Nothing]

Init ==
  /\ call \in Calls
  /\ names = NoNames
  /\ at = 1
  /\ buffer = << >> /\ sink = << >>
  /\ pc = "assign" /\ outcome = "none"

Checked == CheckClosed(call.file, names, call.pruned, call.replaced)

(* write_file copies the extra sections as they are when nothing changes. *)
Verbatim ==
  /\ call.numbering.kind = "Preserve"
  /\ ~call.replacing
  /\ call.positions = Node(call.file)
  /\ call.pruned = {}
  /\ call.appended = << >>

(* write_file, or write_instances when only the instances are wanted.      *)
Extras ==
  [kind |-> "extra",
   external |-> IF Verbatim THEN call.file.external ELSE WrittenExternal(call.file, names),
   anchors |-> IF Verbatim THEN call.file.anchors ELSE WrittenAnchors(call.file, names)]

Written ==
  LET order == InOrder(Node(call.file) \cap DOMAIN names.data)
  IN  [i \in DOMAIN order |-> [kind |-> "instance", position |-> order[i]]]

Pieces ==
  IF call.whole
  THEN <<[kind |-> "header"], Extras>> \o Written
         \o <<[kind |-> "appended", instances |-> call.appended], [kind |-> "end"]>>
  ELSE Written

AssignNames ==
  /\ pc = "assign"
  /\ names' = AssignedNames(call.file, call.positions, call.numbering)
  /\ pc' = "check"
  /\ UNCHANGED <<call, at, buffer, sink, outcome>>

Check ==
  /\ pc = "check"
  /\ IF Checked THEN pc' = "write" /\ UNCHANGED outcome
                ELSE pc' = "done" /\ outcome' = "UnresolvedReference"
  /\ UNCHANGED <<call, names, at, buffer, sink>>

(* write_instance looks every renamed reference up again, and fails on one *)
(* without a name, in the middle of the output.                            *)
Unnamed(piece) ==
  /\ piece.kind = "instance"
  /\ call.numbering.kind # "Preserve"
  /\ Dangles(call.file, names, call.pruned, call.replaced, piece.position)

Text(piece) ==
  IF piece.kind = "instance"
  THEN [kind |-> "instance",
        instance |-> WrittenInstance(call.file, names, call.pruned, call.replaced,
                                     piece.position)]
  ELSE piece

WritePiece ==
  /\ pc = "write" /\ at <= Len(Pieces)
  /\ IF Unnamed(Pieces[at])
     THEN /\ pc' = "drop" /\ outcome' = "UnresolvedReference"
          /\ UNCHANGED <<at, buffer>>
     ELSE /\ Len(buffer) < CAPACITY
          /\ buffer' = Append(buffer, Text(Pieces[at]))
          /\ at' = at + 1
          /\ UNCHANGED <<pc, outcome>>
  /\ UNCHANGED <<call, names, sink>>

(* The BufWriter empties itself when it is full, and when it is flushed at *)
(* the end.                                                                *)
MustDrain == pc = "write" /\ (Len(buffer) = CAPACITY \/ at > Len(Pieces))

(* Mutant of Drain: the last flush is forgotten.                            *)
DrainUnflushed ==
  /\ MustDrain
  /\ IF at > Len(Pieces)
     THEN pc' = "done" /\ outcome' = "Ok" /\ UNCHANGED <<sink, buffer>>
     ELSE sink' = sink \o buffer /\ buffer' = << >> /\ UNCHANGED <<pc, outcome>>
  /\ UNCHANGED <<call, names, at>>

Drain ==
  /\ MustDrain
  /\ sink' = sink \o buffer /\ buffer' = << >>
  /\ IF at > Len(Pieces) THEN pc' = "done" /\ outcome' = "Ok"
                         ELSE UNCHANGED <<pc, outcome>>
  /\ UNCHANGED <<call, names, at>>

(* The sink takes some of it and then refuses.                             *)
SinkFails ==
  /\ MustDrain
  /\ \E k \in 0..Len(buffer) - 1 :
       /\ sink' = sink \o SubSeq(buffer, 1, k)
       /\ buffer' = SubSeq(buffer, k + 1, Len(buffer))
  /\ pc' = "drop" /\ outcome' = "Io"
  /\ UNCHANGED <<call, names, at>>

(* A BufWriter that is dropped tries once more to empty itself, and ignores *)
(* whether it could.                                                        *)
DropWriter ==
  /\ pc = "drop"
  /\ \E k \in 0..Len(buffer) : sink' = sink \o SubSeq(buffer, 1, k)
  /\ buffer' = << >>
  /\ pc' = "done"
  /\ UNCHANGED <<call, names, at, outcome>>

Next == AssignNames \/ Check \/ WritePiece \/ Drain \/ SinkFails \/ DropWriter

Spec == Init /\ [][Next]_vars

-----------------------------------------------------------------------------
(* The file a reader finds in the sink. *)
ReadBack ==
  LET Instances(piece) == CASE piece.kind = "instance" -> <<piece.instance>>
                            [] piece.kind = "appended" -> piece.instances
                            [] OTHER -> << >>
      External(piece) == IF piece.kind = "extra" THEN piece.external ELSE << >>
      Anchors(piece) == IF piece.kind = "extra" THEN piece.anchors ELSE << >>
  IN  [instances |-> FlattenSeq([i \in DOMAIN sink |-> Instances(sink[i])]),
       external |-> FlattenSeq([i \in DOMAIN sink |-> External(sink[i])]),
       anchors |-> FlattenSeq([i \in DOMAIN sink |-> Anchors(sink[i])])]

(* Of a file with no replaced references and nothing appended, what is     *)
(* written whole is read back without a repeated name or a dangling        *)
(* reference: every reference was renamed with its target, every external  *)
(* name in use kept its REFERENCE entry.                                   *)
OutputAccepted ==
  outcome = "Ok" /\ call.whole /\ call.replaced = Nothing /\ call.appended = << >>
    => Accepted(ReadBack)

(* The output of a call that replaces and appends nothing is the selected   *)
(* part of the file's graph under new names: a written instance refers to   *)
(* another exactly where its source did, and to nothing else.               *)
FaithfulCopy ==
  outcome = "Ok" /\ call.replaced = Nothing /\ call.appended = << >> =>
    LET out == ReadBack
        S == call.positions
    IN  \A p \in S :
          /\ out.instances[Rank(p, S)].records[1].name = call.file.instances[p].records[1].name
          /\ References(out, Rank(p, S)) = {Rank(q, S) : q \in References(call.file, p) \cap S}

(* Success means that the sink has every piece, and a write that failed    *)
(* never leaves a file that reads as complete, whatever the sink took      *)
(* before and after it failed: the end is there only after all the rest.   *)
(* A selection that is not closed is refused before the first byte, so only  *)
(* the sink can cut an output short, never a reference the check overlooked. *)
CompleteOrCut ==
  /\ outcome = "Ok" \/ (call.whole /\ sink # << >> /\ Last(sink).kind = "end")
       => sink = [i \in DOMAIN Pieces |-> Text(Pieces[i])]
  /\ outcome = "UnresolvedReference" => sink = << >> /\ at = 1
=============================================================================
