----------------------------- MODULE WriterRules -----------------------------
(***************************************************************************)
(* What the writer writes (src/src/p21/writer.rs): the names a selection   *)
(* of instances gets, whether the selection is closed, and the text of     *)
(* every instance, as data.                                                *)
(*                                                                         *)
(*   numbering  [kind |-> "Preserve" | "Dense" | "Offset", by |-> Nat]     *)
(*   names      [data |-> position -> name, external |-> name -> name]     *)
(*   replaced   name -> name: every token with that name has replacement   *)
(*              text, which the caller vouches for                         *)
(***************************************************************************)
EXTENDS StepGraph

Preserve == [kind |-> "Preserve", by |-> 0]
Dense == [kind |-> "Dense", by |-> 0]
Offset(k) == [kind |-> "Offset", by |-> k]

Nothing == [id \in {} |-> id]

(* assign_names: the external names the selected instances use; the names  *)
(* of the selected instances; and those of the used external names, which  *)
(* follow the instances, in the order of their REFERENCE entries.          *)
UsedExternal(f, S) ==
  {id \in UNION {InstanceIds(f.instances[p]) : p \in S} : IsExternal(f, id)}

NewName(numbering, old, dense) ==
  CASE numbering.kind = "Preserve" -> old
    [] numbering.kind = "Dense" -> dense
    [] numbering.kind = "Offset" -> old + numbering.by

Entry(f, id) == Min({i \in DOMAIN f.external : f.external[i] = id})

AssignedNames(f, S, numbering) ==
  LET used == UsedExternal(f, S)
      entries == {Entry(f, id) : id \in used}
  IN  [data |-> [p \in S |-> NewName(numbering, f.instances[p].id, Rank(p, S))],
       external |-> [id \in used |->
                       NewName(numbering, id, Cardinality(S) + Rank(Entry(f, id), entries))]]

(* Names::of: the output name of #id if it is written; none or one.        *)
NamesOf(f, names, id) ==
  IF NodesNamed(f, {id}) # {}
  THEN {names.data[p] : p \in NodesNamed(f, {id}) \cap DOMAIN names.data}
  ELSE {names.external[e] : e \in {id} \cap DOMAIN names.external}

IsWritten(f, names, id) == NamesOf(f, names, id) # {}

(* Mutant of Removed: every item of a pruned list goes.                     *)
RemovedAlways(f, names, pruned, replaced, p, param, id) ==
  p \in pruned /\ param.list /\ id \notin DOMAIN replaced

(* check_closed, removal_plan: an unwritten reference is dropped if it is  *)
(* a list item of a pruned instance, left to the caller if it is replaced, *)
(* and an error otherwise.                                                 *)
Removed(f, names, pruned, replaced, p, param, id) ==
  p \in pruned /\ param.list /\ id \notin DOMAIN replaced /\ ~IsWritten(f, names, id)

Dangles(f, names, pruned, replaced, p) ==
  \E i \in DOMAIN f.instances[p].records :
    \E param \in ToSet(f.instances[p].records[i].params) :
      \E id \in ToSet(param.refs) :
        /\ id \notin DOMAIN replaced /\ ~IsWritten(f, names, id)
        /\ ~Removed(f, names, pruned, replaced, p, param, id)

CheckClosed(f, names, pruned, replaced) ==
  \A p \in DOMAIN names.data : ~Dangles(f, names, pruned, replaced, p)

(* write_instance: the instance under its new name, without the removed    *)
(* items, every other reference renamed or replaced.                       *)
WrittenInstance(f, names, pruned, replaced, p) ==
  LET inst == f.instances[p]
      NewRef(id) == IF id \in DOMAIN replaced THEN replaced[id]
                     ELSE CHOOSE new \in NamesOf(f, names, id) : TRUE
      WrittenParam(param) ==
        LET kept == ElementsAt(param.refs,
                      {i \in DOMAIN param.refs :
                         ~Removed(f, names, pruned, replaced, p, param, param.refs[i])})
        IN  [param EXCEPT !.refs = [i \in DOMAIN kept |-> NewRef(kept[i])]]
      WrittenRecord(r) ==
        [r EXCEPT !.params = [j \in DOMAIN r.params |-> WrittenParam(r.params[j])]]
  IN  [inst EXCEPT !.id = names.data[p],
                   !.records = [i \in DOMAIN inst.records |-> WrittenRecord(inst.records[i])]]

(* Mutant of WrittenExternal: the REFERENCE section is left out.            *)
WrittenNoExternal(f, names) == << >>

(* write_extra_section: the REFERENCE entries of names that are used, and   *)
(* the anchors whose instances are all written, renamed.                    *)
WrittenExternal(f, names) ==
  LET kept == ElementsAt(f.external,
                {i \in DOMAIN f.external : f.external[i] \in DOMAIN names.external})
  IN  [i \in DOMAIN kept |-> CHOOSE new \in NamesOf(f, names, kept[i]) : TRUE]

WrittenAnchors(f, names) ==
  LET kept == ElementsAt(f.anchors,
                {i \in DOMAIN f.anchors : \A id \in f.anchors[i] : IsWritten(f, names, id)})
  IN  [i \in DOMAIN kept |-> UNION {NamesOf(f, names, id) : id \in kept[i]}]
=============================================================================
