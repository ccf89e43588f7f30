------------------------------ MODULE StepGraph ------------------------------
(***************************************************************************)
(* The parsed file and its reference graph (src/src/p21/exchange.rs,       *)
(* src/src/model/graph.rs).                                                *)
(*                                                                         *)
(* A file is a sequence of entity instances in file order and the set of   *)
(* instance names that edition 3 REFERENCE entries define elsewhere:       *)
(*                                                                         *)
(*   param     [list |-> BOOLEAN, refs |-> Seq(Nat)]                       *)
(*   record    [name |-> STRING, params |-> Seq(param)]                    *)
(*   instance  [id |-> Nat, complex |-> BOOLEAN, records |-> Seq(record)]  *)
(*   file      [instances |-> Seq(instance), external |-> Seq(Nat),        *)
(*              anchors |-> Seq(set of names)]                             *)
(*                                                                         *)
(* Of a parameter only the instance names in it are kept, in textual       *)
(* order, and whether they are items of a list (so that one can be removed *)
(* with its comma) or stand elsewhere: alone, or as a typed value.  A node *)
(* is a position in the instance sequence.  The parser refuses a repeated  *)
(* instance name, so a name has at most one position.                      *)
(***************************************************************************)
EXTENDS Naturals, Sequences, SequencesExt, Order

Node(f) == DOMAIN f.instances

IsInstance(inst) ==
  /\ {"id", "complex", "records"} \subseteq DOMAIN inst
  /\ inst.id \in Nat /\ IsSequence(inst.records) /\ inst.records # << >>
  /\ \A r \in ToSet(inst.records) :
       /\ {"name", "params"} \subseteq DOMAIN r /\ IsSequence(r.params)
       /\ \A param \in ToSet(r.params) :
            /\ {"list", "refs"} \subseteq DOMAIN param
            /\ IsSequence(param.refs) /\ ToSet(param.refs) \subseteq Nat

IsFile(f) ==
  /\ IsSequence(f.instances) /\ \A n \in Node(f) : IsInstance(f.instances[n])
  /\ IsSequence(f.external) /\ ToSet(f.external) \subseteq Nat
  /\ IsSequence(f.anchors) /\ \A i \in DOMAIN f.anchors : f.anchors[i] \subseteq Nat

(* The instance names in a record, and in a whole instance. *)
RecordIds(r) == UNION {ToSet(r.params[i].refs) : i \in DOMAIN r.params}

InstanceIds(inst) == UNION {RecordIds(inst.records[i]) : i \in DOMAIN inst.records}

(* Exchange::position for every name of a set: the nodes so named. *)
NodesNamed(f, ids) == {n \in Node(f) : f.instances[n].id \in ids}

(* Graph::references and Graph::referenced_by.  Each neighbour once; names *)
(* that only a REFERENCE entry defines have no node.                       *)
References(f, n) == NodesNamed(f, InstanceIds(f.instances[n]))

ReferencedBy(f, n) == {m \in Node(f) : n \in References(f, m)}

(* Exchange::is_external. *)
IsExternal(f, id) == id \in ToSet(f.external)

(* Graph::unresolved: the dangling references. *)
Unresolved(f) ==
  UNION {{<<n, id>> : id \in {i \in InstanceIds(f.instances[n]) :
                                NodesNamed(f, {i}) = {} /\ ~IsExternal(f, i)}} :
           n \in Node(f)}

(* What parse and Graph::new accept: no name is defined twice, and no      *)
(* reference dangles.                                                      *)
UniqueIds(f) ==
  \A m, n \in Node(f) : f.instances[m].id = f.instances[n].id => m = n

Accepted(f) == UniqueIds(f) /\ Unresolved(f) = {}
=============================================================================
