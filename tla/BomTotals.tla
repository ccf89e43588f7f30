------------------------------ MODULE BomTotals ------------------------------
(***************************************************************************)
(* bill_of_materials and totals (src/src/model/assembly.rs): the recursive *)
(* walk that totals every definition below a root, with its memo and its   *)
(* ancestry marks.  The call stack is explicit; one step is one usage, or  *)
(* one return.                                                             *)
(***************************************************************************)
EXTENDS Products

CONSTANTS Requests,              \* with fields structure and root
          MAX_ASSEMBLY_DEPTH     \* levels descended; 1024 in the code

VARIABLES call,          \* the structure and the root; they do not change
          stack,         \* the calls of totals under way
          memo,          \* the totals of the definitions already returned
          visiting,      \* the definitions whose usages are being walked
          result

vars == <<call, stack, memo, visiting, result>>

structure == call.structure

(* The frame of a call: how far it is in its usages, and its totals so far. *)
Frame(d) == [definition |-> d, next |-> 1, totals |-> << >>]

Init ==
  /\ call \in Requests
  /\ stack = <<Frame(call.root)>>
  /\ memo = << >>
  /\ visiting = {call.root}
  /\ result = [lines |-> << >>, done |-> FALSE]

(* The closure `add`, for one line and for a component's own lines.        *)
Add(totals, line) ==
  LET same == {i \in DOMAIN totals : totals[i].definition = line.definition}
  IN  IF same = {} THEN Append(totals, line)
      ELSE [totals EXCEPT ![Min(same)].quantity = @ + line.quantity]

(* Mutants of AddBelow: quantities are not multiplied, or only one level    *)
(* is added.                                                               *)
AddUnscaled(totals, quantity, lines) == FoldLeft(Add, totals, lines)
AddNothing(totals, quantity, lines) == totals

AddBelow(totals, quantity, lines) ==
  FoldLeft(LAMBDA sum, line : Add(sum, [line EXCEPT !.quantity = quantity * @]), totals, lines)

Top == Last(stack)
Uses == ChildUsages(structure, Top.definition)

(* Is there a usage left for the top call, and which.                       *)
MoreUses ==
  /\ ~result.done
  /\ Len(stack) <= MAX_ASSEMBLY_DEPTH
  /\ Top.next <= Len(Uses)

TheUsage == structure.usages[Uses[Top.next]]

WithChild(totals, usage) ==
  Add(totals, [definition |-> usage.child, quantity |-> Quantity(usage)])

(* The totals of a usage's child are added, and the loop goes on.           *)
Advanced(frame, usage, lines) ==
  [frame EXCEPT !.next = @ + 1, !.totals = AddBelow(@, Quantity(usage), lines)]

(* Mutant of SkipAncestor: the loop does not go on.                         *)
SkipForever ==
  /\ MoreUses /\ TheUsage.child \in visiting
  /\ UNCHANGED <<call, stack, memo, visiting, result>>

SkipAncestor ==
  /\ MoreUses /\ TheUsage.child \in visiting
  /\ stack' = [stack EXCEPT ![Len(stack)].next = @ + 1]
  /\ UNCHANGED <<call, memo, visiting, result>>

UseMemo ==
  /\ MoreUses /\ TheUsage.child \notin visiting /\ TheUsage.child \in DOMAIN memo
  /\ stack' = [stack EXCEPT ![Len(stack)] =
                 Advanced([Top EXCEPT !.totals = WithChild(@, TheUsage)], TheUsage,
                          memo[TheUsage.child])]
  /\ UNCHANGED <<call, memo, visiting, result>>

(* Mutant of Descend: the ancestry is not marked.                           *)
DescendUnmarked ==
  /\ MoreUses /\ TheUsage.child \notin visiting /\ TheUsage.child \notin DOMAIN memo
  /\ stack' = Append([stack EXCEPT ![Len(stack)].totals = WithChild(@, TheUsage)],
                     Frame(TheUsage.child))
  /\ UNCHANGED <<call, memo, visiting, result>>

Descend ==
  /\ MoreUses /\ TheUsage.child \notin visiting /\ TheUsage.child \notin DOMAIN memo
  /\ stack' = Append([stack EXCEPT ![Len(stack)].totals = WithChild(@, TheUsage)],
                     Frame(TheUsage.child))
  /\ visiting' = IF Len(stack) < MAX_ASSEMBLY_DEPTH THEN visiting \cup {TheUsage.child}
                                                    ELSE visiting
  /\ UNCHANGED <<call, memo, result>>

(* A call returns its totals, remembers them, and its caller adds them.     *)
Remember == memo' = [d \in DOMAIN memo \cup {Top.definition} |->
                       IF d = Top.definition THEN Top.totals ELSE memo[d]]

Return ==
  /\ ~result.done /\ ~MoreUses
  /\ Remember
  /\ visiting' = visiting \ {Top.definition}
  /\ IF Len(stack) = 1
     THEN /\ result' = [lines |-> Top.totals, done |-> TRUE]
          /\ UNCHANGED stack
     ELSE LET caller == stack[Len(stack) - 1]
              usage == structure.usages[ChildUsages(structure, caller.definition)[caller.next]]
          IN  /\ stack' = [Front(stack) EXCEPT ![Len(stack) - 1] =
                             Advanced(caller, usage, Top.totals)]
              /\ UNCHANGED result
  /\ UNCHANGED call

Next == SkipAncestor \/ UseMemo \/ Descend \/ Return

-----------------------------------------------------------------------------
Line == [definition : Definitions(structure), quantity : Nat]

(* A definition is walked once: while it is, it is on the stack once and    *)
(* has no memo.  The walk is linear in the usages, however many paths lead  *)
(* to a shared sub-assembly.                                                *)
WalkedOnce ==
  /\ \A i, j \in DOMAIN stack : stack[i].definition = stack[j].definition => i = j
  /\ ~result.done => \A i \in DOMAIN stack : stack[i].definition \notin DOMAIN memo
  /\ visiting \subseteq {stack[i].definition : i \in DOMAIN stack}

ListedQuantity(x) ==
  LET lines == {i \in DOMAIN result.lines : result.lines[i].definition = x}
  IN  IF lines = {} THEN 0 ELSE result.lines[Min(lines)].quantity

(* Nothing is cut off by the depth limit.                                  *)
Shallow == IsShallow(structure, call.root, MAX_ASSEMBLY_DEPTH)

(* Every definition below the root has one line, and only those do, even    *)
(* when usages form a cycle: an ignored usage never hides a component.      *)
EveryComponentListed ==
  result.done /\ Shallow =>
    /\ {result.lines[i].definition : i \in DOMAIN result.lines}
         = Below(structure, call.root) \ {call.root}
    /\ \A i, j \in DOMAIN result.lines :
         result.lines[i].definition = result.lines[j].definition => i = j

(* Quantities multiply down the tree and add up across branches, also where *)
(* the memo stands in for a walk.                                           *)
TotalsOfAcyclic ==
  result.done /\ Shallow /\ IsAcyclic(structure) =>
    \A x \in Definitions(structure) : ListedQuantity(x) = PathTotal(structure, call.root, x)

=============================================================================
