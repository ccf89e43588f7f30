------------------------------- MODULE BomProofs -------------------------------
(***************************************************************************)
(* What the run of MCBom shows for small structures, for every structure    *)
(* and every depth limit.                                                  *)
(***************************************************************************)
EXTENDS Bom, SequenceLemmas

(* The inductive invariant of the walk: every call under way is for another *)
(* definition, none of them has a memo yet, and all of them but one too      *)
(* deep to look at its usages are marked as visited.                        *)
IsFrame(f) == "definition" \in DOMAIN f

UnderWay == {calls[i].definition : i \in 1..Len(calls)}

WalkInv ==
  /\ IsSequence(calls) /\ Len(calls) \in 1..MAX_ASSEMBLY_DEPTH + 1
  /\ \A i \in 1..Len(calls) : IsFrame(calls[i])
  /\ \A i, j \in 1..Len(calls) : calls[i].definition = calls[j].definition => i = j
  /\ ~result.done => UnderWay \cap DOMAIN memo = {}
  /\ visiting \subseteq UnderWay
  /\ ~result.done => \A i \in 1..Len(calls) : i <= MAX_ASSEMBLY_DEPTH => calls[i].definition \in visiting

(* A call that is only updated stays for the same definition.               *)
LEMMA UpdatedFrame ==
  ASSUME NEW f, IsFrame(f), NEW n, NEW t
  PROVE  /\ IsFrame([f EXCEPT !.next = n]) /\ [f EXCEPT !.next = n].definition = f.definition
         /\ IsFrame([f EXCEPT !.totals = t]) /\ [f EXCEPT !.totals = t].definition = f.definition
         /\ IsFrame([f EXCEPT !.next = n, !.totals = t])
         /\ [f EXCEPT !.next = n, !.totals = t].definition = f.definition
BY DEF IsFrame

LEMMA AdvancedFrame ==
  ASSUME NEW f, IsFrame(f), NEW usage, NEW lines
  PROVE  IsFrame(Totals!Advanced(f, usage, lines))
         /\ Totals!Advanced(f, usage, lines).definition = f.definition
BY DEF IsFrame, Totals!Advanced

(* Replacing the call on top by one for the same definition.                *)
LEMMA TopUpdated ==
  ASSUME WalkInv, NEW f, IsFrame(f), f.definition = Totals!Top.definition,
         calls' = [calls EXCEPT ![Len(calls)] = f],
         UNCHANGED <<memo, visiting, result>>
  PROVE  WalkInv'
<1>1. IsSequence(calls) /\ Len(calls) \in 1..Len(calls) /\ MAX_ASSEMBLY_DEPTH \in Nat
  BY LimitsAssumption DEF WalkInv
<1>2. /\ IsSequence(calls') /\ Len(calls') = Len(calls)
      /\ \A j \in 1..Len(calls) : calls'[j] = IF j = Len(calls) THEN f ELSE calls[j]
  <2>1. DOMAIN calls = 1..Len(calls)
    BY <1>1, SequenceOf
  <2>2. calls' = [j \in DOMAIN calls |-> calls'[j]]
        /\ \A j \in DOMAIN calls : calls'[j] = IF j = Len(calls) THEN f ELSE calls[j]
    BY <1>1, <2>1
  <2> QED
    BY <1>1, <2>1, <2>2, SameDomainSequence
<1>3. \A j \in 1..Len(calls) : calls'[j].definition = calls[j].definition /\ IsFrame(calls'[j])
  BY <1>1, <1>2 DEF WalkInv, Totals!Top, Totals!Last
<1>4. UnderWay' = UnderWay
  BY <1>2, <1>3 DEF UnderWay
<1> QED
  BY <1>2, <1>3, <1>4 DEF WalkInv

LEMMA WalkInvTotals ==
  ASSUME WalkInv, Totals!Next
  PROVE  WalkInv'
<1>1. IsSequence(calls) /\ Len(calls) \in 1..Len(calls) /\ Len(calls) \in Nat
      /\ MAX_ASSEMBLY_DEPTH \in Nat \ {0}
  BY LimitsAssumption DEF WalkInv
<1>2. IsFrame(Totals!Top) /\ Totals!Top = calls[Len(calls)]
  BY <1>1 DEF WalkInv, Totals!Top, Totals!Last
<1>3. CASE Totals!SkipAncestor
  <2>1. PICK n : calls' = [calls EXCEPT ![Len(calls)] = [calls[Len(calls)] EXCEPT !.next = n]]
    BY <1>3 DEF Totals!SkipAncestor
  <2>2. UNCHANGED <<memo, visiting, result>>
    BY <1>3 DEF Totals!SkipAncestor
  <2> QED
    BY <1>2, <2>1, <2>2, UpdatedFrame, TopUpdated
<1>4. CASE Totals!UseMemo
  <2> DEFINE f == [Totals!Top EXCEPT !.totals = Totals!WithChild(@, Totals!TheUsage)]
             g == Totals!Advanced(f, Totals!TheUsage, memo[Totals!TheUsage.child])
  <2>1. calls' = [calls EXCEPT ![Len(calls)] = g] /\ UNCHANGED <<memo, visiting, result>>
    BY <1>4 DEF Totals!UseMemo
  <2>2. IsFrame(f) /\ f.definition = Totals!Top.definition
    BY <1>2, UpdatedFrame
  <2> HIDE DEF f
  <2>3. IsFrame(g) /\ g.definition = Totals!Top.definition
    BY <2>2, AdvancedFrame
  <2> HIDE DEF g
  <2> QED
    BY <2>1, <2>3, TopUpdated
<1>5. CASE Totals!Descend
  <2>0. PICK n \in Nat : n = Len(calls) /\ n # 0
    BY <1>1
  <2> DEFINE child == Totals!TheUsage.child
  <2>1. /\ child \notin visiting /\ child \notin DOMAIN memo /\ n <= MAX_ASSEMBLY_DEPTH /\ ~result.done
        /\ UNCHANGED <<memo, result>>
        /\ visiting' = IF n < MAX_ASSEMBLY_DEPTH THEN visiting \cup {child} ELSE visiting
    BY <1>5, <2>0 DEF Totals!Descend, Totals!MoreUses
  <2>2. PICK t : calls' = Append([calls EXCEPT ![n] = [calls[n] EXCEPT !.totals = t]], Totals!Frame(child))
    BY <1>5, <2>0 DEF Totals!Descend
  <2> DEFINE below == [calls EXCEPT ![n] = [calls[n] EXCEPT !.totals = t]]
  <2>3. /\ IsSequence(below) /\ Len(below) = n
        /\ \A j \in 1..n : below[j].definition = calls[j].definition /\ IsFrame(below[j])
    <3>1. IsFrame(calls[n])
      BY <1>1, <2>0, <1>2
    <3>2. DOMAIN calls = 1..n
      BY <1>1, <2>0, SequenceOf
    <3>3. /\ below = [j \in DOMAIN calls |-> below[j]]
          /\ \A j \in 1..n : below[j] = IF j = n THEN [calls[n] EXCEPT !.totals = t] ELSE calls[j]
      BY <1>1, <2>0, <3>2
    <3>4. IsSequence(below) /\ Len(below) = n
      <4> HIDE DEF below
      <4> QED
        BY <1>1, <2>0, <3>3, SameDomainSequence
    <3>5. ASSUME NEW j \in 1..n PROVE below[j].definition = calls[j].definition /\ IsFrame(below[j])
      <4> HIDE DEF below
      <4>1. CASE j = n
        <5>1. below[n] = [calls[n] EXCEPT !.totals = t]
          BY <3>3, <4>1
        <5> QED
          BY <3>1, <4>1, <5>1 DEF IsFrame
      <4>2. CASE j # n
        <5>1. below[j] = calls[j]
          BY <3>3, <4>2
        <5> QED
          BY <2>0, <5>1 DEF WalkInv
      <4> QED
        BY <4>1, <4>2
    <3> QED
      BY <3>4, <3>5
  <2> HIDE DEF below, child
  <2>4. /\ IsSequence(calls') /\ Len(calls') = n + 1
        /\ \A j \in 1..n : calls'[j] = below[j]
        /\ calls'[n + 1] = Totals!Frame(child)
    BY <2>2, <2>3, AppendSequence DEF below
  <2>5. IsFrame(Totals!Frame(child)) /\ Totals!Frame(child).definition = child
    BY DEF Totals!Frame, IsFrame
  <2>6. child \notin UnderWay
    BY <1>1, <2>0, <2>1 DEF WalkInv, UnderWay
  <2>7. \A j \in 1..n + 1 : j \in 1..n \/ j = n + 1
    BY <1>1, <2>0
  <2>8. UnderWay' = UnderWay \cup {child}
    BY <1>1, <2>0, <2>3, <2>4, <2>5, <2>7 DEF UnderWay
  <2>9. \A i, j \in 1..n + 1 : calls'[i].definition = calls'[j].definition => i = j
    <3>1. \A i \in 1..n : calls'[i].definition \in UnderWay /\ calls'[i].definition = calls[i].definition
      BY <2>0, <2>3, <2>4 DEF UnderWay
    <3>2. calls'[n + 1].definition = child
      BY <2>4, <2>5
    <3> QED
      BY <2>0, <2>6, <2>7, <3>1, <3>2 DEF WalkInv
  <2>10. \A i \in 1..n + 1 : IsFrame(calls'[i])
    BY <2>3, <2>4, <2>5, <2>7
  <2>11. \A i \in 1..n + 1 : i <= MAX_ASSEMBLY_DEPTH => calls'[i].definition \in visiting'
    BY <1>1, <2>0, <2>1, <2>3, <2>4, <2>5, <2>7 DEF WalkInv
  <2>12. n + 1 \in 1..MAX_ASSEMBLY_DEPTH + 1 /\ visiting' \subseteq UnderWay'
    BY <1>1, <2>0, <2>1, <2>8 DEF WalkInv
  <2>13. UnderWay' \cap DOMAIN memo' = {}
    BY <2>1, <2>8 DEF WalkInv
  <2> QED
    BY <2>4, <2>9, <2>10, <2>11, <2>12, <2>13 DEF WalkInv
<1>6. CASE Totals!Return
  <2>0. PICK n \in Nat : n = Len(calls) /\ n # 0
    BY <1>1
  <2> DEFINE d == Totals!Top.definition
  <2>1. /\ ~result.done /\ visiting' = visiting \ {d} /\ DOMAIN memo' = DOMAIN memo \cup {d}
    BY <1>6 DEF Totals!Return, Totals!Remember
  <2>2. CASE n = 1
    <3>1. UNCHANGED calls /\ result'.done
      BY <1>6, <2>0, <2>2 DEF Totals!Return
    <3>2. UnderWay' = UnderWay
      BY <3>1 DEF UnderWay
    <3> QED
      BY <2>1, <3>1, <3>2 DEF WalkInv
  <2>3. CASE n # 1
    <3>1. n - 1 \in 1..n - 1 /\ 1..n - 1 \subseteq 1..n /\ n \notin 1..n - 1
      BY <1>1, <2>0, <2>3
    <3> DEFINE front == Front(calls)
    <3>2. PICK usage : calls' = [front EXCEPT ![n - 1] =
                                   Totals!Advanced(calls[n - 1], usage, Totals!Top.totals)]
      BY <1>6, <2>0, <2>3 DEF Totals!Return, Totals!Front, Front
    <3> DEFINE g == Totals!Advanced(calls[n - 1], usage, Totals!Top.totals)
    <3>3. result' = result
      BY <1>6, <2>0, <2>3 DEF Totals!Return
    <3>4. IsSequence(front) /\ Len(front) = n - 1 /\ \A i \in 1..n - 1 : front[i] = calls[i]
      BY <1>1, <2>0, FrontSequence
    <3> HIDE DEF front, g
    <3>5. /\ IsSequence(calls') /\ Len(calls') = n - 1
          /\ \A i \in 1..n - 1 : calls'[i] = IF i = n - 1 THEN g ELSE front[i]
      <4>1. DOMAIN front = 1..n - 1
        BY <3>4, SequenceOf
      <4>2. /\ calls' = [i \in DOMAIN front |-> calls'[i]]
            /\ \A i \in 1..n - 1 : calls'[i] = IF i = n - 1 THEN g ELSE front[i]
        BY <3>1, <3>2, <4>1 DEF g
      <4> QED
        BY <3>4, <4>2, SameDomainSequence
    <3>6. \A i \in 1..n - 1 : calls'[i].definition = calls[i].definition /\ IsFrame(calls'[i])
      <4>1. \A i \in 1..n - 1 : IsFrame(front[i])
        BY <2>0, <3>1, <3>4 DEF WalkInv
      <4>2. calls'[n - 1] = g
        BY <3>1, <3>5
      <4>3. calls'[n - 1].definition = calls[n - 1].definition /\ IsFrame(calls'[n - 1])
        BY <3>1, <3>4, <4>1, <4>2, AdvancedFrame DEF g
      <4>4. \A i \in 1..n - 1 : i # n - 1 => calls'[i] = calls[i]
        BY <3>4, <3>5
      <4> QED
        BY <3>4, <4>1, <4>3, <4>4
    <3>7. UnderWay' = UnderWay \ {d}
      <4>1. d = calls[n].definition
        BY <1>2, <2>0
      <4>2. \A i \in 1..n - 1 : calls[i].definition # d
        BY <1>1, <2>0, <3>1, <4>1 DEF WalkInv
      <4>3. \A i \in 1..n : i \in 1..n - 1 \/ i = n
        BY <1>1, <2>0
      <4>4. UnderWay' = {calls[i].definition : i \in 1..n - 1}
        BY <3>5, <3>6 DEF UnderWay
      <4>5. UnderWay = {calls[i].definition : i \in 1..n}
        BY <2>0 DEF UnderWay
      <4> QED
        BY <3>1, <4>1, <4>2, <4>3, <4>4, <4>5
    <3>8. n - 1 \in 1..MAX_ASSEMBLY_DEPTH + 1
      BY <1>1, <2>0, <2>3 DEF WalkInv
    <3>9. \A i, j \in 1..n - 1 : calls'[i].definition = calls'[j].definition => i = j
      BY <2>0, <3>1, <3>6 DEF WalkInv
    <3>10. UnderWay' \cap DOMAIN memo' = {} /\ visiting' \subseteq UnderWay'
      BY <2>1, <3>7 DEF WalkInv
    <3>11. \A i \in 1..n - 1 : i <= MAX_ASSEMBLY_DEPTH => calls'[i].definition \in visiting'
      <4>1. \A i \in 1..n - 1 : calls'[i].definition \in UnderWay'
        BY <3>5 DEF UnderWay
      <4> QED
        BY <2>0, <2>1, <3>1, <3>6, <3>7, <4>1 DEF WalkInv
    <3> QED
      BY <3>5, <3>6, <3>8, <3>9, <3>10, <3>11 DEF WalkInv
  <2> QED
    BY <2>2, <2>3
<1> QED
  BY <1>3, <1>4, <1>5, <1>6 DEF Totals!Next

LEMMA WalkInvImpliesWalkedOnce == WalkInv => WalkedOnce
<1> SUFFICES ASSUME WalkInv
             PROVE  WalkedOnce
  OBVIOUS
<1>1. DOMAIN calls = 1..Len(calls)
  BY SequenceOf DEF WalkInv
<1> QED
  BY <1>1 DEF WalkInv, WalkedOnce, Totals!WalkedOnce, UnderWay

(* However the usages lead to a definition, and whatever cycles they form,   *)
(* the flat list walks it once: never while it is being walked, and never    *)
(* when its totals are known (totals of src/src/model/assembly.rs).         *)
THEOREM DefinitionsWalkedOnce == Spec => []WalkedOnce
<1>1. Init => WalkInv
  <2> SUFFICES ASSUME Init
               PROVE  WalkInv
    OBVIOUS
  <2>1. calls = <<Totals!Frame(call.root)>> /\ memo = << >> /\ visiting = {call.root} /\ ~result.done
    BY DEF Init, Totals!Init
  <2>2. IsSequence(calls) /\ Len(calls) = 1 /\ calls[1] = Totals!Frame(call.root)
    BY <2>1 DEF IsSequence
  <2>3. IsFrame(calls[1]) /\ calls[1].definition = call.root
    BY <2>2 DEF IsFrame, Totals!Frame
  <2>4. UnderWay = {call.root}
    BY <2>2, <2>3 DEF UnderWay
  <2> QED
    BY <2>1, <2>2, <2>3, <2>4, LimitsAssumption DEF WalkInv
<1>2. WalkInv /\ [Next]_vars => WalkInv'
  <2> SUFFICES ASSUME WalkInv, [Next]_vars
               PROVE  WalkInv'
    OBVIOUS
  <2>1. CASE ListTotals
    BY <2>1, WalkInvTotals DEF ListTotals
  <2>2. CASE ListTree \/ UNCHANGED vars
    <3>1. UNCHANGED <<calls, memo, visiting, result>>
      BY <2>2 DEF ListTree, vars, totalsVars
    <3> QED
      BY <3>1 DEF WalkInv, UnderWay
  <2> QED
    BY <2>1, <2>2 DEF Next
<1> QED
  BY <1>1, <1>2, WalkInvImpliesWalkedOnce, PTL DEF Spec

-----------------------------------------------------------------------------
(* The lists of totals: one line for each definition.                       *)
Listing(t) == {t[i].definition : i \in 1..Len(t)}

IsListing(t) ==
  /\ IsSequence(t) /\ \A i \in 1..Len(t) : "definition" \in DOMAIN t[i]
  /\ \A i, j \in 1..Len(t) : t[i].definition = t[j].definition => i = j

LEMMA AddLists ==
  ASSUME NEW t, IsListing(t), NEW line, "definition" \in DOMAIN line
  PROVE  /\ IsListing(Totals!Add(t, line))
         /\ Listing(Totals!Add(t, line)) = Listing(t) \cup {line.definition}
<1> DEFINE same == {i \in DOMAIN t : t[i].definition = line.definition}
           more == Totals!Add(t, line)
<1>1. PICK n \in Nat : n = Len(t) /\ DOMAIN t = 1..n
  BY SequenceOf DEF IsListing
<1>2. CASE same = {}
  <2>1. more = Append(t, line)
    BY <1>2 DEF Totals!Add
  <2>2. /\ IsSequence(more) /\ Len(more) = n + 1
        /\ \A i \in 1..n : more[i] = t[i]
        /\ more[n + 1] = line
    BY <1>1, <2>1, AppendSequence DEF IsListing
  <2>3. \A i \in 1..n : t[i].definition # line.definition
    BY <1>1, <1>2
  <2>4. \A i \in 1..n + 1 : i \in 1..n \/ i = n + 1
    BY <1>1
  <2> HIDE DEF more, same
  <2>5. IsListing(more)
    BY <1>1, <2>2, <2>3, <2>4 DEF IsListing
  <2>6. Listing(more) = Listing(t) \cup {line.definition}
    BY <1>1, <2>2, <2>4 DEF Listing
  <2> QED
    BY <2>5, <2>6 DEF more
<1>3. CASE same # {}
  <2> DEFINE m == Min(same)
             changed == [t[m] EXCEPT !.quantity = @ + line.quantity]
  <2>1. m \in same
    <3>1. same \subseteq Nat
      BY <1>1
    <3> HIDE DEF same
    <3>2. \E k \in same : \A j \in same : k <= j
      BY <1>3, <3>1, LeastNatural
    <3> QED
      BY <3>2 DEF Min
  <2>2. m \in 1..n /\ t[m].definition = line.definition
    BY <1>1, <2>1
  <2>3. more = [t EXCEPT ![m] = changed]
    <3>1. more = [t EXCEPT ![m].quantity = @ + line.quantity]
      BY <1>3 DEF Totals!Add, Totals!Min, Min
    <3> HIDE DEF more, m
    <3> QED
      BY <3>1
  <2>4. "definition" \in DOMAIN changed /\ changed.definition = t[m].definition
    <3>1. "definition" \in DOMAIN t[m]
      BY <1>1, <2>2 DEF IsListing
    <3> HIDE DEF m, same
    <3> QED
      BY <3>1
  <2> HIDE DEF m, changed, same, more
  <2>5. /\ more = [i \in DOMAIN t |-> more[i]]
        /\ \A i \in 1..n : more[i] = IF i = m THEN changed ELSE t[i]
    BY <1>1, <2>2, <2>3
  <2>6. IsSequence(more) /\ Len(more) = n
    BY <1>1, <2>5, SameDomainSequence DEF IsListing
  <2>7. \A i \in 1..n : "definition" \in DOMAIN more[i] /\ more[i].definition = t[i].definition
    BY <1>1, <2>4, <2>5 DEF IsListing
  <2>8. IsListing(more)
    BY <1>1, <2>6, <2>7 DEF IsListing
  <2>9. Listing(more) = Listing(t) /\ line.definition \in Listing(t)
    BY <1>1, <2>2, <2>6, <2>7 DEF Listing
  <2> QED
    BY <2>8, <2>9 DEF more
<1> QED
  BY <1>2, <1>3

(* The fold over the lines of a component, one line at a time.               *)
SumsUp(sum, t, q, lines, n) ==
  /\ sum[0] = t
  /\ \A m \in 1..n : sum[m] = Totals!Add(sum[m - 1], [lines[m] EXCEPT !.quantity = q * @])

LEMMA AddBelowRecursion ==
  ASSUME NEW t, NEW q, NEW lines, NEW n \in Nat, DOMAIN lines = 1..n
  PROVE  \E sum : SumsUp(sum, t, q, lines, n) /\ Totals!AddBelow(t, q, lines) = sum[n]
<1> DEFINE Step(sum, i) == Totals!Add(sum, [lines[i] EXCEPT !.quantity = q * @])
           IsFold(g, m) == g = [s \in SUBSET (1..m) |->
                                  IF s = {} THEN t ELSE Step(g[s \ {Max(s)}], Max(s))]
           P == {m \in 0..n : \E g : IsFold(g, m)}
           Fold(D) == CHOOSE g : g = [s \in SUBSET D |->
                                        IF s = {} THEN t ELSE Step(g[s \ {Max(s)}], Max(s))]
           fold == Fold(1..n)
<1>1. Totals!AddBelow(t, q, lines) = fold[1..n]
  <2>1. Totals!AddBelow(t, q, lines) = Fold(DOMAIN lines)[DOMAIN lines]
    BY DEF Totals!AddBelow, Totals!FoldLeft, Totals!MapThenFoldSet, Totals!Max, Max
  <2> HIDE DEF Fold
  <2> QED
    BY <2>1
<1> HIDE DEF Step
<1>2. 0 \in P
  <2> DEFINE g == [s \in SUBSET (1..0) |-> t]
  <2>1. 1..0 = {}
    OBVIOUS
  <2>2. IsFold(g, 0)
    BY <2>1
  <2> HIDE DEF g, IsFold
  <2> QED
    BY <2>2
<1>3. ASSUME NEW m \in 0..n - 1, m \in P
      PROVE  m + 1 \in P
  <2>1. PICK g : IsFold(g, m)
    BY <1>3
  <2>2. \A s \in SUBSET (1..m) : g[s] = IF s = {} THEN t ELSE Step(g[s \ {Max(s)}], Max(s))
    BY <2>1
  <2> DEFINE h == [s \in SUBSET (1..m + 1) |->
                     IF m + 1 \in s THEN Step(g[s \ {m + 1}], m + 1) ELSE g[s]]
  <2>3. ASSUME NEW s \in SUBSET (1..m + 1)
        PROVE  h[s] = IF s = {} THEN t ELSE Step(h[s \ {Max(s)}], Max(s))
    <3>1. CASE m + 1 \in s
      <4>1. Max(s) = m + 1
        <5>1. m + 1 \in s /\ \A y \in s : m + 1 >= y
          BY <3>1
        <5>2. Max(s) \in s /\ \A y \in s : Max(s) >= y
          BY <5>1 DEF Max
        <5>3. PICK x \in s : x = Max(s)
          BY <5>2
        <5>4. x \in Nat /\ x >= m + 1 /\ m + 1 >= x
          BY <5>1, <5>2, <5>3
        <5> QED
          BY <5>3, <5>4
      <4>2. s \ {m + 1} \in SUBSET (1..m + 1) /\ m + 1 \notin s \ {m + 1} /\ s # {}
        BY <3>1
      <4> QED
        BY <3>1, <4>1, <4>2
    <3>2. CASE m + 1 \notin s
      <4>1. s \in SUBSET (1..m)
        BY <3>2
      <4>2. s \ {Max(s)} \in SUBSET (1..m + 1) /\ m + 1 \notin s \ {Max(s)}
        BY <3>2
      <4>3. h[s] = g[s] /\ h[s \ {Max(s)}] = g[s \ {Max(s)}]
        BY <3>2, <4>2
      <4> HIDE DEF h
      <4> QED
        BY <2>2, <4>1, <4>3
    <3> QED
      BY <3>1, <3>2
  <2>4. IsFold(h, m + 1)
    BY <2>3
  <2>5. m + 1 \in 0..n
    OBVIOUS
  <2> HIDE DEF h, IsFold
  <2> QED
    BY <2>4, <2>5
<1>4. n \in P
  <2> HIDE DEF P
  <2>1. \A m \in 0..n - 1 : m \in P => m + 1 \in P
    BY <1>3
  <2>2. 0..n \subseteq P
    BY <1>2, <2>1, IntervalInduction
  <2> QED
    BY <2>2
<1>5. IsFold(fold, n)
  <2>1. fold = CHOOSE g : IsFold(g, n)
    OBVIOUS
  <2> HIDE DEF IsFold, Fold
  <2>2. \E g : IsFold(g, n)
    BY <1>4
  <2> QED
    BY <2>1, <2>2
<1> DEFINE sum == [m \in 0..n |-> fold[1..m]]
<1>6. \A s \in SUBSET (1..n) : fold[s] = IF s = {} THEN t ELSE Step(fold[s \ {Max(s)}], Max(s))
  <2> HIDE DEF fold
  <2> QED
    BY <1>5
<1> HIDE DEF fold, IsFold, P
<1>7. sum[0] = t
  <2>1. 1..0 = {} /\ {} \in SUBSET (1..n) /\ 0 \in 0..n
    OBVIOUS
  <2> QED
    BY <1>6, <2>1
<1>8. ASSUME NEW m \in 1..n
      PROVE  sum[m] = Step(sum[m - 1], m)
  <2>1. 1..m \in SUBSET (1..n) /\ m \in 1..m /\ m - 1 \in 0..n /\ m \in 0..n
    OBVIOUS
  <2>3. (1..m) \ {m} = 1..m - 1
    OBVIOUS
  <2>2. Max(1..m) = m
    <3>1. m \in 1..m /\ \A y \in 1..m : m >= y
      OBVIOUS
    <3>2. Max(1..m) \in 1..m /\ \A y \in 1..m : Max(1..m) >= y
      BY <3>1 DEF Max
    <3>3. Max(1..m) \in Nat /\ Max(1..m) >= m /\ m >= Max(1..m)
      BY <3>1, <3>2
    <3> QED
      BY <3>3
  <2> QED
    BY <1>6, <2>1, <2>2, <2>3
<1>9. sum[n] = fold[1..n]
  OBVIOUS
<1> HIDE DEF sum
<1>10. SumsUp(sum, t, q, lines, n)
  BY <1>7, <1>8 DEF SumsUp, Step
<1> QED
  BY <1>1, <1>9, <1>10

LEMMA AddBelowLists ==
  ASSUME NEW t, IsListing(t), NEW q, NEW lines, IsListing(lines)
  PROVE  /\ IsListing(Totals!AddBelow(t, q, lines))
         /\ Listing(Totals!AddBelow(t, q, lines)) = Listing(t) \cup Listing(lines)
<1>1. PICK n \in Nat : n = Len(lines) /\ DOMAIN lines = 1..n
  BY SequenceOf DEF IsListing
<1>2. PICK sum : SumsUp(sum, t, q, lines, n) /\ Totals!AddBelow(t, q, lines) = sum[n]
  BY <1>1, AddBelowRecursion
<1> DEFINE Upto(m) == {lines[i].definition : i \in 1..m}
           P == {m \in 0..n : IsListing(sum[m]) /\ Listing(sum[m]) = Listing(t) \cup Upto(m)}
<1>3. 0 \in P
  <2>1. 1..0 = {}
    OBVIOUS
  <2>2. Upto(0) = {}
    BY <2>1
  <2> QED
    BY <1>1, <1>2, <2>2 DEF SumsUp
<1>4. ASSUME NEW m \in 0..n - 1, m \in P
      PROVE  m + 1 \in P
  <2> DEFINE line == [lines[m + 1] EXCEPT !.quantity = q * @]
  <2>1. m + 1 \in 1..n /\ (m + 1) - 1 = m /\ m + 1 \in 0..n
    BY <1>1
  <2>2. "definition" \in DOMAIN lines[m + 1]
    BY <1>1, <2>1 DEF IsListing
  <2>3. "definition" \in DOMAIN line /\ line.definition = lines[m + 1].definition
    BY <2>2
  <2>4. sum[m + 1] = Totals!Add(sum[m], line)
    BY <1>2, <2>1 DEF SumsUp
  <2>5. IsListing(sum[m]) /\ Listing(sum[m]) = Listing(t) \cup Upto(m)
    BY <1>4
  <2>6. Upto(m + 1) = Upto(m) \cup {lines[m + 1].definition}
    BY <1>1
  <2> HIDE DEF line, Upto
  <2>7. IsListing(sum[m + 1]) /\ Listing(sum[m + 1]) = Listing(sum[m]) \cup {line.definition}
    BY <2>3, <2>4, <2>5, AddLists
  <2> QED
    BY <2>1, <2>3, <2>5, <2>6, <2>7
<1>5. n \in P
  <2> HIDE DEF P
  <2>1. \A m \in 0..n - 1 : m \in P => m + 1 \in P
    BY <1>4
  <2>2. 0..n \subseteq P
    BY <1>1, <1>3, <2>1, IntervalInduction
  <2> QED
    BY <1>1, <2>2
<1> QED
  BY <1>1, <1>2, <1>5 DEF Listing

-----------------------------------------------------------------------------
(* The definitions below another.                                          *)
IsWithin(w, s, d) ==
  w[0] = {d} /\ \A k \in 1..s.definitions : w[k] = w[k - 1] \cup Children(s, w[k - 1])

LEMMA BelowRecursion ==
  ASSUME NEW s, s.definitions \in Nat, NEW d
  PROVE  \E w : IsWithin(w, s, d) /\ Below(s, d) = Children(s, w[s.definitions])
<1> DEFINE n == s.definitions
           Is(g, m) == g = [k \in 0..m |-> IF k = 0 THEN {d} ELSE g[k - 1] \cup Children(s, g[k - 1])]
           P == {m \in 0..n : \E g : Is(g, m)}
           w == CHOOSE g : Is(g, n)
<1>1. Below(s, d) = Children(s, w[n])
  BY DEF Below
<1>2. 0 \in P
  <2> DEFINE g == [k \in 0..0 |-> {d}]
  <2>1. Is(g, 0)
    OBVIOUS
  <2> HIDE DEF g, Is
  <2> QED
    BY <2>1
<1>3. ASSUME NEW m \in 0..n - 1, m \in P
      PROVE  m + 1 \in P
  <2>1. PICK g : Is(g, m)
    <3> HIDE DEF Is
    <3> QED
      BY <1>3
  <2>2. \A k \in 0..m : g[k] = IF k = 0 THEN {d} ELSE g[k - 1] \cup Children(s, g[k - 1])
    BY <2>1
  <2> DEFINE h == [k \in 0..m + 1 |-> IF k <= m THEN g[k] ELSE g[m] \cup Children(s, g[m])]
  <2>3. ASSUME NEW k \in 0..m + 1
        PROVE  h[k] = IF k = 0 THEN {d} ELSE h[k - 1] \cup Children(s, h[k - 1])
    <3>1. CASE k = m + 1
      <4>1. k # 0 /\ k - 1 = m /\ h[k] = g[m] \cup Children(s, g[m]) /\ h[m] = g[m]
        BY <3>1
      <4> HIDE DEF h
      <4> QED
        BY <4>1
    <3>2. CASE k # m + 1
      <4>1. /\ k \in 0..m /\ h[k] = g[k]
            /\ k # 0 => k - 1 \in 0..m /\ h[k - 1] = g[k - 1]
        BY <3>2
      <4> HIDE DEF h
      <4> QED
        BY <2>2, <4>1
    <3> QED
      BY <3>1, <3>2
  <2>4. Is(h, m + 1)
    BY <2>3
  <2>5. m + 1 \in 0..n
    OBVIOUS
  <2> HIDE DEF h, Is
  <2> QED
    BY <2>4, <2>5
<1>4. n \in P
  <2> HIDE DEF P
  <2>1. \A m \in 0..n - 1 : m \in P => m + 1 \in P
    BY <1>3
  <2>2. 0..n \subseteq P
    BY <1>2, <2>1, IntervalInduction
  <2> QED
    BY <2>2
<1>5. Is(w, n)
  <2>1. \E g : Is(g, n)
    <3> HIDE DEF Is
    <3> QED
      BY <1>4
  <2> QED
    BY <2>1
<1>6. \A k \in 0..n : w[k] = IF k = 0 THEN {d} ELSE w[k - 1] \cup Children(s, w[k - 1])
  <2> HIDE DEF w
  <2> QED
    BY <1>5
<1> HIDE DEF w
<1>7. w[0] = {d} /\ \A k \in 1..n : w[k] = w[k - 1] \cup Children(s, w[k - 1])
  <2>1. 0 \in 0..n /\ \A k \in 1..n : k \in 0..n /\ k # 0
    OBVIOUS
  <2> HIDE DEF n
  <2> QED
    BY <1>6, <2>1
<1> QED
  BY <1>1, <1>7 DEF IsWithin

LEMMA ChildrenGrow ==
  ASSUME NEW s, NEW S, NEW T, S \subseteq T
  PROVE  Children(s, S) \subseteq Children(s, T)
BY DEF Children

(* As many steps as there are definitions reach everything: each step that   *)
(* is not the last adds a definition.                                      *)
LEMMA BelowClosed ==
  ASSUME NEW s, IsStructure(s), NEW d \in Definitions(s)
  PROVE  /\ Below(s, d) \subseteq Definitions(s)
         /\ Children(s, {d} \cup Below(s, d)) \subseteq Below(s, d)
<1> DEFINE n == s.definitions
           D == 1..n
           C(S) == Children(s, S)
<1>1. n \in Nat /\ IsFiniteSet(D) /\ Cardinality(D) = n /\ d \in D
  <2>1. n \in Nat
    BY DEF IsStructure
  <2>2. d \in D
    BY DEF Definitions
  <2> HIDE DEF n
  <2>3. IsFiniteSet(1..n) /\ Cardinality(1..n) = IF 1 <= n THEN n - 1 + 1 ELSE 0
    BY <2>1, FS_Interval
  <2>4. (IF 1 <= n THEN n - 1 + 1 ELSE 0) = n
    BY <2>1
  <2> QED
    BY <2>1, <2>2, <2>3, <2>4
<1>2. PICK w : IsWithin(w, s, d) /\ Below(s, d) = C(w[n])
  BY <1>1, BelowRecursion
<1>3. \A S : C(S) \subseteq D
  BY DEF Children, IsStructure, Definitions
<1>4. w[0] = {d} /\ \A k \in 0..n - 1 : w[k + 1] = w[k] \cup C(w[k])
  <2>1. \A k \in 0..n - 1 : k + 1 \in 1..n /\ (k + 1) - 1 = k
    BY <1>1
  <2> HIDE DEF n
  <2> QED
    BY <1>2, <2>1 DEF IsWithin, n
<1> HIDE DEF n, C
<1> DEFINE P == {k \in 0..n : /\ w[k] \subseteq D /\ d \in w[k]
                              /\ Cardinality(w[k]) > k \/ C(w[k]) \subseteq w[k]}
<1>5. 0 \in P
  <2>1. Cardinality(w[0]) = 1
    BY <1>4, FS_Singleton
  <2>2. 0 \in 0..n /\ 1 > 0
    BY <1>1
  <2>3. w[0] \subseteq D /\ d \in w[0]
    BY <1>1, <1>4
  <2> HIDE DEF D
  <2> QED
    BY <2>1, <2>2, <2>3
<1>6. ASSUME NEW k \in 0..n - 1, k \in P
      PROVE  k + 1 \in P
  <2>1. /\ w[k] \subseteq D /\ d \in w[k] /\ w[k + 1] = w[k] \cup C(w[k])
        /\ k + 1 \in 0..n /\ k \in Nat
    BY <1>1, <1>4, <1>6
  <2>2. w[k + 1] \subseteq D /\ d \in w[k + 1]
    BY <1>3, <2>1
  <2>3. CASE C(w[k]) \subseteq w[k]
    <3>1. w[k + 1] = w[k]
      BY <2>1, <2>3
    <3> QED
      BY <2>1, <2>2, <2>3, <3>1
  <2>4. CASE ~(C(w[k]) \subseteq w[k])
    <3>1. Cardinality(w[k]) > k
      BY <1>6, <2>4
    <3>2. IsFiniteSet(w[k + 1])
      BY <1>1, <2>2, FS_Subset
    <3>3. /\ IsFiniteSet(w[k]) /\ Cardinality(w[k]) <= Cardinality(w[k + 1])
          /\ Cardinality(w[k]) = Cardinality(w[k + 1]) => w[k] = w[k + 1]
      <4>1. w[k] \in SUBSET w[k + 1]
        BY <2>1
      <4> HIDE DEF P, D
      <4> QED
        BY <3>2, <4>1, FS_Subset
    <3>4. w[k] # w[k + 1]
      BY <2>1, <2>4
    <3>5. Cardinality(w[k]) \in Nat /\ Cardinality(w[k + 1]) \in Nat
      BY <3>2, <3>3, FS_CardinalityType
    <3>6. Cardinality(w[k + 1]) > k + 1
      BY <2>1, <3>1, <3>3, <3>4, <3>5
    <3> QED
      BY <2>1, <2>2, <3>6
  <2> QED
    BY <2>3, <2>4
<1>7. n \in P
  <2> HIDE DEF P
  <2>1. \A k \in 0..n - 1 : k \in P => k + 1 \in P
    BY <1>6
  <2>2. 0..n \subseteq P
    BY <1>1, <1>5, <2>1, IntervalInduction
  <2> QED
    BY <1>1, <2>2
<1>8. w[n] \subseteq D /\ d \in w[n] /\ C(w[n]) \subseteq w[n]
  <2>1. Cardinality(w[n]) <= n /\ Cardinality(w[n]) \in Nat
    <3>1. w[n] \in SUBSET D
      BY <1>7
    <3> HIDE DEF P, D
    <3> QED
      BY <1>1, <3>1, FS_Subset, FS_CardinalityType
  <2> QED
    BY <1>1, <1>7, <2>1
<1>9. C({d} \cup Below(s, d)) \subseteq C(w[n])
  <2>1. {d} \cup Below(s, d) \subseteq w[n]
    BY <1>2, <1>8
  <2> QED
    BY <2>1, ChildrenGrow DEF C
<1> QED
  BY <1>2, <1>3, <1>9 DEF Definitions, n, C

LEMMA BelowLeast ==
  ASSUME NEW s, s.definitions \in Nat, NEW d, NEW W, d \in W, Children(s, W) \subseteq W
  PROVE  Below(s, d) \subseteq W
<1> DEFINE n == s.definitions
<1>1. PICK w : IsWithin(w, s, d) /\ Below(s, d) = Children(s, w[n])
  BY BelowRecursion
<1> DEFINE Q == {k \in 0..n : w[k] \subseteq W}
<1>2. 0 \in Q
  BY <1>1 DEF IsWithin
<1>3. ASSUME NEW k \in 0..n - 1, k \in Q
      PROVE  k + 1 \in Q
  <2>1. k + 1 \in 1..n /\ k + 1 \in 0..n /\ (k + 1) - 1 = k
    OBVIOUS
  <2>2. w[k + 1] = w[k] \cup Children(s, w[k])
    BY <1>1, <2>1 DEF IsWithin
  <2>3. Children(s, w[k]) \subseteq Children(s, W)
    BY <1>3, ChildrenGrow
  <2> QED
    BY <1>3, <2>1, <2>2, <2>3
<1>4. n \in Q
  <2> HIDE DEF Q
  <2>1. \A k \in 0..n - 1 : k \in Q => k + 1 \in Q
    BY <1>3
  <2>2. 0..n \subseteq Q
    BY <1>2, <2>1, IntervalInduction
  <2> QED
    BY <2>2
<1>5. Children(s, w[n]) \subseteq Children(s, W)
  BY <1>4, ChildrenGrow
<1> QED
  BY <1>1, <1>5

-----------------------------------------------------------------------------
(* What the walk has met, and where it is noted: the inductive invariant of  *)
(* EveryComponentListed, beside WalkInv.  A call lists what it has met, and  *)
(* waits at the usage of the call above it; whatever has totals is listed   *)
(* by a call that is under way; and its own components have been met.       *)
Walked == UnderWay \cup DOMAIN memo

ChildOf(s, d, k) == s.usages[ChildUsages(s, d)[k]].child

IsCall(f) ==
  /\ {"definition", "next", "totals"} \subseteq DOMAIN f
  /\ f.next \in Nat \ {0} /\ IsListing(f.totals)

Waits(s, f, d) ==
  /\ f.next <= Len(ChildUsages(s, f.definition))
  /\ ChildOf(s, f.definition, f.next) = d /\ d \in Listing(f.totals)

Known ==
  /\ call \in Requests
  /\ Walked \subseteq {call.root} \cup Below(call.structure, call.root)
  /\ \A i \in 1..Len(calls) : IsCall(calls[i]) /\ Listing(calls[i].totals) \subseteq Walked \ {call.root}
  /\ \A d \in DOMAIN memo : IsListing(memo[d]) /\ Listing(memo[d]) \subseteq Walked \ {call.root}

Nested ==
  /\ calls[1].definition = call.root
  /\ \A i \in 1..Len(calls) - 1 : Waits(call.structure, calls[i], calls[i + 1].definition)

Noted == \A d \in DOMAIN memo \ {call.root} : \E i \in 1..Len(calls) : d \in Listing(calls[i].totals)

Seen ==
  /\ \A i \in 1..Len(calls) : \A k \in 1..calls[i].next - 1 :
       ChildOf(call.structure, calls[i].definition, k) \in Walked
  /\ Totals!Shallow => \A d \in DOMAIN memo : Children(call.structure, {d}) \subseteq Walked

Finished ==
  result.done => Len(calls) = 1 /\ call.root \in DOMAIN memo /\ result.lines = calls[1].totals

CoverInv == WalkInv /\ Known /\ Nested /\ Noted /\ Seen /\ Finished

LEMMA UsesAre ==
  ASSUME NEW s, IsStructure(s), NEW d \in Definitions(s)
  PROVE  /\ Len(ChildUsages(s, d)) \in Nat
         /\ Children(s, {d}) = {ChildOf(s, d, k) : k \in 1..Len(ChildUsages(s, d))}
<1> DEFINE places == {k \in DOMAIN s.usages : s.usages[k].parent = d}
           uses == ChildUsages(s, d)
<1>1. uses = InOrder(places)
  BY DEF ChildUsages, IsStructure, ChildrenByParent, Definitions
<1>2. IsSequence(s.usages) /\ places \subseteq DOMAIN s.usages
  BY DEF IsStructure
<1>3. places \subseteq Nat /\ IsFiniteSet(places)
  <2> HIDE DEF places
  <2> QED
    BY <1>2, PlacesFinite
<1> DEFINE c == Cardinality(places)
<1>4. /\ c \in Nat /\ Len(uses) = c
      /\ \A k \in 1..c : uses[k] \in places
      /\ \A i \in places : \E k \in 1..c : uses[k] = i
  <2> HIDE DEF places, uses
  <2> QED
    BY <1>1, <1>3, InOrderLists
<1>5. Children(s, {d}) = {s.usages[i].child : i \in places}
  <2>1. DOMAIN s.usages = 1..Len(s.usages) /\ ToSet(s.usages) = {s.usages[i] : i \in DOMAIN s.usages}
    BY <1>2, SequenceOf DEF ToSet
  <2> QED
    BY <2>1 DEF Children
<1> HIDE DEF places, uses, c
<1>6. Children(s, {d}) = {s.usages[uses[k]].child : k \in 1..c}
  <2>1. \A i \in places : s.usages[i].child \in {s.usages[uses[k]].child : k \in 1..c}
    <3> SUFFICES ASSUME NEW i \in places
                 PROVE  s.usages[i].child \in {s.usages[uses[k]].child : k \in 1..c}
      OBVIOUS
    <3>1. PICK k \in 1..c : uses[k] = i
      BY <1>4
    <3> QED
      BY <3>1
  <2>2. \A k \in 1..c : s.usages[uses[k]].child \in {s.usages[i].child : i \in places}
    BY <1>4
  <2> QED
    BY <1>5, <2>1, <2>2
<1> QED
  BY <1>4, <1>6 DEF ChildOf, uses

(* What is met below the root stays below the root.                         *)
LEMMA MetBelow ==
  ASSUME NEW s, IsStructure(s), NEW r \in Definitions(s), NEW d, d \in {r} \cup Below(s, r)
  PROVE  /\ d \in Definitions(s)
         /\ Children(s, {d}) \subseteq Below(s, r)
<1>1. /\ Below(s, r) \subseteq Definitions(s)
      /\ Children(s, {r} \cup Below(s, r)) \subseteq Below(s, r)
  BY BelowClosed
<1>2. {d} \subseteq {r} \cup Below(s, r)
  OBVIOUS
<1>3. Children(s, {d}) \subseteq Children(s, {r} \cup Below(s, r))
  BY <1>2, ChildrenGrow
<1> QED
  BY <1>1, <1>3

LEMMA TopCall ==
  ASSUME CoverInv
  PROVE  /\ Len(calls) \in Nat \ {0} /\ DOMAIN calls = 1..Len(calls)
         /\ Totals!Top = calls[Len(calls)] /\ IsCall(Totals!Top)
         /\ IsStructure(call.structure) /\ call.root \in Definitions(call.structure)
         /\ Totals!Top.definition \in UnderWay
         /\ Totals!Top.definition \in Definitions(call.structure)
         /\ Totals!Uses = ChildUsages(call.structure, Totals!Top.definition)
         /\ Len(Totals!Uses) \in Nat
         /\ Children(call.structure, {Totals!Top.definition})
              = {ChildOf(call.structure, Totals!Top.definition, k) : k \in 1..Len(Totals!Uses)}
         /\ Children(call.structure, {Totals!Top.definition}) \subseteq Below(call.structure, call.root)
<1>1. IsSequence(calls) /\ Len(calls) \in 1..MAX_ASSEMBLY_DEPTH + 1 /\ MAX_ASSEMBLY_DEPTH \in Nat
  BY LimitsAssumption DEF CoverInv, WalkInv
<1>2. PICK n \in Nat \ {0} : n = Len(calls)
  BY <1>1
<1>3. DOMAIN calls = 1..n
  BY <1>1, <1>2, SequenceOf
<1>4. Totals!Top = calls[n] /\ n \in 1..n
  BY <1>2 DEF Totals!Top, Totals!Last
<1>5. IsCall(Totals!Top)
  BY <1>2, <1>4 DEF CoverInv, Known
<1>6. IsStructure(call.structure) /\ call.root \in Definitions(call.structure)
  BY RequestsAssumption DEF CoverInv, Known
<1>7. Totals!Top.definition \in UnderWay
  BY <1>2, <1>4 DEF UnderWay
<1>8. Totals!Top.definition \in {call.root} \cup Below(call.structure, call.root)
  BY <1>7 DEF CoverInv, Known, Walked
<1>9. /\ Totals!Top.definition \in Definitions(call.structure)
      /\ Children(call.structure, {Totals!Top.definition}) \subseteq Below(call.structure, call.root)
  BY <1>6, <1>8, MetBelow
<1>10. Totals!Uses = ChildUsages(call.structure, Totals!Top.definition)
  BY DEF Totals!Uses, Totals!ChildUsages, ChildUsages, Totals!structure
<1>11. /\ Len(Totals!Uses) \in Nat
       /\ Children(call.structure, {Totals!Top.definition})
              = {ChildOf(call.structure, Totals!Top.definition, k) : k \in 1..Len(Totals!Uses)}
  BY <1>6, <1>9, <1>10, UsesAre
<1> QED
  BY <1>2, <1>3, <1>4, <1>5, <1>6, <1>7, <1>9, <1>10, <1>11

(* The usage the call on top has come to.                                   *)
LEMMA NextUsage ==
  ASSUME CoverInv, Totals!MoreUses
  PROVE  /\ Totals!TheUsage.child = ChildOf(call.structure, Totals!Top.definition, Totals!Top.next)
         /\ Totals!TheUsage.child \in Below(call.structure, call.root)
         /\ Totals!Top.next \in 1..Len(Totals!Uses)
         /\ call.root \in visiting
<1>1. Totals!TheUsage.child = ChildOf(call.structure, Totals!Top.definition, Totals!Top.next)
  BY TopCall DEF Totals!TheUsage, ChildOf, Totals!structure
<1>2. Totals!Top.next \in 1..Len(Totals!Uses)
  BY TopCall DEF Totals!MoreUses, IsCall
<1>3. Totals!TheUsage.child \in Below(call.structure, call.root)
  BY <1>1, <1>2, TopCall
<1>4. 1 \in 1..Len(calls) /\ 1 <= MAX_ASSEMBLY_DEPTH
  BY TopCall, LimitsAssumption
<1>5. calls[1].definition \in visiting
  BY <1>4 DEF CoverInv, WalkInv, Totals!MoreUses
<1> QED
  BY <1>1, <1>2, <1>3, <1>5 DEF CoverInv, Nested

(* A call that has come to its next usage, and the calls above it.           *)
Moved(f, g) ==
  /\ IsCall(g) /\ g.definition = f.definition /\ g.next = f.next + 1
  /\ Listing(f.totals) \subseteq Listing(g.totals)

ListsMet(f) == Listing(f.totals) \subseteq Walked \ {call.root}

LEMMA CallsMoved ==
  ASSUME CoverInv, NEW m \in 1..Len(calls), Len(calls') = m,
         \A i \in 1..m - 1 : calls'[i] = calls[i],
         Moved(calls[m], calls'[m]), ListsMet(calls'[m]),
         ChildOf(call.structure, calls[m].definition, calls[m].next) \in Walked,
         Walked' = Walked, call' = call
  PROVE  /\ \A i \in 1..Len(calls') :
              IsCall(calls'[i]) /\ Listing(calls'[i].totals) \subseteq Walked' \ {call'.root}
         /\ Nested'
         /\ \A i \in 1..Len(calls') : \A k \in 1..calls'[i].next - 1 :
              ChildOf(call'.structure, calls'[i].definition, k) \in Walked'
         /\ \A i \in 1..m : Listing(calls[i].totals) \subseteq Listing(calls'[i].totals)
<1>1. PICK n \in Nat \ {0} : n = Len(calls)
  BY TopCall
<1>2. /\ m \in Nat /\ m <= n /\ m # 0
      /\ \A i \in 1..m : i \in 1..n /\ (i \in 1..m - 1 \/ i = m)
      /\ \A i \in 1..m - 1 : i \in 1..m /\ i + 1 \in 1..m /\ i \in 1..n - 1
  BY <1>1
<1>3. \A i \in 1..n : IsCall(calls[i]) /\ Listing(calls[i].totals) \subseteq Walked \ {call.root}
  BY <1>1 DEF CoverInv, Known
<1>4. \A i \in 1..m : IsCall(calls'[i]) /\ Listing(calls'[i].totals) \subseteq Walked' \ {call'.root}
  <2>1. IsCall(calls'[m]) /\ Listing(calls'[m].totals) \subseteq Walked' \ {call'.root}
    BY DEF Moved, ListsMet
  <2> QED
    BY <1>2, <1>3, <2>1
<1>5. \A i \in 1..m : calls'[i].definition = calls[i].definition
  BY <1>2 DEF Moved
<1>6. Nested'
  <2>1. calls'[1].definition = call'.root
    <3>1. 1 \in 1..m
      BY <1>2
    <3> QED
      BY <1>5, <3>1 DEF CoverInv, Nested
  <2>2. ASSUME NEW i \in 1..m - 1
        PROVE  Waits(call'.structure, calls'[i], calls'[i + 1].definition)
    <3>1. Waits(call.structure, calls[i], calls[i + 1].definition)
      BY <1>1, <1>2 DEF CoverInv, Nested
    <3>2. calls'[i] = calls[i] /\ calls'[i + 1].definition = calls[i + 1].definition
      BY <1>2, <1>5
    <3> QED
      BY <3>1, <3>2
  <2> QED
    BY <2>1, <2>2 DEF Nested
<1>7. ASSUME NEW i \in 1..m, NEW k \in 1..calls'[i].next - 1
      PROVE  ChildOf(call'.structure, calls'[i].definition, k) \in Walked'
  <2>1. \A j \in 1..calls[i].next - 1 : ChildOf(call.structure, calls[i].definition, j) \in Walked
    BY <1>1, <1>2 DEF CoverInv, Seen
  <2>2. CASE k \in 1..calls[i].next - 1
    BY <1>5, <2>1, <2>2
  <2>3. CASE k \notin 1..calls[i].next - 1
    <3>1. i = m
      BY <1>2, <2>3
    <3>2. calls[m].next \in Nat \ {0} /\ calls'[m].next = calls[m].next + 1
      BY <1>1, <1>3 DEF IsCall, Moved
    <3>3. k = calls[m].next
      BY <2>3, <3>1, <3>2
    <3> QED
      BY <1>5, <3>1, <3>3
  <2> QED
    BY <2>2, <2>3
<1>8. \A i \in 1..m : Listing(calls[i].totals) \subseteq Listing(calls'[i].totals)
  BY <1>2 DEF Moved
<1> QED
  BY <1>4, <1>6, <1>7, <1>8

(* The parts of the invariant beside WalkInv, over a step of the call on top *)
(* that leaves the memo alone.                                             *)
LEMMA TopMoved ==
  ASSUME CoverInv, NEW f, calls' = [calls EXCEPT ![Len(calls)] = f],
         Moved(Totals!Top, f), ListsMet(f), Totals!MoreUses, Totals!TheUsage.child \in Walked,
         UNCHANGED <<call, memo, visiting, result>>
  PROVE  Known' /\ Nested' /\ Noted' /\ Seen' /\ Finished'
<1>1. PICK n \in Nat \ {0} : n = Len(calls)
  BY TopCall
<1>2. DOMAIN calls = 1..n /\ Totals!Top = calls[n] /\ IsSequence(calls) /\ n \in 1..n
  BY <1>1, TopCall DEF CoverInv, WalkInv
<1>3. /\ calls' = [i \in DOMAIN calls |-> calls'[i]]
      /\ \A i \in 1..n : calls'[i] = IF i = n THEN f ELSE calls[i]
  BY <1>1, <1>2
<1>4. Len(calls') = n /\ calls'[n] = f /\ \A i \in 1..n - 1 : calls'[i] = calls[i]
  BY <1>1, <1>2, <1>3, SameDomainSequence
<1>5. Walked' = Walked
  <2>1. \A i \in 1..n : calls'[i].definition = calls[i].definition
    BY <1>2, <1>3 DEF Moved
  <2>2. UnderWay' = UnderWay
    BY <1>1, <1>4, <2>1 DEF UnderWay
  <2> QED
    BY <2>2 DEF Walked
<1>6. ChildOf(call.structure, calls[n].definition, calls[n].next) \in Walked
  BY <1>2, NextUsage
<1>7. /\ \A i \in 1..n :
           IsCall(calls'[i]) /\ Listing(calls'[i].totals) \subseteq Walked' \ {call'.root}
      /\ Nested'
      /\ \A i \in 1..n : \A k \in 1..calls'[i].next - 1 :
           ChildOf(call'.structure, calls'[i].definition, k) \in Walked'
      /\ \A i \in 1..n : Listing(calls[i].totals) \subseteq Listing(calls'[i].totals)
  <2>1. /\ n \in 1..Len(calls) /\ Moved(calls[n], calls'[n]) /\ ListsMet(calls'[n]) /\ call' = call
    BY <1>1, <1>2, <1>4
  <2> QED
    BY <1>4, <1>5, <1>6, <2>1, CallsMoved
<1>8. Known'
  BY <1>4, <1>5, <1>7 DEF CoverInv, Known
<1>9. Noted'
  BY <1>1, <1>4, <1>7 DEF CoverInv, Noted
<1>10. Seen'
  <2>1. Totals!Shallow' = Totals!Shallow
    BY DEF Totals!Shallow, Totals!structure
  <2>2. Totals!Shallow' => \A d \in DOMAIN memo' : Children(call'.structure, {d}) \subseteq Walked'
    BY <1>5, <2>1 DEF CoverInv, Seen
  <2> QED
    BY <1>4, <1>7, <2>2 DEF Seen
<1>11. Finished'
  BY DEF Finished, Totals!MoreUses
<1> QED
  BY <1>7, <1>8, <1>9, <1>10, <1>11

LEMMA SkippedCall ==
  ASSUME NEW f, IsCall(f)
  PROVE  Moved(f, [f EXCEPT !.next = @ + 1]) /\ [f EXCEPT !.next = @ + 1].totals = f.totals
<1>1. f.next + 1 \in Nat \ {0}
  BY DEF IsCall
<1> DEFINE g == [f EXCEPT !.next = @ + 1]
<1>2. DOMAIN g = DOMAIN f /\ g.next = f.next + 1 /\ g.definition = f.definition /\ g.totals = f.totals
  BY DEF IsCall
<1> HIDE DEF g
<1>3. IsCall(g)
  BY <1>1, <1>2 DEF IsCall
<1>4. Moved(f, g)
  BY <1>2, <1>3 DEF Moved
<1> QED
  BY <1>2, <1>4 DEF g

LEMMA AdvancedCall ==
  ASSUME NEW f, IsCall(f), NEW usage, NEW lines, IsListing(lines)
  PROVE  /\ Moved(f, Totals!Advanced(f, usage, lines))
         /\ Listing(Totals!Advanced(f, usage, lines).totals) = Listing(f.totals) \cup Listing(lines)
<1> DEFINE t == Totals!AddBelow(f.totals, Totals!Quantity(usage), lines)
           g == Totals!Advanced(f, usage, lines)
<1>1. f.next + 1 \in Nat \ {0} /\ IsListing(f.totals)
  BY DEF IsCall
<1>2. IsListing(t) /\ Listing(t) = Listing(f.totals) \cup Listing(lines)
  BY <1>1, AddBelowLists
<1>3. DOMAIN g = DOMAIN f /\ g.next = f.next + 1 /\ g.definition = f.definition /\ g.totals = t
  BY DEF IsCall, Totals!Advanced
<1> HIDE DEF g, t
<1>4. IsCall(g)
  BY <1>1, <1>2, <1>3 DEF IsCall
<1>5. Moved(f, g)
  BY <1>2, <1>3, <1>4 DEF Moved
<1> QED
  BY <1>2, <1>3, <1>5 DEF g

LEMMA CoverSkip ==
  ASSUME CoverInv, Totals!SkipAncestor
  PROVE  Known' /\ Nested' /\ Noted' /\ Seen' /\ Finished'
<1> DEFINE f == [Totals!Top EXCEPT !.next = @ + 1]
<1>1. IsCall(Totals!Top) /\ Totals!Top = calls[Len(calls)]
  BY TopCall
<1>2. /\ Totals!MoreUses /\ Totals!TheUsage.child \in visiting
      /\ calls' = [calls EXCEPT ![Len(calls)].next = @ + 1]
      /\ UNCHANGED <<call, memo, visiting, result>>
  BY DEF Totals!SkipAncestor
<1>3. calls' = [calls EXCEPT ![Len(calls)] = f]
  BY <1>1, <1>2
<1>5. Moved(Totals!Top, f) /\ f.totals = Totals!Top.totals
  BY <1>1, SkippedCall
<1>6. ListsMet(f)
  <2>1. ListsMet(Totals!Top)
    <3>1. Len(calls) \in 1..Len(calls)
      BY TopCall
    <3> QED
      BY <1>1, <3>1 DEF CoverInv, Known, ListsMet
  <2> QED
    BY <1>5, <2>1 DEF ListsMet
<1>7. Totals!TheUsage.child \in Walked
  BY <1>2 DEF CoverInv, WalkInv, Walked
<1> HIDE DEF f
<1> QED
  BY <1>2, <1>3, <1>5, <1>6, <1>7, TopMoved

LEMMA CoverMemo ==
  ASSUME CoverInv, Totals!UseMemo
  PROVE  Known' /\ Nested' /\ Noted' /\ Seen' /\ Finished'
<1> DEFINE child == Totals!TheUsage.child
           old == Totals!Top.totals
           line == [definition |-> child, quantity |-> Totals!Quantity(Totals!TheUsage)]
           more == Totals!WithChild(old, Totals!TheUsage)
           f == [Totals!Top EXCEPT !.totals = Totals!WithChild(@, Totals!TheUsage)]
           g == Totals!Advanced(f, Totals!TheUsage, memo[child])
<1>1. IsCall(Totals!Top) /\ Totals!Top = calls[Len(calls)] /\ Len(calls) \in 1..Len(calls)
  BY TopCall
<1>2. /\ Totals!MoreUses /\ child \notin visiting /\ child \in DOMAIN memo
      /\ calls' = [calls EXCEPT ![Len(calls)] = g]
      /\ UNCHANGED <<call, memo, visiting, result>>
  BY DEF Totals!UseMemo
<1>3. child \in Walked /\ child # call.root
  <2>1. call.root \in visiting
    BY <1>2, NextUsage
  <2> QED
    BY <1>2, <2>1 DEF Walked
<1>4. IsListing(old) /\ ListsMet(Totals!Top)
  BY <1>1 DEF IsCall, CoverInv, Known, ListsMet
<1>5. IsListing(memo[child]) /\ Listing(memo[child]) \subseteq Walked \ {call.root}
  BY <1>2 DEF CoverInv, Known
<1>6. IsListing(more) /\ Listing(more) = Listing(old) \cup {child}
  <2>1. more = Totals!Add(old, line) /\ "definition" \in DOMAIN line /\ line.definition = child
    BY DEF Totals!WithChild
  <2> HIDE DEF child, old, line, more
  <2> QED
    BY <1>4, <2>1, AddLists
<1>7. /\ IsCall(f) /\ f.definition = Totals!Top.definition /\ f.next = Totals!Top.next
      /\ f.totals = more
  BY <1>1, <1>6 DEF IsCall
<1> HIDE DEF f, more
<1>8. /\ Moved(f, g)
      /\ Listing(g.totals) = Listing(f.totals) \cup Listing(memo[child])
  BY <1>5, <1>7, AdvancedCall
<1> HIDE DEF g
<1>9. Moved(Totals!Top, g) /\ ListsMet(g)
  BY <1>3, <1>4, <1>5, <1>6, <1>7, <1>8 DEF Moved, ListsMet
<1> QED
  BY <1>2, <1>3, <1>9, TopMoved DEF child

LEMMA NewFrame ==
  ASSUME NEW d
  PROVE  /\ IsCall(Totals!Frame(d)) /\ Totals!Frame(d).definition = d
         /\ Totals!Frame(d).next = 1 /\ Listing(Totals!Frame(d).totals) = {}
<1> DEFINE f == Totals!Frame(d)
<1>1. f = [definition |-> d, next |-> 1, totals |-> << >>]
  BY DEF Totals!Frame
<1>2. IsListing(<< >>) /\ Listing(<< >>) = {}
  <2>1. IsSequence(<< >>) /\ Len(<< >>) = 0 /\ 1..0 = {}
    BY ShortSequences
  <2> QED
    BY <2>1 DEF IsListing, Listing
<1>3. DOMAIN f = {"definition", "next", "totals"} /\ f.definition = d /\ f.next = 1 /\ f.totals = << >>
  BY <1>1
<1> HIDE DEF f
<1>4. IsCall(f)
  BY <1>2, <1>3 DEF IsCall
<1> QED
  BY <1>2, <1>3, <1>4 DEF f

LEMMA CoverDescend ==
  ASSUME CoverInv, Totals!Descend
  PROVE  Known' /\ Nested' /\ Noted' /\ Seen' /\ Finished'
<1> DEFINE child == Totals!TheUsage.child
           old == Totals!Top.totals
           line == [definition |-> child, quantity |-> Totals!Quantity(Totals!TheUsage)]
           more == Totals!WithChild(old, Totals!TheUsage)
           f == [Totals!Top EXCEPT !.totals = Totals!WithChild(@, Totals!TheUsage)]
           s == call.structure
           root == call.root
<1>1. PICK n \in Nat \ {0} : n = Len(calls)
  BY TopCall
<1>2. /\ DOMAIN calls = 1..n /\ Totals!Top = calls[n] /\ IsSequence(calls) /\ n \in 1..n
      /\ IsCall(Totals!Top) /\ Len(Totals!Uses) \in Nat
      /\ Totals!Uses = ChildUsages(s, Totals!Top.definition)
      /\ Totals!Top.definition \in UnderWay
  BY <1>1, TopCall DEF CoverInv, WalkInv
<1>3. /\ Totals!MoreUses /\ child \notin visiting /\ child \notin DOMAIN memo /\ ~result.done
      /\ n <= MAX_ASSEMBLY_DEPTH /\ Totals!Top.next <= Len(Totals!Uses)
      /\ calls' = Append([calls EXCEPT ![n].totals = Totals!WithChild(@, Totals!TheUsage)],
                         Totals!Frame(child))
      /\ UNCHANGED <<call, memo, result>>
  BY <1>1 DEF Totals!Descend, Totals!MoreUses
<1>4. child # root /\ child \in Below(s, root)
      /\ child = ChildOf(s, Totals!Top.definition, Totals!Top.next)
  BY <1>3, NextUsage
<1>5. IsListing(old) /\ Listing(old) \subseteq Walked \ {root}
  BY <1>1, <1>2 DEF IsCall, CoverInv, Known
<1>6. IsListing(more) /\ Listing(more) = Listing(old) \cup {child}
  <2>1. more = Totals!Add(old, line) /\ "definition" \in DOMAIN line /\ line.definition = child
    BY DEF Totals!WithChild
  <2> HIDE DEF child, old, line, more
  <2> QED
    BY <1>5, <2>1, AddLists
<1>7. /\ IsCall(f) /\ f.definition = calls[n].definition /\ f.next = calls[n].next /\ f.totals = more
  BY <1>2, <1>6 DEF IsCall
<1> DEFINE below == [calls EXCEPT ![n] = f]
<1>8. calls' = Append(below, Totals!Frame(child))
  BY <1>2, <1>3
<1> HIDE DEF f, more, child, old
<1>9. /\ IsSequence(calls') /\ Len(calls') = n + 1
      /\ \A i \in 1..n : calls'[i] = IF i = n THEN f ELSE calls[i]
      /\ calls'[n + 1] = Totals!Frame(child)
  <2>1. /\ below = [i \in DOMAIN calls |-> below[i]]
        /\ \A i \in 1..n : below[i] = IF i = n THEN f ELSE calls[i]
    BY <1>2
  <2> HIDE DEF below
  <2>2. IsSequence(below) /\ Len(below) = n
    BY <1>1, <1>2, <2>1, SameDomainSequence
  <2> QED
    BY <1>8, <2>1, <2>2, AppendSequence
<1>10. /\ \A i \in 1..n : calls'[i].definition = calls[i].definition
       /\ calls'[n + 1].definition = child
  BY <1>7, <1>9, NewFrame
<1>11. \A i \in 1..n + 1 : i \in 1..n \/ i = n + 1
  OBVIOUS
<1>12. Walked' = Walked \cup {child}
  <2>1. UnderWay' = {calls'[i].definition : i \in 1..n + 1}
    BY <1>9 DEF UnderWay
  <2>2. UnderWay = {calls[i].definition : i \in 1..n}
    BY <1>1 DEF UnderWay
  <2>3. UnderWay' = UnderWay \cup {child}
    BY <1>10, <1>11, <2>1, <2>2
  <2> QED
    BY <1>3, <2>3 DEF Walked
<1>13. \A i \in 1..n : IsCall(calls[i]) /\ Listing(calls[i].totals) \subseteq Walked \ {root}
  BY <1>1 DEF CoverInv, Known
<1>14. \A i \in 1..n + 1 : IsCall(calls'[i]) /\ Listing(calls'[i].totals) \subseteq Walked' \ {root}
  <2>1. IsCall(f) /\ Listing(f.totals) \subseteq Walked' \ {root}
    BY <1>4, <1>5, <1>6, <1>7, <1>12
  <2>2. \A i \in 1..n : IsCall(calls'[i]) /\ Listing(calls'[i].totals) \subseteq Walked' \ {root}
    BY <1>9, <1>12, <1>13, <2>1
  <2>3. IsCall(calls'[n + 1]) /\ Listing(calls'[n + 1].totals) \subseteq Walked' \ {root}
    BY <1>9, NewFrame
  <2> QED
    BY <1>11, <2>2, <2>3
<1>15. \A i \in 1..n : Listing(calls[i].totals) \subseteq Listing(calls'[i].totals)
  BY <1>2, <1>6, <1>7, <1>9 DEF old
<1>16. Known'
  <2>1. Walked' \subseteq {call'.root} \cup Below(call'.structure, call'.root)
    BY <1>3, <1>4, <1>12 DEF CoverInv, Known
  <2>2. \A d \in DOMAIN memo' : IsListing(memo'[d]) /\ Listing(memo'[d]) \subseteq Walked' \ {call'.root}
    BY <1>3, <1>12 DEF CoverInv, Known
  <2>3. call' \in Requests
    BY <1>3 DEF CoverInv, Known
  <2> QED
    BY <1>3, <1>9, <1>14, <2>1, <2>2, <2>3 DEF Known
<1>17. Nested'
  <2>1. calls'[1].definition = call'.root
    <3>1. 1 \in 1..n
      OBVIOUS
    <3> QED
      BY <1>3, <1>10, <3>1 DEF CoverInv, Nested
  <2>2. ASSUME NEW i \in 1..n
        PROVE  Waits(call'.structure, calls'[i], calls'[i + 1].definition)
    <3>1. CASE i = n
      <4>1. calls'[i] = f /\ calls'[i + 1].definition = child
        BY <1>9, <1>10, <3>1
      <4>2. Waits(s, f, child)
        BY <1>2, <1>3, <1>4, <1>6, <1>7 DEF Waits
      <4> QED
        BY <1>3, <4>1, <4>2
    <3>2. CASE i # n
      <4>1. i \in 1..n - 1 /\ i + 1 \in 1..n
        BY <3>2
      <4>2. Waits(s, calls[i], calls[i + 1].definition)
        BY <1>1, <4>1 DEF CoverInv, Nested
      <4>3. calls'[i] = calls[i] /\ calls'[i + 1].definition = calls[i + 1].definition
        BY <1>9, <1>10, <3>2, <4>1
      <4> QED
        BY <1>3, <4>2, <4>3
    <3> QED
      BY <3>1, <3>2
  <2>3. \A i \in 1..Len(calls') - 1 : i \in 1..n
    BY <1>9
  <2> QED
    BY <2>1, <2>2, <2>3 DEF Nested
<1>18. Noted'
  <2>1. \A d \in DOMAIN memo' \ {call'.root} : \E i \in 1..n : d \in Listing(calls[i].totals)
    BY <1>1, <1>3 DEF CoverInv, Noted
  <2>2. \A i \in 1..n : i \in 1..Len(calls')
    BY <1>9
  <2> QED
    BY <1>15, <2>1, <2>2 DEF Noted
<1>19. Seen'
  <2>1. \A i \in 1..n : calls'[i].next = calls[i].next
    BY <1>7, <1>9
  <2>2. \A i \in 1..n : \A k \in 1..calls'[i].next - 1 :
           ChildOf(call'.structure, calls'[i].definition, k) \in Walked'
    BY <1>1, <1>3, <1>10, <1>12, <2>1 DEF CoverInv, Seen
  <2>3. \A k \in 1..calls'[n + 1].next - 1 :
           ChildOf(call'.structure, calls'[n + 1].definition, k) \in Walked'
    <3>1. calls'[n + 1].next = 1 /\ 1..1 - 1 = {}
      BY <1>9, NewFrame
    <3> QED
      BY <3>1
  <2>4. Totals!Shallow' = Totals!Shallow
    BY <1>3 DEF Totals!Shallow, Totals!structure
  <2>5. Totals!Shallow' => \A d \in DOMAIN memo' : Children(call'.structure, {d}) \subseteq Walked'
    BY <1>3, <1>12, <2>4 DEF CoverInv, Seen
  <2> QED
    BY <1>9, <1>11, <2>2, <2>3, <2>5 DEF Seen
<1>20. Finished'
  BY <1>3 DEF Finished
<1> QED
  BY <1>16, <1>17, <1>18, <1>19, <1>20

(* A call below another is for one of its components.                        *)
LEMMA CallsNest ==
  ASSUME CoverInv, NEW i \in 1..Len(calls) - 1
  PROVE  calls[i + 1].definition \in Children(call.structure, {calls[i].definition})
<1>1. PICK n \in Nat \ {0} : n = Len(calls)
  BY TopCall
<1>2. i \in 1..n /\ i + 1 \in 1..n
  BY <1>1
<1>3. Waits(call.structure, calls[i], calls[i + 1].definition) /\ IsCall(calls[i])
  BY <1>1, <1>2 DEF CoverInv, Nested, Known
<1>4. calls[i].definition \in UnderWay
  BY <1>1, <1>2 DEF UnderWay
<1>5. calls[i].definition \in Definitions(call.structure) /\ IsStructure(call.structure)
  BY <1>4, TopCall, MetBelow DEF CoverInv, Known, Walked
<1> QED
  BY <1>3, <1>5, UsesAre DEF Waits, IsCall

(* The call too deep to look at its usages: in a shallow structure each of   *)
(* them leads back to a call under way.                                    *)
LEMMA DeepestCall ==
  ASSUME CoverInv, Len(calls) = MAX_ASSEMBLY_DEPTH + 1, Totals!Shallow,
         NEW c \in Children(call.structure, {Totals!Top.definition})
  PROVE  c \in UnderWay
<1> DEFINE m == MAX_ASSEMBLY_DEPTH
           s == call.structure
           root == call.root
           p == [i \in 1..m + 1 |-> IF i <= m THEN calls[i + 1].definition ELSE c]
<1>1. SUFFICES ASSUME c \notin UnderWay PROVE FALSE
  OBVIOUS
<1>2. m \in Nat \ {0} /\ IsStructure(s) /\ root \in Definitions(s)
  BY LimitsAssumption, TopCall
<1>3. \A i \in 1..m + 1 : calls[i].definition \in UnderWay
  BY DEF UnderWay
<1>4. \A i \in 1..m + 1 : calls[i].definition \in Definitions(s)
  BY <1>2, <1>3, MetBelow DEF CoverInv, Known, Walked
<1>5. calls[1].definition = root
  BY DEF CoverInv, Nested
<1>6. \A i, j \in 1..m + 1 : calls[i].definition = calls[j].definition => i = j
  BY DEF CoverInv, WalkInv
<1>7. c \in Definitions(s) /\ Totals!Top.definition = calls[m + 1].definition
  <2>1. Totals!Top.definition = calls[m + 1].definition
    BY TopCall
  <2>2. Below(s, root) \subseteq Definitions(s)
    BY <1>2, BelowClosed
  <2> QED
    BY <2>1, <2>2, TopCall
<1>8. \A i \in 1..m : i \in 1..m + 1 /\ i + 1 \in 1..m + 1 /\ i + 1 # 1 /\ i <= m
      /\ p[i] = calls[i + 1].definition
  BY <1>2
<1>9. p[m + 1] = c /\ 1 \in 1..m + 1 /\ \A i \in 1..m + 1 : i \in 1..m \/ i = m + 1
  BY <1>2
<1>10. DOMAIN p = 1..m + 1 /\ p = [i \in 1..m + 1 |-> p[i]]
  OBVIOUS
<1> HIDE DEF p, m, s, root
<1>11. \A i \in 1..m + 1 : p[i] \in Definitions(s) \ {root}
  BY <1>1, <1>3, <1>4, <1>5, <1>6, <1>7, <1>8, <1>9
<1>12. p \in [1..m + 1 -> Definitions(s) \ {root}]
  BY <1>10, <1>11
<1>13. \A i, j \in 1..m + 1 : p[i] = p[j] => i = j
  <2> SUFFICES ASSUME NEW i \in 1..m + 1, NEW j \in 1..m + 1, p[i] = p[j]
               PROVE  i = j
    OBVIOUS
  <2>1. CASE i \in 1..m /\ j \in 1..m
    <3>1. i + 1 = j + 1
      BY <1>6, <1>8, <2>1
    <3> QED
      BY <1>2, <2>1, <3>1
  <2>2. CASE i \in 1..m /\ j \notin 1..m
    BY <1>1, <1>3, <1>8, <1>9, <2>2
  <2>3. CASE i \notin 1..m /\ j \in 1..m
    BY <1>1, <1>3, <1>8, <1>9, <2>3
  <2>4. CASE i \notin 1..m /\ j \notin 1..m
    BY <1>9, <2>4
  <2> QED
    BY <2>1, <2>2, <2>3, <2>4
<1>14. ASSUME NEW i \in 1..m + 1
       PROVE  p[i] \in Children(s, {IF i = 1 THEN root ELSE p[i - 1]})
  <2>1. (IF i = 1 THEN root ELSE p[i - 1]) = calls[i].definition
    <3>1. CASE i = 1
      BY <1>5, <3>1
    <3>2. CASE i # 1
      <4>1. i - 1 \in 1..m /\ (i - 1) + 1 = i
        BY <1>2, <3>2
      <4> QED
        BY <1>8, <3>2, <4>1
    <3> QED
      BY <3>1, <3>2
  <2>2. p[i] \in Children(s, {calls[i].definition})
    <3>1. CASE i \in 1..m
      <4>1. i \in 1..Len(calls) - 1
        BY <1>2, <3>1 DEF m
      <4> QED
        BY <1>8, <3>1, <4>1, CallsNest DEF s
    <3>2. CASE i = m + 1
      BY <1>7, <1>9, <3>2 DEF s
    <3> QED
      BY <1>9, <3>1, <3>2
  <2> QED
    BY <2>1, <2>2
<1>15. ~Totals!Shallow
  <2>1. ~Totals!IsShallow(s, root, m)
    BY <1>12, <1>13, <1>14 DEF Totals!IsShallow, Totals!Definitions, Definitions, Totals!Children, Children,
                               Totals!ToSet, ToSet
  <2> QED
    BY <2>1 DEF Totals!Shallow, Totals!structure, s, root, m
<1> QED
  BY <1>15

(* A call that returns has met every component of its definition.            *)
LEMMA ReturnHasSeen ==
  ASSUME CoverInv, ~Totals!MoreUses, ~result.done, Totals!Shallow
  PROVE  Children(call.structure, {Totals!Top.definition}) \subseteq Walked
<1>1. PICK n \in Nat \ {0} : n = Len(calls)
  BY TopCall
<1>2. n \in 1..MAX_ASSEMBLY_DEPTH + 1 /\ MAX_ASSEMBLY_DEPTH \in Nat
  BY <1>1, LimitsAssumption DEF CoverInv, WalkInv
<1>3. CASE n <= MAX_ASSEMBLY_DEPTH
  <2>1. Totals!Top = calls[n] /\ n \in 1..n /\ Totals!Top.next \in Nat /\ Len(Totals!Uses) \in Nat
    BY <1>1, TopCall DEF IsCall
  <2>2. ~(Totals!Top.next <= Len(Totals!Uses))
    BY <1>1, <1>3 DEF Totals!MoreUses
  <2>3. \A k \in 1..Len(Totals!Uses) : k \in 1..Totals!Top.next - 1
    BY <2>1, <2>2
  <2>4. \A k \in 1..Totals!Top.next - 1 :
          ChildOf(call.structure, Totals!Top.definition, k) \in Walked
    BY <1>1, <2>1 DEF CoverInv, Seen
  <2>5. \A k \in 1..Len(Totals!Uses) : ChildOf(call.structure, Totals!Top.definition, k) \in Walked
    BY <2>3, <2>4
  <2>6. Children(call.structure, {Totals!Top.definition})
          = {ChildOf(call.structure, Totals!Top.definition, k) : k \in 1..Len(Totals!Uses)}
    BY TopCall
  <2> QED
    BY <2>5, <2>6
<1>4. CASE n = MAX_ASSEMBLY_DEPTH + 1
  BY <1>1, <1>4, DeepestCall DEF Walked
<1> QED
  BY <1>2, <1>3, <1>4

LEMMA CoverReturn ==
  ASSUME CoverInv, Totals!Return
  PROVE  Known' /\ Nested' /\ Noted' /\ Seen' /\ Finished'
<1> DEFINE d == Totals!Top.definition
           lines == Totals!Top.totals
           s == call.structure
           root == call.root
<1>1. PICK n \in Nat \ {0} : n = Len(calls)
  BY TopCall
<1>2. /\ DOMAIN calls = 1..n /\ Totals!Top = calls[n] /\ IsSequence(calls) /\ n \in 1..n
      /\ IsCall(Totals!Top) /\ d \in UnderWay
  BY <1>1, TopCall DEF CoverInv, WalkInv
<1>3. IsListing(lines) /\ Listing(lines) \subseteq Walked \ {root}
  BY <1>1, <1>2 DEF IsCall, CoverInv, Known
<1>4. /\ ~result.done /\ ~Totals!MoreUses /\ call' = call
      /\ memo' = [e \in DOMAIN memo \cup {d} |-> IF e = d THEN lines ELSE memo[e]]
  BY DEF Totals!Return, Totals!Remember
<1> HIDE DEF lines
<1>5. /\ DOMAIN memo' = DOMAIN memo \cup {d}
      /\ \A e \in DOMAIN memo' : memo'[e] = IF e = d THEN lines ELSE memo[e]
  BY <1>4
<1>6. \A e \in DOMAIN memo' : IsListing(memo'[e]) /\ Listing(memo'[e]) \subseteq Walked \ {root}
  <2>1. \A e \in DOMAIN memo : IsListing(memo[e]) /\ Listing(memo[e]) \subseteq Walked \ {root}
    BY DEF CoverInv, Known
  <2> QED
    BY <1>3, <1>5, <2>1
<1>7. Totals!Shallow' => \A e \in DOMAIN memo' : Children(s, {e}) \subseteq Walked
  <2>1. Totals!Shallow' = Totals!Shallow
    BY <1>4 DEF Totals!Shallow, Totals!structure
  <2>2. Totals!Shallow => \A e \in DOMAIN memo : Children(s, {e}) \subseteq Walked
    BY DEF CoverInv, Seen
  <2>3. Totals!Shallow => Children(s, {d}) \subseteq Walked
    BY <1>4, ReturnHasSeen
  <2> QED
    BY <1>5, <2>1, <2>2, <2>3
<1>8. CASE n = 1
  <2>1. calls' = calls /\ result' = [lines |-> lines, done |-> TRUE]
    BY <1>1, <1>8 DEF Totals!Return, lines
  <2>2. UnderWay' = UnderWay
    BY <2>1 DEF UnderWay
  <2>3. Walked' = Walked
    BY <1>2, <1>5, <2>2 DEF Walked
  <2>4. d = root
    BY <1>2, <1>8 DEF CoverInv, Nested
  <2>5. Known'
    BY <1>4, <1>6, <2>1, <2>3 DEF CoverInv, Known
  <2>6. Nested'
    BY <1>4, <2>1 DEF CoverInv, Nested
  <2>7. Noted'
    BY <1>4, <1>5, <2>1, <2>4 DEF CoverInv, Noted
  <2>8. Seen'
    <3>1. \A i \in 1..Len(calls') : \A k \in 1..calls'[i].next - 1 :
            ChildOf(call'.structure, calls'[i].definition, k) \in Walked'
      BY <1>4, <2>1, <2>3 DEF CoverInv, Seen
    <3> QED
      BY <1>4, <1>7, <2>3, <3>1 DEF Seen
  <2>9. Finished'
    BY <1>1, <1>2, <1>4, <1>5, <1>8, <2>1, <2>4 DEF Finished, lines
  <2> QED
    BY <2>5, <2>6, <2>7, <2>8, <2>9
<1>9. CASE n # 1
  <2>0. PICK m \in Nat \ {0} : n = m + 1 /\ n - 1 = m
    BY <1>9
  <2>1. /\ m \in 1..n /\ m \in 1..m /\ 1..m \subseteq 1..n /\ n \notin 1..m
        /\ \A i \in 1..n : i \in 1..m \/ i = n
        /\ \A i \in 1..m - 1 : i \in 1..m /\ i # m
        /\ m \in 1..n - 1
    BY <2>0
  <2> DEFINE front == Front(calls)
  <2>2. PICK usage : calls' = [front EXCEPT ![m] = Totals!Advanced(calls[m], usage, lines)]
    BY <1>1, <1>9, <2>0 DEF Totals!Return, Totals!Front, Front, lines
  <2>3. result' = result
    BY <1>1, <1>9 DEF Totals!Return
  <2> DEFINE g == Totals!Advanced(calls[m], usage, lines)
  <2>4. IsSequence(front) /\ Len(front) = m /\ \A i \in 1..m : front[i] = calls[i]
    BY <1>1, <1>2, <2>0, FrontSequence
  <2> HIDE DEF front, g
  <2>5. Len(calls') = m /\ calls'[m] = g /\ \A i \in 1..m - 1 : calls'[i] = calls[i]
    <3>1. DOMAIN front = 1..m
      BY <2>4, SequenceOf
    <3>2. /\ calls' = [i \in DOMAIN front |-> calls'[i]]
          /\ \A i \in 1..m : calls'[i] = IF i = m THEN g ELSE front[i]
      BY <2>2, <3>1 DEF g
    <3>3. Len(calls') = m
      BY <2>4, <3>2, SameDomainSequence
    <3> QED
      BY <2>1, <2>4, <3>2, <3>3
  <2>6. IsCall(calls[m]) /\ Listing(calls[m].totals) \subseteq Walked \ {root}
    BY <1>1, <2>1 DEF CoverInv, Known
  <2>7. Moved(calls[m], g) /\ Listing(g.totals) = Listing(calls[m].totals) \cup Listing(lines)
    BY <1>3, <2>6, AdvancedCall DEF g
  <2>8. ListsMet(g)
    BY <1>3, <2>6, <2>7 DEF ListsMet
  <2>9. Waits(s, calls[m], d)
    BY <1>1, <1>2, <2>0, <2>1 DEF CoverInv, Nested
  <2>10. Walked' = Walked
    <3>1. \A i \in 1..m : calls'[i].definition = calls[i].definition
      <4>1. calls'[m].definition = calls[m].definition
        BY <2>5, <2>7 DEF Moved
      <4>2. \A i \in 1..m : i = m \/ i \in 1..m - 1
        BY <2>0
      <4> QED
        BY <2>5, <4>1, <4>2
    <3>2. UnderWay' = {calls[i].definition : i \in 1..m}
      BY <2>5, <3>1 DEF UnderWay
    <3>3. UnderWay = {calls[i].definition : i \in 1..n}
      BY <1>1 DEF UnderWay
    <3>4. UnderWay = UnderWay' \cup {d}
      BY <1>2, <2>1, <3>2, <3>3
    <3> QED
      BY <1>5, <3>4 DEF Walked
  <2>11. ChildOf(s, calls[m].definition, calls[m].next) \in Walked
    BY <1>2, <2>9 DEF Waits, Walked
  <2>12. /\ \A i \in 1..Len(calls') :
              IsCall(calls'[i]) /\ Listing(calls'[i].totals) \subseteq Walked' \ {call'.root}
         /\ Nested'
         /\ \A i \in 1..Len(calls') : \A k \in 1..calls'[i].next - 1 :
              ChildOf(call'.structure, calls'[i].definition, k) \in Walked'
         /\ \A i \in 1..m : Listing(calls[i].totals) \subseteq Listing(calls'[i].totals)
    <3>1. m \in 1..Len(calls) /\ Moved(calls[m], calls'[m]) /\ ListsMet(calls'[m])
      BY <1>1, <2>1, <2>5, <2>7, <2>8
    <3> QED
      BY <1>4, <2>5, <2>10, <2>11, <3>1, CallsMoved
  <2>13. Known'
    <3>1. call' \in Requests /\ Walked' \subseteq {call'.root} \cup Below(call'.structure, call'.root)
      BY <1>4, <2>10 DEF CoverInv, Known
    <3> QED
      BY <1>4, <1>6, <2>10, <2>12, <3>1 DEF Known
  <2>14. Noted'
    <3>1. ASSUME NEW e \in DOMAIN memo' \ {call'.root}
          PROVE  \E i \in 1..m : e \in Listing(calls'[i].totals)
      <4>1. CASE e = d
        <5>1. d \in Listing(calls[m].totals)
          BY <2>9 DEF Waits
        <5> QED
          BY <2>1, <2>12, <4>1, <5>1
      <4>2. CASE e # d
        <5>1. e \in DOMAIN memo \ {root}
          BY <1>4, <1>5, <4>2
        <5>2. PICK i \in 1..n : e \in Listing(calls[i].totals)
          BY <1>1, <5>1 DEF CoverInv, Noted
        <5>3. CASE i = n
          <6>1. e \in Listing(lines)
            BY <1>2, <5>2, <5>3 DEF lines
          <6> QED
            BY <2>1, <2>5, <2>7, <6>1
        <5>4. CASE i \in 1..m
          BY <2>12, <5>2, <5>4
        <5> QED
          BY <2>1, <5>3, <5>4
      <4> QED
        BY <4>1, <4>2
    <3> QED
      BY <2>5, <3>1 DEF Noted
  <2>15. Seen'
    BY <1>4, <1>7, <2>10, <2>12 DEF Seen
  <2>16. Finished'
    BY <1>4, <2>3 DEF Finished
  <2> QED
    BY <2>12, <2>13, <2>14, <2>15, <2>16
<1> QED
  BY <1>8, <1>9

LEMMA CoverInvImpliesListed == CoverInv => EveryComponentListed
<1> SUFFICES ASSUME CoverInv, result.done, Totals!Shallow
             PROVE  /\ {result.lines[i].definition : i \in DOMAIN result.lines}
                         = Below(call.structure, call.root) \ {call.root}
                    /\ \A i, j \in DOMAIN result.lines :
                         result.lines[i].definition = result.lines[j].definition => i = j
  BY DEF EveryComponentListed, Totals!EveryComponentListed, Totals!structure, Totals!Below, Below,
         Totals!Children, Children, Totals!ToSet, ToSet
<1> DEFINE s == call.structure
           root == call.root
           W == DOMAIN memo
<1>1. Len(calls) = 1 /\ root \in W /\ result.lines = calls[1].totals
  BY DEF CoverInv, Finished
<1>2. IsListing(result.lines) /\ Listing(result.lines) \subseteq Walked \ {root}
  BY <1>1 DEF CoverInv, Known, IsCall
<1>3. DOMAIN result.lines = 1..Len(result.lines)
  BY <1>2, SequenceOf DEF IsListing
<1>4. Walked = W
  <2>1. UnderWay = {root}
    BY <1>1 DEF CoverInv, Nested, UnderWay
  <2> QED
    BY <1>1, <2>1 DEF Walked
<1>5. Children(s, W) \subseteq W
  <2>1. \A e \in W : Children(s, {e}) \subseteq W
    BY <1>4 DEF CoverInv, Seen
  <2> HIDE DEF W, s
  <2> QED
    BY <2>1 DEF Children
<1>6. Below(s, root) \subseteq W
  <2>1. s.definitions \in Nat
    BY TopCall DEF IsStructure
  <2> HIDE DEF W, s, root
  <2> QED
    BY <1>1, <1>5, <2>1, BelowLeast
<1>7. W \ {root} \subseteq Listing(result.lines)
  BY <1>1 DEF CoverInv, Noted
<1>8. Walked \subseteq {root} \cup Below(s, root)
  BY DEF CoverInv, Known
<1>9. {result.lines[i].definition : i \in DOMAIN result.lines} = Listing(result.lines)
  BY <1>3 DEF Listing
<1>10. \A i, j \in DOMAIN result.lines :
         result.lines[i].definition = result.lines[j].definition => i = j
  BY <1>2, <1>3 DEF IsListing
<1> QED
  BY <1>2, <1>4, <1>6, <1>7, <1>8, <1>9, <1>10

LEMMA CoverStart == Init => CoverInv
<1> SUFFICES ASSUME Init
             PROVE  CoverInv
  OBVIOUS
<1> DEFINE root == call.root
<1>1. /\ calls = <<Totals!Frame(root)>> /\ memo = << >> /\ visiting = {root} /\ ~result.done
      /\ call \in Requests
  BY DEF Init, Totals!Init
<1>2. IsSequence(calls) /\ Len(calls) = 1 /\ calls[1] = Totals!Frame(root)
  BY <1>1, ShortSequences
<1>3. /\ IsCall(calls[1]) /\ calls[1].definition = root /\ calls[1].next = 1
      /\ Listing(calls[1].totals) = {}
  BY <1>2, NewFrame
<1>4. \A i \in 1..Len(calls) : i = 1
  BY <1>2
<1>5. UnderWay = {root} /\ DOMAIN memo = {} /\ Walked = {root}
  <2>1. UnderWay = {root}
    BY <1>2, <1>3 DEF UnderWay
  <2>2. DOMAIN memo = {}
    BY <1>1
  <2> QED
    BY <2>1, <2>2 DEF Walked
<1>6. WalkInv
  <2>1. IsFrame(calls[1])
    BY <1>3 DEF IsCall, IsFrame
  <2> QED
    BY <1>1, <1>2, <1>3, <1>5, <2>1, LimitsAssumption DEF WalkInv
<1>7. Known
  BY <1>1, <1>3, <1>4, <1>5 DEF Known
<1>8. Nested
  <2>1. 1..Len(calls) - 1 = {}
    BY <1>2
  <2> QED
    BY <1>3, <2>1 DEF Nested
<1>9. Noted /\ Finished
  BY <1>1, <1>5 DEF Noted, Finished
<1>10. Seen
  <2>1. 1..calls[1].next - 1 = {}
    BY <1>3
  <2> QED
    BY <1>4, <1>5, <2>1 DEF Seen
<1> QED
  BY <1>6, <1>7, <1>8, <1>9, <1>10 DEF CoverInv

LEMMA CoverStep == CoverInv /\ [Next]_vars => CoverInv'
<1> SUFFICES ASSUME CoverInv, [Next]_vars
             PROVE  CoverInv'
  OBVIOUS
<1>1. CASE ListTotals
  <2>1. WalkInv' /\ Totals!Next
    BY <1>1, WalkInvTotals DEF ListTotals, CoverInv
  <2>2. Known' /\ Nested' /\ Noted' /\ Seen' /\ Finished'
    BY <2>1, CoverSkip, CoverMemo, CoverDescend, CoverReturn DEF Totals!Next
  <2> QED
    BY <2>1, <2>2 DEF CoverInv
<1>2. CASE ListTree \/ UNCHANGED vars
  <2>1. UNCHANGED <<calls, memo, visiting, result>>
    BY <1>2 DEF ListTree, vars, totalsVars
  <2>2. call' = call
    BY <1>2 DEF ListTree, vars, Tree!Next, Tree!Begin, Tree!AddComponent, Tree!BreakOff, Tree!Complete
  <2>3. UnderWay' = UnderWay /\ Walked' = Walked
    BY <2>1 DEF UnderWay, Walked
  <2>4. Totals!Shallow' = Totals!Shallow
    BY <2>2 DEF Totals!Shallow, Totals!structure
  <2>5. WalkInv' /\ Known' /\ Nested'
    BY <2>1, <2>2, <2>3 DEF CoverInv, WalkInv, Known, Nested
  <2>6. Noted' /\ Seen' /\ Finished'
    BY <2>1, <2>2, <2>3, <2>4 DEF CoverInv, Noted, Seen, Finished
  <2> QED
    BY <2>5, <2>6 DEF CoverInv
<1> QED
  BY <1>1, <1>2 DEF Next

(* The flat list has one line for every definition below its root, and for   *)
(* no other: an ignored usage of an ancestor never hides a component, nor   *)
(* does a memo, as long as nothing is deeper than MAX_ASSEMBLY_DEPTH        *)
(* (bill_of_materials and totals of src/src/model/assembly.rs).             *)
THEOREM ComponentsListedOnce == Spec => []EveryComponentListed
BY CoverStart, CoverStep, CoverInvImpliesListed, PTL DEF Spec

-----------------------------------------------------------------------------
(* What PathTotal is: the least of it is a recursive function over pairs of  *)
(* a definition and the set of those above it, which ends because no path    *)
(* enters a definition twice.                                              *)

(* Which pairs PathTotal looks at, and its fold over the usages of one.      *)
Ways(s) == Definitions(s) \X SUBSET Definitions(s)

WithUse(s, x, g, above, sum, k) ==
  LET u == s.usages[k]
  IN  IF u.child \in above THEN sum
      ELSE sum + Quantity(u) * ((IF u.child = x THEN 1 ELSE 0) + g[<<u.child, above>>])

TotalOfUses(s, x, g, above, uses) == FoldLeft(LAMBDA sum, k : WithUse(s, x, g, above, sum, k), 0, uses)

ByUses(s, x, g, p) == TotalOfUses(s, x, g, p[2] \cup {p[1]}, ChildUsages(s, p[1]))

Under(s, x) == CHOOSE g : g = [p \in Ways(s) |-> ByUses(s, x, g, p)]

LEMMA PathTotalUnder ==
  ASSUME NEW s, NEW r, NEW x
  PROVE  PathTotal(s, r, x) = Under(s, x)[<<r, {}>>]
BY DEF PathTotal, Under, ByUses, TotalOfUses, WithUse, Ways

Weighs(sum, s, x, g, above, uses, n) ==
  /\ sum[0] = 0
  /\ \A m \in 1..n : sum[m] = WithUse(s, x, g, above, sum[m - 1], uses[m])

(* The fold over the usages, one usage at a time.                            *)
LEMMA UsesRecursion ==
  ASSUME NEW s, NEW x, NEW g, NEW above, NEW uses, NEW n \in Nat, DOMAIN uses = 1..n
  PROVE  \E sum : /\ Weighs(sum, s, x, g, above, uses, n)
                  /\ TotalOfUses(s, x, g, above, uses) = sum[n]
<1> DEFINE Step(sum, i) == WithUse(s, x, g, above, sum, uses[i])
           IsFold(f, m) == f = [S \in SUBSET (1..m) |->
                                  IF S = {} THEN 0 ELSE Step(f[S \ {Max(S)}], Max(S))]
           P == {m \in 0..n : \E f : IsFold(f, m)}
           Fold(D) == CHOOSE f : f = [S \in SUBSET D |->
                                        IF S = {} THEN 0 ELSE Step(f[S \ {Max(S)}], Max(S))]
           fold == Fold(1..n)
           value == TotalOfUses(s, x, g, above, uses)
<1>1. value = fold[1..n]
  <2>1. value = Fold(DOMAIN uses)[DOMAIN uses]
    BY DEF TotalOfUses, FoldLeft, MapThenFoldSet, Max
  <2> HIDE DEF Fold, value
  <2> QED
    BY <2>1
<1> HIDE DEF Step, value
<1>2. 0 \in P
  <2> DEFINE f == [S \in SUBSET (1..0) |-> 0]
  <2>1. 1..0 = {}
    OBVIOUS
  <2>2. IsFold(f, 0)
    BY <2>1
  <2> HIDE DEF f, IsFold
  <2> QED
    BY <2>2
<1>3. ASSUME NEW m \in 0..n - 1, m \in P
      PROVE  m + 1 \in P
  <2>1. PICK f : IsFold(f, m)
    BY <1>3
  <2>2. \A S \in SUBSET (1..m) : f[S] = IF S = {} THEN 0 ELSE Step(f[S \ {Max(S)}], Max(S))
    BY <2>1
  <2> DEFINE h == [S \in SUBSET (1..m + 1) |->
                     IF m + 1 \in S THEN Step(f[S \ {m + 1}], m + 1) ELSE f[S]]
  <2>3. ASSUME NEW S \in SUBSET (1..m + 1)
        PROVE  h[S] = IF S = {} THEN 0 ELSE Step(h[S \ {Max(S)}], Max(S))
    <3>1. CASE m + 1 \in S
      <4>1. Max(S) = m + 1
        <5>1. m + 1 \in S /\ \A y \in S : m + 1 >= y
          BY <3>1
        <5>2. Max(S) \in S /\ \A y \in S : Max(S) >= y
          BY <5>1 DEF Max
        <5>3. PICK y \in S : y = Max(S)
          BY <5>2
        <5>4. y \in Nat /\ y >= m + 1 /\ m + 1 >= y
          BY <5>1, <5>2, <5>3
        <5> QED
          BY <5>3, <5>4
      <4>2. S \ {m + 1} \in SUBSET (1..m + 1) /\ m + 1 \notin S \ {m + 1} /\ S # {}
        BY <3>1
      <4> QED
        BY <3>1, <4>1, <4>2
    <3>2. CASE m + 1 \notin S
      <4>1. S \in SUBSET (1..m)
        BY <3>2
      <4>2. S \ {Max(S)} \in SUBSET (1..m + 1) /\ m + 1 \notin S \ {Max(S)}
        BY <3>2
      <4>3. h[S] = f[S] /\ h[S \ {Max(S)}] = f[S \ {Max(S)}]
        BY <3>2, <4>2
      <4> HIDE DEF h
      <4> QED
        BY <2>2, <4>1, <4>3
    <3> QED
      BY <3>1, <3>2
  <2>4. IsFold(h, m + 1)
    BY <2>3
  <2>5. m + 1 \in 0..n
    OBVIOUS
  <2> HIDE DEF h, IsFold
  <2> QED
    BY <2>4, <2>5
<1>4. n \in P
  <2> HIDE DEF P
  <2>1. \A m \in 0..n - 1 : m \in P => m + 1 \in P
    BY <1>3
  <2>2. 0..n \subseteq P
    BY <1>2, <2>1, IntervalInduction
  <2> QED
    BY <2>2
<1>5. IsFold(fold, n)
  <2>1. fold = CHOOSE f : IsFold(f, n)
    OBVIOUS
  <2> HIDE DEF IsFold, Fold
  <2>2. \E f : IsFold(f, n)
    BY <1>4
  <2> QED
    BY <2>1, <2>2
<1> DEFINE sum == [m \in 0..n |-> fold[1..m]]
<1>6. \A S \in SUBSET (1..n) : fold[S] = IF S = {} THEN 0 ELSE Step(fold[S \ {Max(S)}], Max(S))
  <2> HIDE DEF fold
  <2> QED
    BY <1>5
<1> HIDE DEF fold, IsFold, P
<1>7. sum[0] = 0
  <2>1. 1..0 = {} /\ {} \in SUBSET (1..n) /\ 0 \in 0..n
    OBVIOUS
  <2> QED
    BY <1>6, <2>1
<1>8. ASSUME NEW m \in 1..n
      PROVE  sum[m] = Step(sum[m - 1], m)
  <2>1. 1..m \in SUBSET (1..n) /\ m \in 1..m /\ m - 1 \in 0..n /\ m \in 0..n
    OBVIOUS
  <2>2. Max(1..m) = m
    <3>1. m \in 1..m /\ \A y \in 1..m : m >= y
      OBVIOUS
    <3>2. Max(1..m) \in 1..m /\ \A y \in 1..m : Max(1..m) >= y
      BY <3>1 DEF Max
    <3>3. Max(1..m) \in Nat /\ Max(1..m) >= m /\ m >= Max(1..m)
      BY <3>1, <3>2
    <3> QED
      BY <3>3
  <2>3. (1..m) \ {m} = 1..m - 1
    OBVIOUS
  <2> QED
    BY <1>6, <2>1, <2>2, <2>3
<1>9. sum[n] = fold[1..n]
  OBVIOUS
<1> HIDE DEF sum
<1>10. Weighs(sum, s, x, g, above, uses, n)
  BY <1>7, <1>8 DEF Weighs, Step
<1> QED
  BY <1>1, <1>9, <1>10 DEF value

(* The usages of a definition: each of a component of its own.               *)
LEMMA UseAt ==
  ASSUME NEW s, IsStructure(s), NEW d \in Definitions(s)
  PROVE  /\ Len(ChildUsages(s, d)) \in Nat /\ DOMAIN ChildUsages(s, d) = 1..Len(ChildUsages(s, d))
         /\ \A k \in 1..Len(ChildUsages(s, d)) :
              /\ s.usages[ChildUsages(s, d)[k]] \in ToSet(s.usages)
              /\ s.usages[ChildUsages(s, d)[k]].child = ChildOf(s, d, k)
              /\ ChildOf(s, d, k) \in Children(s, {d})
              /\ ChildOf(s, d, k) \in Definitions(s)
<1> DEFINE places == {k \in DOMAIN s.usages : s.usages[k].parent = d}
           uses == ChildUsages(s, d)
<1>1. uses = InOrder(places)
  BY DEF ChildUsages, IsStructure, ChildrenByParent, Definitions
<1>2. IsSequence(s.usages) /\ places \subseteq DOMAIN s.usages
  BY DEF IsStructure
<1>3. places \subseteq Nat /\ IsFiniteSet(places)
  <2> HIDE DEF places
  <2> QED
    BY <1>2, PlacesFinite
<1> DEFINE c == Cardinality(places)
<1>4. c \in Nat /\ Len(uses) = c /\ DOMAIN uses = 1..c /\ \A k \in 1..c : uses[k] \in places
  <2> HIDE DEF places, uses
  <2> QED
    BY <1>1, <1>3, InOrderLists
<1>5. \A i \in places : s.usages[i] \in ToSet(s.usages)
  BY <1>2, SequenceOf DEF ToSet
<1> HIDE DEF places, uses, c
<1>6. Children(s, {d}) = {ChildOf(s, d, k) : k \in 1..Len(uses)}
  BY UsesAre DEF uses
<1>7. \A u \in ToSet(s.usages) : u.child \in Definitions(s)
  BY DEF IsStructure
<1> QED
  BY <1>4, <1>5, <1>6, <1>7 DEF ChildOf, uses

(* What is left to enter from a pair, and that it shrinks on the way down.   *)
Left(s, p) == Definitions(s) \ (p[2] \cup {p[1]})

LEMMA LeftShrinks ==
  ASSUME NEW s, s.definitions \in Nat, NEW p \in Ways(s), NEW c \in Left(s, p)
  PROVE  /\ <<c, p[2] \cup {p[1]}>> \in Ways(s)
         /\ Cardinality(Left(s, p)) \in 0..s.definitions
         /\ Cardinality(Left(s, <<c, p[2] \cup {p[1]}>>)) \in 0..s.definitions
         /\ Cardinality(Left(s, <<c, p[2] \cup {p[1]}>>)) < Cardinality(Left(s, p))
<1> DEFINE D == Definitions(s)
           q == <<c, p[2] \cup {p[1]}>>
           L == Left(s, p)
           M == Left(s, q)
<1>1. p[1] \in D /\ p[2] \subseteq D
  BY DEF Ways
<1>2. q \in Ways(s)
  BY <1>1 DEF Ways, Left
<1>3. M = L \ {c} /\ c \in L /\ L \subseteq D
  BY DEF Left
<1>4. IsFiniteSet(D) /\ Cardinality(D) = s.definitions
  <2> DEFINE n == s.definitions
  <2>1. n \in Nat
    OBVIOUS
  <2> HIDE DEF n
  <2>2. IsFiniteSet(1..n) /\ Cardinality(1..n) = IF 1 <= n THEN n - 1 + 1 ELSE 0
    BY <2>1, FS_Interval
  <2>3. (IF 1 <= n THEN n - 1 + 1 ELSE 0) = n
    BY <2>1
  <2> QED
    BY <2>2, <2>3 DEF n, Definitions
<1> HIDE DEF L, M, D, q
<1>5. /\ IsFiniteSet(L) /\ Cardinality(L) <= Cardinality(D)
      /\ IsFiniteSet(M) /\ Cardinality(M) <= Cardinality(L)
      /\ Cardinality(M) = Cardinality(L) => M = L
  <2>1. L \in SUBSET D /\ M \in SUBSET L
    BY <1>3
  <2>2. IsFiniteSet(L) /\ Cardinality(L) <= Cardinality(D)
    BY <1>4, <2>1, FS_Subset
  <2> QED
    BY <2>1, <2>2, FS_Subset
<1>6. Cardinality(L) \in Nat /\ Cardinality(M) \in Nat
  BY <1>5, FS_CardinalityType
<1>7. M # L
  BY <1>3
<1> QED
  BY <1>2, <1>4, <1>5, <1>6, <1>7 DEF L, M, q

LEMMA LeftCounted ==
  ASSUME NEW s, s.definitions \in Nat, NEW p \in Ways(s)
  PROVE  Cardinality(Left(s, p)) \in 0..s.definitions
<1>1. CASE Left(s, p) = {}
  <2>1. Cardinality(Left(s, p)) = 0
    BY <1>1, FS_EmptySet
  <2> QED
    BY <2>1
<1>2. CASE Left(s, p) # {}
  <2>1. PICK c : c \in Left(s, p)
    BY <1>2
  <2> QED
    BY <2>1, LeftShrinks
<1> QED
  BY <1>1, <1>2

(* Only the components that may be entered count.                            *)
SameWays(s, p, q, g, h) ==
  /\ q[1] = p[1]
  /\ \A c \in Children(s, {p[1]}) :
       /\ c \in p[2] \cup {p[1]} <=> c \in q[2] \cup {q[1]}
       /\ c \notin p[2] \cup {p[1]} => g[<<c, p[2] \cup {p[1]}>>] = h[<<c, q[2] \cup {q[1]}>>]

LEMMA SameByUses ==
  ASSUME NEW s, IsStructure(s), NEW x, NEW p \in Ways(s), NEW q \in Ways(s), NEW g, NEW h,
         SameWays(s, p, q, g, h)
  PROVE  ByUses(s, x, g, p) = ByUses(s, x, h, q)
<1> DEFINE d == p[1]
           over == p[2] \cup {p[1]}
           above == q[2] \cup {q[1]}
           uses == ChildUsages(s, d)
           n == Len(uses)
<1>1. d \in Definitions(s)
  BY DEF Ways
<1>2. /\ n \in Nat /\ DOMAIN uses = 1..n
      /\ \A k \in 1..n : s.usages[uses[k]].child \in Children(s, {d})
  BY <1>1, UseAt
<1>3. \A c \in Children(s, {d}) :
        /\ c \in over <=> c \in above
        /\ c \notin over => g[<<c, over>>] = h[<<c, above>>]
  BY DEF SameWays
<1>4. ByUses(s, x, g, p) = TotalOfUses(s, x, g, over, uses)
  BY DEF ByUses
<1>5. ByUses(s, x, h, q) = TotalOfUses(s, x, h, above, uses)
  BY DEF ByUses, SameWays
<1> HIDE DEF d, over, above, uses, n
<1>6. PICK a : /\ Weighs(a, s, x, g, over, uses, n)
               /\ ByUses(s, x, g, p) = a[n]
  BY <1>2, <1>4, UsesRecursion
<1>7. PICK b : /\ Weighs(b, s, x, h, above, uses, n)
               /\ ByUses(s, x, h, q) = b[n]
  BY <1>2, <1>5, UsesRecursion
<1> DEFINE P == {m \in 0..n : a[m] = b[m]}
<1>8. 0 \in P
  BY <1>2, <1>6, <1>7 DEF Weighs
<1>9. ASSUME NEW m \in 0..n - 1, m \in P
      PROVE  m + 1 \in P
  <2>1. m + 1 \in 1..n /\ m + 1 \in 0..n /\ (m + 1) - 1 = m
    BY <1>2
  <2>2. /\ a[m + 1] = WithUse(s, x, g, over, a[m], uses[m + 1])
        /\ b[m + 1] = WithUse(s, x, h, above, b[m], uses[m + 1])
    BY <1>6, <1>7, <2>1 DEF Weighs
  <2>3. a[m] = b[m]
    BY <1>9
  <2> DEFINE e == s.usages[uses[m + 1]].child
  <2>4. e \in Children(s, {d})
    BY <1>2, <2>1
  <2>5. /\ e \in over <=> e \in above
        /\ e \notin over => g[<<e, over>>] = h[<<e, above>>]
    <3> HIDE DEF e
    <3> QED
      BY <1>3, <2>4
  <2>6. a[m + 1] = b[m + 1]
    BY <2>2, <2>3, <2>5 DEF WithUse
  <2> QED
    BY <2>1, <2>6
<1>10. n \in P
  <2> HIDE DEF P
  <2>1. \A m \in 0..n - 1 : m \in P => m + 1 \in P
    BY <1>9
  <2>2. 0..n \subseteq P
    BY <1>2, <1>8, <2>1, IntervalInduction
  <2> QED
    BY <1>2, <2>2
<1> QED
  BY <1>6, <1>7, <1>10

(* Two functions that agree on what is left below a pair.                    *)
LEMMA SameBelow ==
  ASSUME NEW s, IsStructure(s), NEW x, NEW p \in Ways(s), NEW g, NEW h,
         \A c \in Left(s, p) : g[<<c, p[2] \cup {p[1]}>>] = h[<<c, p[2] \cup {p[1]}>>]
  PROVE  ByUses(s, x, g, p) = ByUses(s, x, h, p)
<1>1. p[1] \in Definitions(s)
  BY DEF Ways
<1>2. \A c \in Children(s, {p[1]}) : c \in Definitions(s)
  BY DEF Children, IsStructure
<1>3. \A c \in Children(s, {p[1]}) : c \notin p[2] \cup {p[1]} => c \in Left(s, p)
  BY <1>2 DEF Left
<1>4. SameWays(s, p, p, g, h)
  BY <1>3 DEF SameWays
<1> QED
  BY <1>4, SameByUses

LEMMA UnderRecursion ==
  ASSUME NEW s, IsStructure(s), NEW x
  PROVE  \A p \in Ways(s) : Under(s, x)[p] = ByUses(s, x, Under(s, x), p)
<1> DEFINE n == s.definitions
           Good(g, k) == \A p \in Ways(s) : Cardinality(Left(s, p)) < k => g[p] = ByUses(s, x, g, p)
           P == {k \in 0..n + 1 : \E g : Good(g, k)}
<1>1. n \in Nat
  BY DEF IsStructure
<1>2. \A p \in Ways(s) : Cardinality(Left(s, p)) \in 0..n
  BY <1>1, LeftCounted
<1>3. 0 \in P
  <2> DEFINE g == 0
  <2>1. Good(g, 0)
    BY <1>1, <1>2
  <2> HIDE DEF g, Good
  <2> QED
    BY <1>1, <2>1
<1>4. ASSUME NEW k \in 0..(n + 1) - 1, k \in P
      PROVE  k + 1 \in P
  <2>1. PICK g : Good(g, k)
    BY <1>4
  <2> DEFINE h == [p \in Ways(s) |-> ByUses(s, x, g, p)]
  <2>2. \A p \in Ways(s) : h[p] = ByUses(s, x, g, p)
    OBVIOUS
  <2> HIDE DEF h
  <2>3. ASSUME NEW p \in Ways(s), Cardinality(Left(s, p)) < k + 1
        PROVE  h[p] = ByUses(s, x, h, p)
    <3>1. ASSUME NEW c \in Left(s, p)
          PROVE  g[<<c, p[2] \cup {p[1]}>>] = h[<<c, p[2] \cup {p[1]}>>]
      <4> DEFINE q == <<c, p[2] \cup {p[1]}>>
      <4>1. /\ q \in Ways(s) /\ Cardinality(Left(s, p)) \in 0..n
            /\ Cardinality(Left(s, q)) \in 0..n
            /\ Cardinality(Left(s, q)) < Cardinality(Left(s, p))
        BY <1>1, LeftShrinks
      <4> HIDE DEF q
      <4>2. Cardinality(Left(s, q)) < k
        BY <1>1, <2>3, <4>1
      <4>3. g[q] = ByUses(s, x, g, q)
        BY <2>1, <4>1, <4>2
      <4> QED
        BY <2>2, <4>1, <4>3 DEF q
    <3>2. ByUses(s, x, g, p) = ByUses(s, x, h, p)
      BY <3>1, SameBelow
    <3> QED
      BY <2>2, <3>2
  <2>4. Good(h, k + 1)
    BY <2>3
  <2> HIDE DEF Good
  <2> QED
    BY <1>1, <2>4
<1>5. n + 1 \in P
  <2> HIDE DEF P
  <2>1. \A k \in 0..(n + 1) - 1 : k \in P => k + 1 \in P
    BY <1>4
  <2>2. n + 1 \in Nat
    BY <1>1
  <2> DEFINE m == n + 1
  <2>3. m \in Nat /\ 0 \in P /\ \A k \in 0..m - 1 : k \in P => k + 1 \in P
    BY <1>3, <2>1, <2>2
  <2> HIDE DEF m
  <2>4. 0..m \subseteq P
    BY <2>3, IntervalInduction
  <2> QED
    BY <2>3, <2>4 DEF m
<1>6. PICK g : Good(g, n + 1)
  BY <1>5
<1> DEFINE h == [p \in Ways(s) |-> g[p]]
<1>7. \A p \in Ways(s) : h[p] = g[p]
  OBVIOUS
<1>8. h = [p \in Ways(s) |-> h[p]]
  OBVIOUS
<1> HIDE DEF h
<1>9. \A p \in Ways(s) : h[p] = ByUses(s, x, h, p)
  <2> SUFFICES ASSUME NEW p \in Ways(s)
               PROVE  h[p] = ByUses(s, x, h, p)
    OBVIOUS
  <2>1. Cardinality(Left(s, p)) < n + 1
    BY <1>1, <1>2
  <2>2. g[p] = ByUses(s, x, g, p)
    BY <1>6, <2>1
  <2>3. \A c \in Left(s, p) : g[<<c, p[2] \cup {p[1]}>>] = h[<<c, p[2] \cup {p[1]}>>]
    BY <1>1, <1>7, LeftShrinks
  <2>4. ByUses(s, x, g, p) = ByUses(s, x, h, p)
    BY <2>3, SameBelow
  <2> QED
    BY <1>7, <2>2, <2>4
<1>10. h = [p \in Ways(s) |-> ByUses(s, x, h, p)]
  BY <1>8, <1>9
<1>11. Under(s, x) = [p \in Ways(s) |-> ByUses(s, x, Under(s, x), p)]
  BY <1>10 DEF Under
<1> DEFINE u == Under(s, x)
<1>12. u = [p \in Ways(s) |-> ByUses(s, x, u, p)]
  BY <1>11
<1> HIDE DEF u
<1>13. \A p \in Ways(s) : u[p] = ByUses(s, x, u, p)
  BY <1>12
<1> QED
  BY <1>13 DEF u

WholeQuantities(s) == \A u \in ToSet(s.usages) : Quantity(u) \in Int

LEMMA WholeByUses ==
  ASSUME NEW s, IsStructure(s), WholeQuantities(s), NEW x, NEW p \in Ways(s), NEW g,
         \A c \in Left(s, p) : g[<<c, p[2] \cup {p[1]}>>] \in Int
  PROVE  ByUses(s, x, g, p) \in Int
<1> DEFINE d == p[1]
           above == p[2] \cup {p[1]}
           uses == ChildUsages(s, d)
           n == Len(uses)
<1>1. d \in Definitions(s)
  BY DEF Ways
<1>2. /\ n \in Nat /\ DOMAIN uses = 1..n
      /\ \A k \in 1..n : /\ s.usages[uses[k]].child \in Definitions(s)
                         /\ Quantity(s.usages[uses[k]]) \in Int
  <2> HIDE DEF d
  <2>1. n \in Nat /\ DOMAIN uses = 1..n
    BY <1>1, UseAt
  <2>2. ASSUME NEW k \in 1..n
        PROVE  /\ s.usages[uses[k]] \in ToSet(s.usages)
               /\ s.usages[uses[k]].child \in Definitions(s)
    BY <1>1, UseAt
  <2>3. \A u \in ToSet(s.usages) : Quantity(u) \in Int
    BY DEF WholeQuantities
  <2> HIDE DEF uses, n
  <2> QED
    BY <2>1, <2>2, <2>3
<1>3. \A c \in Definitions(s) : c \notin above => g[<<c, above>>] \in Int
  BY DEF Left
<1>4. ByUses(s, x, g, p) = TotalOfUses(s, x, g, above, uses)
  BY DEF ByUses
<1> HIDE DEF d, above, uses, n
<1>5. PICK a : /\ Weighs(a, s, x, g, above, uses, n)
               /\ ByUses(s, x, g, p) = a[n]
  BY <1>2, <1>4, UsesRecursion
<1> DEFINE P == {m \in 0..n : a[m] \in Int}
<1>6. 0 \in P
  BY <1>2, <1>5 DEF Weighs
<1>7. ASSUME NEW m \in 0..n - 1, m \in P
      PROVE  m + 1 \in P
  <2>1. m + 1 \in 1..n /\ m + 1 \in 0..n /\ (m + 1) - 1 = m
    BY <1>2
  <2>2. a[m + 1] = WithUse(s, x, g, above, a[m], uses[m + 1])
    BY <1>5, <2>1 DEF Weighs
  <2> DEFINE u == s.usages[uses[m + 1]]
             f == (IF u.child = x THEN 1 ELSE 0) + g[<<u.child, above>>]
  <2>3. a[m] \in Int /\ u.child \in Definitions(s) /\ Quantity(u) \in Int
    BY <1>2, <1>7, <2>1
  <2>4. a[m + 1] = IF u.child \in above THEN a[m] ELSE a[m] + Quantity(u) * f
    BY <2>2 DEF WithUse
  <2>5. u.child \notin above => f \in Int
    BY <1>3, <2>3
  <2> HIDE DEF u, f
  <2>6. a[m + 1] \in Int
    BY <2>3, <2>4, <2>5
  <2> QED
    BY <2>1, <2>6
<1>8. n \in P
  <2> HIDE DEF P
  <2>1. \A m \in 0..n - 1 : m \in P => m + 1 \in P
    BY <1>7
  <2>2. 0..n \subseteq P
    BY <1>2, <1>6, <2>1, IntervalInduction
  <2> QED
    BY <1>2, <2>2
<1> QED
  BY <1>5, <1>8

LEMMA UnderWhole ==
  ASSUME NEW s, IsStructure(s), WholeQuantities(s), NEW x
  PROVE  \A p \in Ways(s) : Under(s, x)[p] \in Int
<1> DEFINE g == Under(s, x)
           m == s.definitions + 1
           P == {k \in 0..m : \A p \in Ways(s) : Cardinality(Left(s, p)) < k => g[p] \in Int}
<1>1. s.definitions \in Nat /\ m \in Nat
  BY DEF IsStructure
<1>2. \A p \in Ways(s) : Cardinality(Left(s, p)) \in 0..s.definitions
  BY <1>1, LeftCounted
<1>3. \A p \in Ways(s) : g[p] = ByUses(s, x, g, p)
  BY UnderRecursion
<1> HIDE DEF g
<1>4. 0 \in P
  BY <1>1, <1>2
<1>5. ASSUME NEW k \in 0..m - 1, k \in P
      PROVE  k + 1 \in P
  <2>1. ASSUME NEW p \in Ways(s), Cardinality(Left(s, p)) < k + 1
        PROVE  g[p] \in Int
    <3>1. ASSUME NEW c \in Left(s, p)
          PROVE  g[<<c, p[2] \cup {p[1]}>>] \in Int
      <4> DEFINE q == <<c, p[2] \cup {p[1]}>>
      <4>1. /\ q \in Ways(s) /\ Cardinality(Left(s, p)) \in 0..s.definitions
            /\ Cardinality(Left(s, q)) \in 0..s.definitions
            /\ Cardinality(Left(s, q)) < Cardinality(Left(s, p))
        BY <1>1, LeftShrinks
      <4> HIDE DEF q
      <4>2. Cardinality(Left(s, q)) < k
        BY <1>1, <2>1, <4>1
      <4> QED
        BY <1>5, <4>1, <4>2 DEF q
    <3>2. ByUses(s, x, g, p) \in Int
      BY <3>1, WholeByUses
    <3> QED
      BY <1>3, <3>2
  <2>2. k + 1 \in 0..m
    BY <1>1
  <2> QED
    BY <2>1, <2>2
<1>6. m \in P
  <2> HIDE DEF P, m
  <2>1. \A k \in 0..m - 1 : k \in P => k + 1 \in P
    BY <1>5
  <2>2. 0..m \subseteq P
    BY <1>1, <1>4, <2>1, IntervalInduction
  <2> QED
    BY <1>1, <2>2
<1>7. ASSUME NEW p \in Ways(s)
      PROVE  g[p] \in Int
  <2>1. Cardinality(Left(s, p)) < m
    BY <1>1, <1>2
  <2> QED
    BY <1>6, <2>1
<1> QED
  BY <1>7 DEF g

(* Without cycles: what is below a component is below what it is used in,    *)
(* and less.                                                               *)
LEMMA BelowComponent ==
  ASSUME NEW s, IsStructure(s), IsAcyclic(s), NEW d \in Definitions(s), NEW c \in Children(s, {d})
  PROVE  /\ c \in Definitions(s) /\ c \in Below(s, d) /\ Below(s, c) \subseteq Below(s, d)
         /\ d \notin {c} \cup Below(s, c)
         /\ Cardinality(Below(s, c)) \in 0..s.definitions
         /\ Cardinality(Below(s, d)) \in 0..s.definitions
         /\ Cardinality(Below(s, c)) < Cardinality(Below(s, d))
<1> DEFINE B == Below(s, d)
           C == Below(s, c)
           D == Definitions(s)
<1>1. B \subseteq D /\ Children(s, {d} \cup B) \subseteq B
  BY BelowClosed
<1>2. Children(s, {d}) \subseteq B /\ Children(s, B) \subseteq B
  <2>1. {d} \subseteq {d} \cup B /\ B \subseteq {d} \cup B
    OBVIOUS
  <2>2. Children(s, {d}) \subseteq Children(s, {d} \cup B) /\ Children(s, B) \subseteq Children(s, {d} \cup B)
    BY <2>1, ChildrenGrow
  <2> QED
    BY <1>1, <2>2
<1>3. c \in B /\ c \in D /\ s.definitions \in Nat
  BY <1>1, <1>2 DEF IsStructure
<1>4. C \subseteq B
  BY <1>2, <1>3, BelowLeast
<1>5. d \notin B /\ c \notin C
  BY <1>3 DEF IsAcyclic
<1>6. IsFiniteSet(D) /\ Cardinality(D) = s.definitions
  <2> DEFINE n == s.definitions
  <2>1. n \in Nat
    BY <1>3
  <2> HIDE DEF n
  <2>2. IsFiniteSet(1..n) /\ Cardinality(1..n) = IF 1 <= n THEN n - 1 + 1 ELSE 0
    BY <2>1, FS_Interval
  <2>3. (IF 1 <= n THEN n - 1 + 1 ELSE 0) = n
    BY <2>1
  <2> QED
    BY <2>2, <2>3 DEF n, Definitions
<1> HIDE DEF B, C, D
<1>7. /\ IsFiniteSet(B) /\ Cardinality(B) <= Cardinality(D)
      /\ IsFiniteSet(C) /\ Cardinality(C) <= Cardinality(B)
      /\ Cardinality(C) = Cardinality(B) => C = B
  <2>1. B \in SUBSET D /\ C \in SUBSET B
    BY <1>1, <1>4
  <2>2. IsFiniteSet(B) /\ Cardinality(B) <= Cardinality(D)
    BY <1>6, <2>1, FS_Subset
  <2> QED
    BY <2>1, <2>2, FS_Subset
<1>8. Cardinality(B) \in Nat /\ Cardinality(C) \in Nat
  BY <1>7, FS_CardinalityType
<1>9. C # B
  BY <1>3, <1>5
<1> QED
  BY <1>3, <1>4, <1>5, <1>6, <1>7, <1>8, <1>9 DEF B, C, D

(* Without cycles it does not matter what is above.                          *)
Apart(s, d, above) == above \cap ({d} \cup Below(s, d)) = {}

LEMMA UnderAlone ==
  ASSUME NEW s, IsStructure(s), IsAcyclic(s), NEW x, NEW d \in Definitions(s),
         NEW over \in SUBSET Definitions(s), Apart(s, d, over),
         NEW above \in SUBSET Definitions(s), Apart(s, d, above)
  PROVE  Under(s, x)[<<d, over>>] = Under(s, x)[<<d, above>>]
<1> DEFINE g == Under(s, x)
           m == s.definitions + 1
           Same(e) == \A a, b \in SUBSET Definitions(s) :
                        Apart(s, e, a) /\ Apart(s, e, b) => g[<<e, a>>] = g[<<e, b>>]
           P == {k \in 0..m : \A e \in Definitions(s) : Cardinality(Below(s, e)) < k => Same(e)}
<1>1. s.definitions \in Nat /\ m \in Nat
  BY DEF IsStructure
<1>2. \A e \in Definitions(s) : Cardinality(Below(s, e)) \in 0..s.definitions
  <2> SUFFICES ASSUME NEW e \in Definitions(s)
               PROVE  Cardinality(Below(s, e)) \in 0..s.definitions
    OBVIOUS
  <2> DEFINE D == 1..s.definitions
             n == s.definitions
             B == Below(s, e)
  <2>1. n \in Nat /\ B \in SUBSET (1..n)
    BY <1>1, BelowClosed DEF Definitions
  <2> HIDE DEF n, B
  <2>2. IsFiniteSet(1..n) /\ Cardinality(1..n) = IF 1 <= n THEN n - 1 + 1 ELSE 0
    BY <2>1, FS_Interval
  <2>3. (IF 1 <= n THEN n - 1 + 1 ELSE 0) = n
    BY <2>1
  <2>4. IsFiniteSet(B) /\ Cardinality(B) <= Cardinality(1..n)
    BY <2>1, <2>2, FS_Subset
  <2>5. Cardinality(B) \in Nat
    BY <2>4, FS_CardinalityType
  <2> QED
    BY <2>1, <2>2, <2>3, <2>4, <2>5 DEF n, B
<1>3. \A p \in Ways(s) : g[p] = ByUses(s, x, g, p)
  BY UnderRecursion
<1> HIDE DEF g
<1>4. 0 \in P
  BY <1>1, <1>2
<1>5. ASSUME NEW k \in 0..m - 1, k \in P
      PROVE  k + 1 \in P
  <2>1. ASSUME NEW e \in Definitions(s), Cardinality(Below(s, e)) < k + 1,
               NEW a \in SUBSET Definitions(s), NEW b \in SUBSET Definitions(s),
               Apart(s, e, a), Apart(s, e, b)
        PROVE  g[<<e, a>>] = g[<<e, b>>]
    <3> DEFINE p == <<e, a>>
               q == <<e, b>>
    <3>1. p \in Ways(s) /\ q \in Ways(s) /\ p[1] = e /\ q[1] = e /\ p[2] = a /\ q[2] = b
      BY DEF Ways
    <3>2. ASSUME NEW c \in Children(s, {e})
          PROVE  /\ c \notin a \cup {e} /\ c \notin b \cup {e}
                 /\ g[<<c, a \cup {e}>>] = g[<<c, b \cup {e}>>]
      <4>1. /\ c \in Definitions(s) /\ c \in Below(s, e) /\ Below(s, c) \subseteq Below(s, e)
            /\ e \notin {c} \cup Below(s, c)
            /\ Cardinality(Below(s, c)) \in 0..s.definitions
            /\ Cardinality(Below(s, e)) \in 0..s.definitions
            /\ Cardinality(Below(s, c)) < Cardinality(Below(s, e))
        BY BelowComponent
      <4>2. Apart(s, c, a \cup {e}) /\ Apart(s, c, b \cup {e})
        BY <2>1, <4>1 DEF Apart
      <4>3. Cardinality(Below(s, c)) < k
        BY <1>1, <2>1, <4>1
      <4>4. Same(c)
        BY <1>5, <4>1, <4>3
      <4>5. a \cup {e} \in SUBSET Definitions(s) /\ b \cup {e} \in SUBSET Definitions(s)
        OBVIOUS
      <4>6. g[<<c, a \cup {e}>>] = g[<<c, b \cup {e}>>]
        BY <4>2, <4>4, <4>5
      <4>7. c \notin a \cup {e} /\ c \notin b \cup {e}
        BY <2>1, <4>1 DEF Apart
      <4> QED
        BY <4>6, <4>7
    <3>3. \A c \in Children(s, {p[1]}) :
            /\ c \in p[2] \cup {p[1]} <=> c \in q[2] \cup {q[1]}
            /\ c \notin p[2] \cup {p[1]} => g[<<c, p[2] \cup {p[1]}>>] = g[<<c, q[2] \cup {q[1]}>>]
      BY <3>1, <3>2
    <3> HIDE DEF p, q
    <3>4. SameWays(s, p, q, g, g)
      BY <3>1, <3>3 DEF SameWays
    <3>5. ByUses(s, x, g, p) = ByUses(s, x, g, q)
      BY <3>1, <3>4, SameByUses
    <3> QED
      BY <1>3, <3>1, <3>5 DEF p, q
  <2>2. k + 1 \in 0..m
    BY <1>1
  <2> QED
    BY <2>1, <2>2
<1>6. m \in P
  <2> HIDE DEF P, m
  <2>1. \A k \in 0..m - 1 : k \in P => k + 1 \in P
    BY <1>5
  <2>2. 0..m \subseteq P
    BY <1>1, <1>4, <2>1, IntervalInduction
  <2> QED
    BY <1>1, <2>2
<1>7. Same(d)
  <2>1. Cardinality(Below(s, d)) < m
    BY <1>1, <1>2
  <2> QED
    BY <1>6, <2>1
<1> QED
  BY <1>7 DEF g

(* The total of x under d, one usage of d after the other.                  *)
UseOf(s, d, k) == s.usages[ChildUsages(s, d)[k]]

ByItself(c, x) == IF c = x THEN 1 ELSE 0

SumsUses(sum, s, d, x) ==
  /\ sum[0] = 0
  /\ \A m \in 1..Len(ChildUsages(s, d)) :
       sum[m] = sum[m - 1]
                + Quantity(UseOf(s, d, m))
                  * (ByItself(ChildOf(s, d, m), x) + PathTotal(s, ChildOf(s, d, m), x))
  /\ sum[Len(ChildUsages(s, d))] = PathTotal(s, d, x)
  /\ \A m \in 0..Len(ChildUsages(s, d)) : sum[m] \in Int

SumOfUses(s, d, x) == CHOOSE sum : SumsUses(sum, s, d, x)

LEMMA PathTotalWhole ==
  ASSUME NEW s, IsStructure(s), WholeQuantities(s), NEW d \in Definitions(s), NEW x
  PROVE  PathTotal(s, d, x) \in Int
<1>1. <<d, {}>> \in Ways(s)
  BY DEF Ways
<1> QED
  BY <1>1, UnderWhole, PathTotalUnder

(* Without cycles, PathTotal multiplies down each usage and adds them up.     *)
LEMMA PathTotalByUses ==
  ASSUME NEW s, IsStructure(s), IsAcyclic(s), WholeQuantities(s), NEW d \in Definitions(s), NEW x
  PROVE  SumsUses(SumOfUses(s, d, x), s, d, x)
<1> DEFINE g == Under(s, x)
           p == <<d, {}>>
           above == p[2] \cup {p[1]}
           uses == ChildUsages(s, d)
           n == Len(uses)
<1>1. p \in Ways(s) /\ above = {d} /\ p[1] = d
  BY DEF Ways
<1>2. /\ n \in Nat /\ DOMAIN uses = 1..n
      /\ \A k \in 1..n :
           /\ s.usages[uses[k]] = UseOf(s, d, k) /\ Quantity(UseOf(s, d, k)) \in Int
           /\ UseOf(s, d, k).child = ChildOf(s, d, k)
           /\ ChildOf(s, d, k) \in Children(s, {d}) /\ ChildOf(s, d, k) \in Definitions(s)
  BY UseAt DEF UseOf, WholeQuantities
<1>3. ASSUME NEW c \in Children(s, {d})
      PROVE  c \notin {d} /\ g[<<c, {d}>>] = PathTotal(s, c, x)
  <2>1. c \in Definitions(s) /\ d \notin {c} \cup Below(s, c)
    BY BelowComponent
  <2>2. Apart(s, c, {d}) /\ Apart(s, c, {}) /\ {d} \in SUBSET Definitions(s) /\ {} \in SUBSET Definitions(s)
    BY <2>1 DEF Apart
  <2>3. g[<<c, {d}>>] = g[<<c, {}>>]
    BY <2>1, <2>2, UnderAlone
  <2> QED
    BY <2>1, <2>3, PathTotalUnder
<1>4. PathTotal(s, d, x) = TotalOfUses(s, x, g, above, uses)
  <2>1. g[p] = ByUses(s, x, g, p)
    BY <1>1, UnderRecursion
  <2>2. ByUses(s, x, g, p) = TotalOfUses(s, x, g, above, uses)
    BY <1>1 DEF ByUses
  <2>3. PathTotal(s, d, x) = g[p]
    BY PathTotalUnder
  <2> QED
    BY <2>1, <2>2, <2>3
<1> HIDE DEF g, above, uses, n, p
<1>5. PICK sum : /\ Weighs(sum, s, x, g, above, uses, n)
                 /\ PathTotal(s, d, x) = sum[n]
  BY <1>2, <1>4, UsesRecursion
<1>6. sum[0] = 0
  BY <1>5 DEF Weighs
<1>7. ASSUME NEW m \in 1..n
      PROVE  sum[m] = sum[m - 1]
                + Quantity(UseOf(s, d, m))
                  * (ByItself(ChildOf(s, d, m), x) + PathTotal(s, ChildOf(s, d, m), x))
  <2> DEFINE u == UseOf(s, d, m)
             c == ChildOf(s, d, m)
  <2>1. sum[m] = WithUse(s, x, g, above, sum[m - 1], uses[m])
    BY <1>5 DEF Weighs
  <2>2. s.usages[uses[m]] = u /\ u.child = c
    BY <1>2
  <2>3. c \notin above /\ g[<<c, above>>] = PathTotal(s, c, x)
    BY <1>1, <1>2, <1>3
  <2> HIDE DEF u, c
  <2> QED
    BY <2>1, <2>2, <2>3 DEF WithUse, ByItself, u, c
<1>8. \A m \in 0..n : sum[m] \in Int
  <2> DEFINE P == {m \in 0..n : sum[m] \in Int}
  <2>1. 0 \in P
    BY <1>2, <1>6
  <2>2. ASSUME NEW m \in 0..n - 1, m \in P
        PROVE  m + 1 \in P
    <3>1. m + 1 \in 1..n /\ m + 1 \in 0..n /\ (m + 1) - 1 = m
      BY <1>2
    <3> DEFINE q == Quantity(UseOf(s, d, m + 1))
               b == ByItself(ChildOf(s, d, m + 1), x)
               t == PathTotal(s, ChildOf(s, d, m + 1), x)
    <3>2. sum[m + 1] = sum[m] + q * (b + t)
      BY <1>7, <3>1
    <3>3. q \in Int /\ b \in Int /\ t \in Int /\ sum[m] \in Int
      BY <1>2, <2>2, <3>1, PathTotalWhole DEF ByItself
    <3> HIDE DEF q, b, t
    <3> QED
      BY <3>1, <3>2, <3>3
  <2>3. 0..n \subseteq P
    <3> HIDE DEF P
    <3>1. \A m \in 0..n - 1 : m \in P => m + 1 \in P
      BY <2>2
    <3> QED
      BY <1>2, <2>1, <3>1, IntervalInduction
  <2> QED
    BY <2>3
<1>9. SumsUses(sum, s, d, x)
  BY <1>5, <1>6, <1>7, <1>8 DEF SumsUses, n, uses
<1> QED
  BY <1>9 DEF SumOfUses

-----------------------------------------------------------------------------
(* What a list of totals says of a definition.                              *)
QuantityIn(t, x) ==
  LET lines == {i \in DOMAIN t : t[i].definition = x}
  IN  IF lines = {} THEN 0 ELSE t[Min(lines)].quantity

IsTotal(t) ==
  /\ IsListing(t)
  /\ \A i \in 1..Len(t) : "quantity" \in DOMAIN t[i] /\ t[i].quantity \in Int

LEMMA QuantityAt ==
  ASSUME NEW t, IsListing(t), NEW x
  PROVE  /\ \A i \in 1..Len(t) : t[i].definition = x => QuantityIn(t, x) = t[i].quantity
         /\ (\A i \in 1..Len(t) : t[i].definition # x) => QuantityIn(t, x) = 0
<1> DEFINE lines == {i \in DOMAIN t : t[i].definition = x}
<1>1. Len(t) \in Nat /\ DOMAIN t = 1..Len(t)
  BY SequenceOf DEF IsListing
<1>2. ASSUME NEW i \in 1..Len(t), t[i].definition = x
      PROVE  QuantityIn(t, x) = t[i].quantity
  <2>1. i \in lines /\ lines \subseteq Nat
    BY <1>1, <1>2
  <2>2. QuantityIn(t, x) = t[Min(lines)].quantity
    BY <2>1 DEF QuantityIn
  <2> HIDE DEF lines
  <2>3. Min(lines) \in lines
    BY <2>1, LeastMin
  <2>4. Min(lines) \in 1..Len(t) /\ t[Min(lines)].definition = x
    BY <1>1, <2>3 DEF lines
  <2>5. Min(lines) = i
    BY <1>2, <2>4 DEF IsListing
  <2> QED
    BY <2>2, <2>5
<1>3. ASSUME \A i \in 1..Len(t) : t[i].definition # x
      PROVE  QuantityIn(t, x) = 0
  <2>1. lines = {}
    BY <1>1, <1>3
  <2> QED
    BY <2>1 DEF QuantityIn
<1> QED
  BY <1>2, <1>3

LEMMA QuantityWhole ==
  ASSUME NEW t, IsTotal(t), NEW x
  PROVE  QuantityIn(t, x) \in Int
BY QuantityAt DEF IsTotal

(* One more line adds its quantity to its definition's.                      *)
LEMMA AddTotals ==
  ASSUME NEW t, IsTotal(t), NEW line, {"definition", "quantity"} \subseteq DOMAIN line, line.quantity \in Int
  PROVE  /\ IsTotal(Totals!Add(t, line))
         /\ \A x : QuantityIn(Totals!Add(t, line), x)
                     = QuantityIn(t, x) + IF line.definition = x THEN line.quantity ELSE 0
<1> DEFINE same == {i \in DOMAIN t : t[i].definition = line.definition}
           more == Totals!Add(t, line)
<1>1. PICK n \in Nat : n = Len(t) /\ DOMAIN t = 1..n
  BY SequenceOf DEF IsTotal, IsListing
<1>2. IsListing(t) /\ IsListing(more)
  BY AddLists DEF IsTotal
<1>3. CASE same = {}
  <2>1. more = Append(t, line)
    BY <1>3 DEF Totals!Add
  <2>2. /\ Len(more) = n + 1
        /\ \A i \in 1..n : more[i] = t[i]
        /\ more[n + 1] = line
    BY <1>1, <1>2, <2>1, AppendSequence DEF IsListing
  <2>3. \A i \in 1..n : t[i].definition # line.definition
    BY <1>1, <1>3
  <2>4. (\A i \in 1..n + 1 : i \in 1..n \/ i = n + 1) /\ (\A i \in 1..n : i \in 1..n + 1) /\ n + 1 \in 1..n + 1
    BY <1>1
  <2> HIDE DEF more, same
  <2>5. IsTotal(more)
    BY <1>1, <1>2, <2>2, <2>4 DEF IsTotal
  <2>6. ASSUME NEW x
        PROVE  QuantityIn(more, x) = QuantityIn(t, x) + IF line.definition = x THEN line.quantity ELSE 0
    <3>1. CASE line.definition = x
      <4>1. QuantityIn(t, x) = 0
        BY <1>1, <1>2, <2>3, <3>1, QuantityAt
      <4>2. QuantityIn(more, x) = line.quantity
        BY <1>2, <2>2, <2>4, <3>1, QuantityAt
      <4> QED
        BY <3>1, <4>1, <4>2
    <3>2. CASE line.definition # x
      <4>1. QuantityIn(more, x) = QuantityIn(t, x)
        <5>1. CASE \E i \in 1..n : t[i].definition = x
          <6>1. PICK i \in 1..n : t[i].definition = x
            BY <5>1
          <6>2. QuantityIn(t, x) = t[i].quantity
            BY <1>1, <1>2, <6>1, QuantityAt
          <6>3. more[i].definition = x /\ i \in 1..Len(more) /\ more[i] = t[i]
            BY <2>2, <2>4, <6>1
          <6>4. QuantityIn(more, x) = t[i].quantity
            BY <1>2, <6>3, QuantityAt
          <6> QED
            BY <6>2, <6>4
        <5>2. CASE \A i \in 1..n : t[i].definition # x
          <6>1. QuantityIn(t, x) = 0
            BY <1>1, <1>2, <5>2, QuantityAt
          <6>2. \A i \in 1..Len(more) : more[i].definition # x
            BY <2>2, <2>4, <3>2, <5>2
          <6>3. QuantityIn(more, x) = 0
            BY <1>2, <6>2, QuantityAt
          <6> QED
            BY <6>1, <6>3
        <5> QED
          BY <5>1, <5>2
      <4> QED
        BY <3>2, <4>1, QuantityWhole
    <3> QED
      BY <3>1, <3>2
  <2> QED
    BY <2>5, <2>6 DEF more
<1>4. CASE same # {}
  <2> DEFINE m == Min(same)
             changed == [t[m] EXCEPT !.quantity = @ + line.quantity]
  <2>1. m \in same
    <3>1. same \subseteq Nat
      BY <1>1
    <3> HIDE DEF same
    <3> QED
      BY <1>4, <3>1, LeastMin
  <2>2. m \in 1..n /\ t[m].definition = line.definition
    BY <1>1, <2>1
  <2>3. more = [t EXCEPT ![m] = changed]
    <3>1. more = [t EXCEPT ![m].quantity = @ + line.quantity]
      BY <1>4 DEF Totals!Add, Totals!Min, Min
    <3> HIDE DEF more, m
    <3> QED
      BY <3>1
  <2>4. /\ DOMAIN changed = DOMAIN t[m] /\ changed.definition = t[m].definition
        /\ changed.quantity = t[m].quantity + line.quantity
    <3>1. {"definition", "quantity"} \subseteq DOMAIN t[m]
      BY <1>1, <2>2 DEF IsTotal, IsListing
    <3> HIDE DEF m, same
    <3> QED
      BY <3>1
  <2> HIDE DEF m, changed, same, more
  <2>5. /\ more = [i \in DOMAIN t |-> more[i]]
        /\ \A i \in 1..n : more[i] = IF i = m THEN changed ELSE t[i]
    BY <1>1, <2>2, <2>3
  <2>6. Len(more) = n
    BY <1>1, <1>2, <2>5, SameDomainSequence DEF IsListing
  <2>7. \A i \in 1..n : more[i].definition = t[i].definition
    BY <2>4, <2>5
  <2>8. IsTotal(more)
    <3>1. "quantity" \in DOMAIN changed /\ changed.quantity \in Int
      BY <1>1, <2>2, <2>4 DEF IsTotal
    <3> QED
      BY <1>1, <1>2, <2>5, <2>6, <3>1 DEF IsTotal
  <2>9. ASSUME NEW x
        PROVE  QuantityIn(more, x) = QuantityIn(t, x) + IF line.definition = x THEN line.quantity ELSE 0
    <3>1. CASE line.definition = x
      <4>1. QuantityIn(t, x) = t[m].quantity
        BY <1>1, <1>2, <2>2, <3>1, QuantityAt
      <4>2. m \in 1..Len(more) /\ more[m].definition = x /\ more[m] = changed
        BY <2>2, <2>5, <2>6, <2>7, <3>1
      <4>3. QuantityIn(more, x) = changed.quantity
        BY <1>2, <4>2, QuantityAt
      <4> QED
        BY <2>4, <3>1, <4>1, <4>3
    <3>2. CASE line.definition # x
      <4>1. QuantityIn(more, x) = QuantityIn(t, x)
        <5>1. CASE \E i \in 1..n : t[i].definition = x
          <6>1. PICK i \in 1..n : t[i].definition = x
            BY <5>1
          <6>2. QuantityIn(t, x) = t[i].quantity
            BY <1>1, <1>2, <6>1, QuantityAt
          <6>3. i # m
            BY <2>2, <3>2, <6>1
          <6>4. more[i].definition = x /\ i \in 1..Len(more) /\ more[i] = t[i]
            BY <2>5, <2>6, <2>7, <6>1, <6>3
          <6>5. QuantityIn(more, x) = t[i].quantity
            BY <1>2, <6>4, QuantityAt
          <6> QED
            BY <6>2, <6>5
        <5>2. CASE \A i \in 1..n : t[i].definition # x
          <6>1. QuantityIn(t, x) = 0
            BY <1>1, <1>2, <5>2, QuantityAt
          <6>2. \A i \in 1..Len(more) : more[i].definition # x
            BY <2>6, <2>7, <5>2
          <6>3. QuantityIn(more, x) = 0
            BY <1>2, <6>2, QuantityAt
          <6> QED
            BY <6>1, <6>3
        <5> QED
          BY <5>1, <5>2
      <4> QED
        BY <3>2, <4>1, QuantityWhole
    <3> QED
      BY <3>1, <3>2
  <2> QED
    BY <2>8, <2>9 DEF more
<1> QED
  BY <1>3, <1>4

(* The lines of a component add its totals, times its quantity.              *)
LEMMA AddBelowTotals ==
  ASSUME NEW t, IsTotal(t), NEW q \in Int, NEW lines, IsTotal(lines)
  PROVE  /\ IsTotal(Totals!AddBelow(t, q, lines))
         /\ \A x : QuantityIn(Totals!AddBelow(t, q, lines), x) = QuantityIn(t, x) + q * QuantityIn(lines, x)
<1>1. PICK n \in Nat : n = Len(lines) /\ DOMAIN lines = 1..n
  BY SequenceOf DEF IsTotal, IsListing
<1>2. PICK sum : SumsUp(sum, t, q, lines, n) /\ Totals!AddBelow(t, q, lines) = sum[n]
  BY <1>1, AddBelowRecursion
<1>3. IsListing(lines)
  BY DEF IsTotal
<1> DEFINE Among(m, x) == \E i \in 1..m : lines[i].definition = x
           Part(m, x) == IF Among(m, x) THEN q * QuantityIn(lines, x) ELSE 0
           P == {m \in 0..n : IsTotal(sum[m]) /\ \A x : QuantityIn(sum[m], x) = QuantityIn(t, x) + Part(m, x)}
<1>4. 0 \in P
  <2>1. \A x : QuantityIn(t, x) \in Int
    BY QuantityWhole
  <2>2. \A x : ~Among(0, x)
    OBVIOUS
  <2>3. \A x : QuantityIn(t, x) = QuantityIn(t, x) + Part(0, x)
    BY <2>1, <2>2
  <2>4. sum[0] = t
    BY <1>2 DEF SumsUp
  <2> HIDE DEF Part
  <2> QED
    BY <1>1, <2>3, <2>4
<1>5. ASSUME NEW m \in 0..n - 1, m \in P
      PROVE  m + 1 \in P
  <2> DEFINE line == [lines[m + 1] EXCEPT !.quantity = q * @]
  <2>1. m + 1 \in 1..n /\ (m + 1) - 1 = m /\ m + 1 \in 0..n
    BY <1>1
  <2>2. {"definition", "quantity"} \subseteq DOMAIN lines[m + 1] /\ lines[m + 1].quantity \in Int
    BY <1>1, <2>1 DEF IsTotal, IsListing
  <2>3. /\ {"definition", "quantity"} \subseteq DOMAIN line /\ line.definition = lines[m + 1].definition
        /\ line.quantity = q * lines[m + 1].quantity
    BY <2>2
  <2>4. sum[m + 1] = Totals!Add(sum[m], line)
    BY <1>2, <2>1 DEF SumsUp
  <2>5. IsTotal(sum[m]) /\ \A x : QuantityIn(sum[m], x) = QuantityIn(t, x) + Part(m, x)
    BY <1>5
  <2>6. line.quantity \in Int
    BY <2>2, <2>3
  <2> HIDE DEF line, Part
  <2>7. /\ IsTotal(sum[m + 1])
        /\ \A x : QuantityIn(sum[m + 1], x)
                    = QuantityIn(sum[m], x) + IF line.definition = x THEN line.quantity ELSE 0
    BY <2>3, <2>4, <2>5, <2>6, AddTotals
  <2>8. ASSUME NEW x
        PROVE  QuantityIn(sum[m + 1], x) = QuantityIn(t, x) + Part(m + 1, x)
    <3>1. /\ QuantityIn(sum[m + 1], x)
               = (QuantityIn(t, x) + Part(m, x)) + IF line.definition = x THEN line.quantity ELSE 0
          /\ QuantityIn(t, x) \in Int /\ QuantityIn(lines, x) \in Int
      BY <2>5, <2>7, QuantityWhole
    <3>2. CASE lines[m + 1].definition = x
      <4>1. QuantityIn(lines, x) = lines[m + 1].quantity
        BY <1>1, <1>3, <2>1, <3>2, QuantityAt
      <4>2. ~Among(m, x)
        <5>1. \A i \in 1..m : i \in 1..n /\ i # m + 1
          BY <1>1
        <5> QED
          BY <1>1, <1>3, <2>1, <3>2, <5>1 DEF IsListing
      <4>3. Among(m + 1, x)
        BY <2>1, <3>2
      <4>4. Part(m, x) = 0 /\ Part(m + 1, x) = q * QuantityIn(lines, x)
        BY <4>2, <4>3 DEF Part
      <4>5. QuantityIn(sum[m + 1], x) = (QuantityIn(t, x) + 0) + line.quantity
        BY <2>3, <3>1, <3>2, <4>4
      <4> QED
        BY <2>3, <2>6, <3>1, <4>1, <4>4, <4>5
    <3>3. CASE lines[m + 1].definition # x
      <4>1. Among(m + 1, x) <=> Among(m, x)
        <5>1. \A i \in 1..m + 1 : i \in 1..m \/ i = m + 1
          BY <1>1
        <5>2. \A i \in 1..m : i \in 1..m + 1
          BY <1>1
        <5> QED
          BY <3>3, <5>1, <5>2
      <4>2. Part(m + 1, x) = Part(m, x)
        BY <4>1 DEF Part
      <4>3. Part(m, x) \in Int
        BY <3>1 DEF Part
      <4> QED
        BY <2>3, <3>1, <3>3, <4>2, <4>3
    <3> QED
      BY <3>2, <3>3
  <2> QED
    BY <2>1, <2>7, <2>8
<1>6. n \in P
  <2> HIDE DEF P
  <2>1. \A m \in 0..n - 1 : m \in P => m + 1 \in P
    BY <1>5
  <2>2. 0..n \subseteq P
    BY <1>1, <1>4, <2>1, IntervalInduction
  <2> QED
    BY <1>1, <2>2
<1>7. ASSUME NEW x
      PROVE  Part(n, x) = q * QuantityIn(lines, x)
  <2>1. CASE Among(n, x)
    BY <2>1
  <2>2. CASE ~Among(n, x)
    <3>1. QuantityIn(lines, x) = 0
      BY <1>1, <1>3, <2>2, QuantityAt
    <3> QED
      BY <2>2, <3>1
  <2> QED
    BY <2>1, <2>2
<1> HIDE DEF Part
<1> QED
  BY <1>2, <1>6, <1>7

-----------------------------------------------------------------------------
(* How far a call's totals are: the usages it has passed, and the component  *)
(* it waits for, whose own lines are still to come.                         *)
Counted(s, f, waits) ==
  /\ IsTotal(f.totals)
  /\ f.next <= Len(ChildUsages(s, f.definition)) + 1
  /\ \A x : QuantityIn(f.totals, x)
              = SumOfUses(s, f.definition, x)[f.next - 1]
                + IF waits /\ ChildOf(s, f.definition, f.next) = x
                  THEN Quantity(UseOf(s, f.definition, f.next)) ELSE 0

Tallies(s, t, d) == IsTotal(t) /\ \A x : QuantityIn(t, x) = PathTotal(s, d, x)

LEMMA NewCounted ==
  ASSUME NEW s, IsStructure(s), IsAcyclic(s), WholeQuantities(s), NEW d \in Definitions(s)
  PROVE  Counted(s, Totals!Frame(d), FALSE)
<1> DEFINE f == Totals!Frame(d)
<1>1. f = [definition |-> d, next |-> 1, totals |-> << >>]
  BY DEF Totals!Frame
<1>2. IsSequence(<< >>) /\ Len(<< >>) = 0 /\ 1..0 = {}
  BY ShortSequences
<1>3. IsTotal(<< >>)
  BY <1>2 DEF IsTotal, IsListing
<1>4. \A x : QuantityIn(<< >>, x) = 0
  BY <1>2, <1>3, QuantityAt DEF IsTotal
<1>5. \A x : SumOfUses(s, d, x)[0] = 0
  BY PathTotalByUses DEF SumsUses
<1>6. Len(ChildUsages(s, d)) \in Nat
  BY UseAt
<1>7. f.definition = d /\ f.next = 1 /\ f.totals = << >>
  BY <1>1
<1> HIDE DEF f
<1>8. f.next - 1 = 0 /\ f.next <= Len(ChildUsages(s, d)) + 1
  BY <1>6, <1>7
<1>9. Counted(s, f, FALSE)
  BY <1>3, <1>4, <1>5, <1>7, <1>8 DEF Counted
<1> QED
  BY <1>9 DEF f

(* What the sum over the usages is at the next one.                          *)
LEMMA NextSum ==
  ASSUME NEW s, IsStructure(s), IsAcyclic(s), WholeQuantities(s), NEW d \in Definitions(s),
         NEW k \in Nat \ {0}, k <= Len(ChildUsages(s, d)), NEW x
  PROVE  /\ k \in 1..Len(ChildUsages(s, d))
         /\ Quantity(UseOf(s, d, k)) \in Int
         /\ PathTotal(s, ChildOf(s, d, k), x) \in Int
         /\ SumOfUses(s, d, x)[k - 1] \in Int
         /\ SumOfUses(s, d, x)[k] = SumOfUses(s, d, x)[k - 1]
              + Quantity(UseOf(s, d, k)) * (ByItself(ChildOf(s, d, k), x) + PathTotal(s, ChildOf(s, d, k), x))
<1>1. SumsUses(SumOfUses(s, d, x), s, d, x)
  BY PathTotalByUses
<1>2. Len(ChildUsages(s, d)) \in Nat
  BY UseAt
<1>3. k \in 1..Len(ChildUsages(s, d)) /\ k - 1 \in 0..Len(ChildUsages(s, d))
  BY <1>2
<1>4. /\ UseOf(s, d, k) \in ToSet(s.usages) /\ ChildOf(s, d, k) \in Definitions(s)
  BY <1>3, UseAt DEF UseOf
<1>5. Quantity(UseOf(s, d, k)) \in Int
  BY <1>4 DEF WholeQuantities
<1>6. PathTotal(s, ChildOf(s, d, k), x) \in Int
  BY <1>4, PathTotalWhole
<1> QED
  BY <1>1, <1>3, <1>5, <1>6 DEF SumsUses

(* A component is listed before the walk goes to it.                         *)
LEMMA CountedWaits ==
  ASSUME NEW s, IsStructure(s), IsAcyclic(s), WholeQuantities(s),
         NEW f, IsCall(f), f.definition \in Definitions(s), Counted(s, f, FALSE),
         f.next <= Len(ChildUsages(s, f.definition)),
         NEW usage, usage = UseOf(s, f.definition, f.next),
         NEW g, g = [f EXCEPT !.totals = Totals!WithChild(@, usage)]
  PROVE  IsCall(g) /\ g.definition = f.definition /\ g.next = f.next /\ Counted(s, g, TRUE)
<1> DEFINE d == f.definition
           k == f.next
           c == ChildOf(s, d, k)
           q == Quantity(usage)
           line == [definition |-> usage.child, quantity |-> Totals!Quantity(usage)]
           t == Totals!WithChild(f.totals, usage)
<1>1. k \in Nat \ {0} /\ {"definition", "next", "totals"} \subseteq DOMAIN f
  BY DEF IsCall
<1>2. g.totals = t /\ DOMAIN g = DOMAIN f /\ g.definition = d /\ g.next = k
  BY <1>1
<1>3. IsTotal(f.totals)
  BY DEF Counted
<1>4. usage.child = c /\ Totals!Quantity(usage) = q
  BY DEF UseOf, ChildOf, Totals!Quantity, Quantity
<1>5. q \in Int
  BY <1>1, NextSum
<1>6. line.definition = c /\ line.quantity = q /\ {"definition", "quantity"} \subseteq DOMAIN line
  BY <1>4
<1>7. t = Totals!Add(f.totals, line)
  BY DEF Totals!WithChild
<1> HIDE DEF line, q, c, t, d, k
<1>8. IsTotal(t) /\ \A x : QuantityIn(t, x) = QuantityIn(f.totals, x) + IF c = x THEN q ELSE 0
  BY <1>3, <1>5, <1>6, <1>7, AddTotals
<1>9. ASSUME NEW x
      PROVE  QuantityIn(t, x) = SumOfUses(s, d, x)[k - 1] + IF c = x THEN q ELSE 0
  <2>1. SumOfUses(s, d, x)[k - 1] \in Int
    BY <1>1, NextSum DEF d, k
  <2>2. QuantityIn(f.totals, x) = SumOfUses(s, d, x)[k - 1] + 0
    BY DEF Counted, d, k
  <2> QED
    BY <1>8, <2>1, <2>2
<1>10. IsCall(g)
  BY <1>1, <1>2, <1>8 DEF IsCall, IsTotal, d, k
<1>11. Counted(s, g, TRUE)
  <2>1. k <= Len(ChildUsages(s, d)) + 1
    BY DEF Counted, d, k
  <2> QED
    BY <1>2, <1>8, <1>9, <2>1 DEF Counted, c, q, d, k
<1> QED
  BY <1>2, <1>10, <1>11 DEF d, k

(* Then its own totals are added, times the quantity of its usage.           *)
LEMMA CountedAdvances ==
  ASSUME NEW s, IsStructure(s), IsAcyclic(s), WholeQuantities(s),
         NEW f, IsCall(f), f.definition \in Definitions(s), Counted(s, f, TRUE),
         f.next <= Len(ChildUsages(s, f.definition)),
         NEW usage, usage = UseOf(s, f.definition, f.next),
         NEW lines, Tallies(s, lines, ChildOf(s, f.definition, f.next))
  PROVE  Counted(s, Totals!Advanced(f, usage, lines), FALSE)
<1> DEFINE d == f.definition
           k == f.next
           c == ChildOf(s, d, k)
           q == Quantity(usage)
           t == Totals!AddBelow(f.totals, Totals!Quantity(usage), lines)
           g == Totals!Advanced(f, usage, lines)
<1>1. k \in Nat \ {0} /\ {"definition", "next", "totals"} \subseteq DOMAIN f
  BY DEF IsCall
<1>2. g.totals = t /\ g.definition = d /\ g.next = k + 1
  BY <1>1 DEF Totals!Advanced
<1>3. IsTotal(f.totals) /\ IsTotal(lines)
  BY DEF Counted, Tallies
<1>4. Totals!Quantity(usage) = q
  BY DEF Totals!Quantity, Quantity
<1>5. q \in Int
  BY <1>1, NextSum
<1>6. t = Totals!AddBelow(f.totals, q, lines)
  BY <1>4
<1> HIDE DEF q, c, t, g, d, k
<1>7. IsTotal(t) /\ \A x : QuantityIn(t, x) = QuantityIn(f.totals, x) + q * QuantityIn(lines, x)
  BY <1>3, <1>5, <1>6, AddBelowTotals
<1>8. ASSUME NEW x
      PROVE  QuantityIn(t, x) = SumOfUses(s, d, x)[k]
  <2> DEFINE b == ByItself(c, x)
             p == PathTotal(s, c, x)
             a == SumOfUses(s, d, x)[k - 1]
  <2>1. a \in Int /\ p \in Int /\ SumOfUses(s, d, x)[k] = a + q * (b + p)
    BY <1>1, NextSum DEF d, k, c, q
  <2>2. QuantityIn(f.totals, x) = a + IF c = x THEN q ELSE 0
    BY DEF Counted, d, k, c, q
  <2>3. QuantityIn(lines, x) = p
    BY DEF Tallies, c, d, k
  <2> HIDE DEF a, p, b
  <2>4. QuantityIn(t, x) = (a + IF c = x THEN q ELSE 0) + q * p
    BY <1>7, <2>2, <2>3
  <2>5. CASE c = x
    <3>1. b = 1
      BY <2>5 DEF b, ByItself
    <3>2. (a + q) + q * p = a + q * (1 + p)
      BY <1>5, <2>1
    <3> QED
      BY <2>1, <2>4, <2>5, <3>1, <3>2
  <2>6. CASE c # x
    <3>1. b = 0
      BY <2>6 DEF b, ByItself
    <3>2. (a + 0) + q * p = a + q * (0 + p)
      BY <1>5, <2>1
    <3> QED
      BY <2>1, <2>4, <2>6, <3>1, <3>2
  <2> QED
    BY <2>5, <2>6
<1>9. k + 1 <= Len(ChildUsages(s, d)) + 1 /\ (k + 1) - 1 = k
  <2>1. Len(ChildUsages(s, d)) \in Nat
    BY UseAt DEF d
  <2> QED
    BY <1>1, <2>1 DEF k, d
<1>10. \A x : SumOfUses(s, d, x)[k] \in Int
  BY <1>7, <1>8, QuantityWhole
<1>11. Counted(s, g, FALSE)
  BY <1>2, <1>7, <1>8, <1>9, <1>10 DEF Counted
<1> QED
  BY <1>11 DEF g

(* At the last usage the totals are those of every path.                     *)
LEMMA CountedAll ==
  ASSUME NEW s, IsStructure(s), IsAcyclic(s), WholeQuantities(s),
         NEW f, IsCall(f), f.definition \in Definitions(s), Counted(s, f, FALSE),
         f.next > Len(ChildUsages(s, f.definition))
  PROVE  Tallies(s, f.totals, f.definition)
<1> DEFINE d == f.definition
           n == Len(ChildUsages(s, d))
<1>1. n \in Nat /\ f.next \in Nat
  BY UseAt DEF IsCall
<1>2. f.next - 1 = n
  BY <1>1 DEF Counted
<1>3. ASSUME NEW x
      PROVE  QuantityIn(f.totals, x) = PathTotal(s, d, x)
  <2>1. SumOfUses(s, d, x)[n] = PathTotal(s, d, x) /\ PathTotal(s, d, x) \in Int
    BY PathTotalByUses, PathTotalWhole DEF SumsUses
  <2>2. QuantityIn(f.totals, x) = SumOfUses(s, d, x)[n] + 0
    BY <1>2 DEF Counted
  <2> QED
    BY <2>1, <2>2
<1> QED
  BY <1>3 DEF Tallies, Counted

LEMMA ExactSetting ==
  ASSUME CoverInv
  PROVE  /\ IsStructure(call.structure) /\ WholeQuantities(call.structure)
         /\ call.root \in Definitions(call.structure)
         /\ \A i \in 1..Len(calls) : IsCall(calls[i]) /\ calls[i].definition \in Definitions(call.structure)
         /\ Len(calls) \in Nat \ {0} /\ IsSequence(calls) /\ DOMAIN calls = 1..Len(calls)
         /\ Totals!Top = calls[Len(calls)] /\ Len(calls) \in 1..Len(calls)
<1>1. /\ IsStructure(call.structure) /\ call.root \in Definitions(call.structure)
      /\ Len(calls) \in Nat \ {0} /\ DOMAIN calls = 1..Len(calls)
      /\ Totals!Top = calls[Len(calls)]
  BY TopCall
<1>2. WholeQuantities(call.structure)
  BY QuantitiesAssumption DEF CoverInv, Known, WholeQuantities
<1>3. ASSUME NEW i \in 1..Len(calls)
      PROVE  IsCall(calls[i]) /\ calls[i].definition \in Definitions(call.structure)
  <2>1. calls[i].definition \in UnderWay
    BY DEF UnderWay
  <2>2. calls[i].definition \in {call.root} \cup Below(call.structure, call.root)
    BY <2>1 DEF CoverInv, Known, Walked
  <2> QED
    BY <1>1, <2>2, MetBelow DEF CoverInv, Known
<1> QED
  BY <1>1, <1>2, <1>3 DEF CoverInv, WalkInv

(* Without cycles no usage leads back to a call under way.                   *)
LEMMA NoneUnderWay ==
  ASSUME CoverInv, IsAcyclic(call.structure),
         NEW c \in Children(call.structure, {Totals!Top.definition})
  PROVE  c \notin UnderWay
<1> DEFINE s == call.structure
           n == Len(calls)
<1>1. SUFFICES ASSUME NEW i \in 1..n, c = calls[i].definition PROVE FALSE
  BY DEF UnderWay
<1>2. /\ IsStructure(s) /\ n \in Nat \ {0} /\ Totals!Top = calls[n]
      /\ \A j \in 1..n : calls[j].definition \in Definitions(s)
  BY ExactSetting
<1> DEFINE B == Below(s, c)
           m == n - i
           P == {k \in 0..m : calls[i + k].definition \in {c} \cup B}
<1>3. B \subseteq Definitions(s) /\ Children(s, {c} \cup B) \subseteq B /\ c \in Definitions(s)
  BY <1>1, <1>2, BelowClosed
<1>4. m \in Nat /\ i \in Nat /\ i + m = n
  BY <1>2
<1>5. 0 \in P
  <2>1. i + 0 = i
    BY <1>4
  <2> QED
    BY <1>1, <1>4, <2>1
<1>6. ASSUME NEW k \in 0..m - 1, k \in P
      PROVE  k + 1 \in P
  <2>1. i + k \in 1..n - 1 /\ i + (k + 1) = (i + k) + 1 /\ k + 1 \in 0..m
    BY <1>2, <1>4
  <2>2. calls[(i + k) + 1].definition \in Children(s, {calls[i + k].definition})
    BY <2>1, CallsNest
  <2>3. {calls[i + k].definition} \subseteq {c} \cup B
    BY <1>6
  <2>4. Children(s, {calls[i + k].definition}) \subseteq Children(s, {c} \cup B)
    BY <2>3, ChildrenGrow
  <2> QED
    BY <1>3, <2>1, <2>2, <2>4
<1>7. m \in P
  <2> HIDE DEF P, m
  <2>1. \A k \in 0..m - 1 : k \in P => k + 1 \in P
    BY <1>6
  <2>2. 0..m \subseteq P
    BY <1>4, <1>5, <2>1, IntervalInduction
  <2> QED
    BY <1>4, <2>2
<1>8. calls[n].definition \in {c} \cup B
  BY <1>4, <1>7
<1>9. c \in B
  <2>1. {calls[n].definition} \subseteq {c} \cup B
    BY <1>8
  <2>2. Children(s, {calls[n].definition}) \subseteq Children(s, {c} \cup B)
    BY <2>1, ChildrenGrow
  <2> QED
    BY <1>2, <1>3, <2>2
<1> QED
  BY <1>3, <1>9 DEF IsAcyclic

TotalsKnown ==
  LET s == call.structure
  IN  /\ \A i \in 1..Len(calls) - 1 : Counted(s, calls[i], TRUE)
      /\ Counted(s, calls[Len(calls)], FALSE)
      /\ \A d \in DOMAIN memo : Tallies(s, memo[d], d)
      /\ result.done => Tallies(s, result.lines, call.root)

Exact == Totals!Shallow /\ IsAcyclic(call.structure) => TotalsKnown

(* The usage the call on top has come to, as the lemmas above name it.       *)
LEMMA UsageToCome ==
  ASSUME CoverInv, Totals!MoreUses
  PROVE  /\ Totals!TheUsage = UseOf(call.structure, Totals!Top.definition, Totals!Top.next)
         /\ Totals!TheUsage.child = ChildOf(call.structure, Totals!Top.definition, Totals!Top.next)
         /\ Totals!Top.next <= Len(ChildUsages(call.structure, Totals!Top.definition))
         /\ ~result.done
<1>1. Totals!Uses = ChildUsages(call.structure, Totals!Top.definition)
  BY TopCall
<1>2. Totals!TheUsage = UseOf(call.structure, Totals!Top.definition, Totals!Top.next)
  BY <1>1 DEF Totals!TheUsage, UseOf, Totals!structure
<1> QED
  BY <1>1, <1>2 DEF Totals!MoreUses, UseOf, ChildOf

LEMMA ExactSkip ==
  ASSUME CoverInv, IsAcyclic(call.structure), Totals!SkipAncestor
  PROVE  FALSE
<1>1. Totals!MoreUses /\ Totals!TheUsage.child \in visiting
  BY DEF Totals!SkipAncestor
<1>2. Totals!TheUsage.child \in Children(call.structure, {Totals!Top.definition})
  <2>1. /\ Totals!TheUsage.child = ChildOf(call.structure, Totals!Top.definition, Totals!Top.next)
        /\ Totals!Top.next \in 1..Len(Totals!Uses)
    BY <1>1, NextUsage
  <2> QED
    BY <2>1, TopCall
<1>3. Totals!TheUsage.child \in UnderWay
  BY <1>1 DEF CoverInv, WalkInv
<1> QED
  BY <1>2, <1>3, NoneUnderWay

LEMMA ExactMemo ==
  ASSUME CoverInv, TotalsKnown, IsAcyclic(call.structure), Totals!UseMemo
  PROVE  TotalsKnown'
<1> DEFINE s == call.structure
           n == Len(calls)
           usage == Totals!TheUsage
           f == calls[n]
           g == [f EXCEPT !.totals = Totals!WithChild(@, usage)]
           h == Totals!Advanced(g, usage, memo[usage.child])
<1>1. /\ IsStructure(s) /\ WholeQuantities(s) /\ n \in Nat \ {0} /\ IsSequence(calls) /\ DOMAIN calls = 1..n
      /\ Totals!Top = f /\ n \in 1..n /\ IsCall(f) /\ f.definition \in Definitions(s)
  BY ExactSetting
<1>2. /\ Totals!MoreUses /\ usage.child \in DOMAIN memo
      /\ calls' = [calls EXCEPT ![n] = h]
      /\ UNCHANGED <<call, memo, result>>
  BY <1>1 DEF Totals!UseMemo
<1>3. /\ usage = UseOf(s, f.definition, f.next) /\ usage.child = ChildOf(s, f.definition, f.next)
      /\ f.next <= Len(ChildUsages(s, f.definition)) /\ ~result.done
  BY <1>1, <1>2, UsageToCome
<1>4. Counted(s, f, FALSE) /\ \A i \in 1..n - 1 : Counted(s, calls[i], TRUE)
  BY DEF TotalsKnown
<1>5. Tallies(s, memo[usage.child], usage.child)
  BY <1>2 DEF TotalsKnown
<1> HIDE DEF f, usage
<1>6. /\ IsCall(g) /\ g.definition = f.definition /\ g.next = f.next
      /\ Counted(s, g, TRUE)
  <2>1. /\ IsStructure(s) /\ IsAcyclic(s) /\ WholeQuantities(s) /\ IsCall(f) /\ f.definition \in Definitions(s)
        /\ Counted(s, f, FALSE) /\ f.next <= Len(ChildUsages(s, f.definition))
        /\ usage = UseOf(s, f.definition, f.next)
        /\ g = [f EXCEPT !.totals = Totals!WithChild(@, usage)]
    BY <1>1, <1>3, <1>4
  <2>2. g.definition = f.definition /\ g.next = f.next
    BY <1>1 DEF IsCall
  <2> HIDE DEF g
  <2>3. IsCall(g)
    BY ONLY <2>1, CountedWaits
  <2>4. Counted(s, g, TRUE)
    BY ONLY <2>1, CountedWaits
  <2> QED
    BY <2>2, <2>3, <2>4
<1> HIDE DEF g
<1>7. Counted(s, h, FALSE)
  BY <1>1, <1>3, <1>5, <1>6, CountedAdvances
<1> HIDE DEF h
<1>8. Len(calls') = n /\ \A i \in 1..n : calls'[i] = IF i = n THEN h ELSE calls[i]
  <2>1. /\ calls' = [i \in DOMAIN calls |-> calls'[i]]
        /\ \A i \in 1..n : calls'[i] = IF i = n THEN h ELSE calls[i]
    BY <1>1, <1>2
  <2> QED
    BY <1>1, <2>1, SameDomainSequence
<1>9. Counted(s, calls'[n], FALSE) /\ \A i \in 1..n - 1 : Counted(s, calls'[i], TRUE)
  <2>1. \A i \in 1..n - 1 : i \in 1..n /\ i # n
    <3>1. n \in Nat
      BY <1>1
    <3> HIDE DEF n
    <3> QED
      BY <3>1
  <2>2. calls'[n] = h /\ \A i \in 1..n - 1 : calls'[i] = calls[i]
    BY <1>1, <1>8, <2>1
  <2> QED
    BY <1>4, <1>7, <2>2
<1> QED
  BY <1>2, <1>3, <1>8, <1>9 DEF TotalsKnown

LEMMA ExactDescend ==
  ASSUME CoverInv, TotalsKnown, IsAcyclic(call.structure), Totals!Descend
  PROVE  TotalsKnown'
<1> DEFINE s == call.structure
           n == Len(calls)
           usage == Totals!TheUsage
           f == calls[n]
           g == [f EXCEPT !.totals = Totals!WithChild(@, usage)]
           below == [calls EXCEPT ![n] = g]
           new == Totals!Frame(usage.child)
<1>1. /\ IsStructure(s) /\ WholeQuantities(s) /\ n \in Nat \ {0} /\ IsSequence(calls) /\ DOMAIN calls = 1..n
      /\ Totals!Top = f /\ n \in 1..n /\ IsCall(f) /\ f.definition \in Definitions(s)
  BY ExactSetting
<1>2. /\ Totals!MoreUses
      /\ calls' = Append(below, new)
      /\ UNCHANGED <<call, memo, result>>
  <2>1. calls' = Append([calls EXCEPT ![n].totals = Totals!WithChild(@, usage)], new)
    BY DEF Totals!Descend
  <2>2. [calls EXCEPT ![n].totals = Totals!WithChild(@, usage)] = below
    BY <1>1
  <2> QED
    BY <2>1, <2>2 DEF Totals!Descend
<1>3. /\ usage = UseOf(s, f.definition, f.next) /\ usage.child = ChildOf(s, f.definition, f.next)
      /\ f.next <= Len(ChildUsages(s, f.definition)) /\ ~result.done
  BY <1>1, <1>2, UsageToCome
<1>4. Counted(s, f, FALSE) /\ \A i \in 1..n - 1 : Counted(s, calls[i], TRUE)
  BY DEF TotalsKnown
<1>5. usage.child \in Definitions(s)
  <2> DEFINE d == f.definition
             k == f.next
  <2>1. k \in 1..Len(ChildUsages(s, d))
    <3>1. k \in Nat \ {0} /\ Len(ChildUsages(s, d)) \in Nat
      BY <1>1, UseAt DEF IsCall
    <3> QED
      BY <1>3, <3>1
  <2>2. d \in Definitions(s) /\ usage.child = ChildOf(s, d, k) /\ IsStructure(s)
    BY <1>1, <1>3
  <2> HIDE DEF d, k, s, f, usage
  <2>3. ChildOf(s, d, k) \in Definitions(s)
    BY <2>1, <2>2, UseAt
  <2> QED
    BY <2>2, <2>3
<1> HIDE DEF f, usage
<1>6. Counted(s, g, TRUE)
  <2>1. /\ IsStructure(s) /\ IsAcyclic(s) /\ WholeQuantities(s) /\ IsCall(f) /\ f.definition \in Definitions(s)
        /\ Counted(s, f, FALSE) /\ f.next <= Len(ChildUsages(s, f.definition))
        /\ usage = UseOf(s, f.definition, f.next)
        /\ g = [f EXCEPT !.totals = Totals!WithChild(@, usage)]
    BY <1>1, <1>3, <1>4
  <2> HIDE DEF g
  <2> QED
    BY ONLY <2>1, CountedWaits
<1>7. Counted(s, new, FALSE)
  BY <1>1, <1>5, NewCounted
<1> HIDE DEF g, new
<1>8. /\ IsSequence(below) /\ Len(below) = n
      /\ \A i \in 1..n : below[i] = IF i = n THEN g ELSE calls[i]
  <2>1. /\ below = [i \in DOMAIN calls |-> below[i]]
        /\ \A i \in 1..n : below[i] = IF i = n THEN g ELSE calls[i]
    <3>1. DOMAIN calls = 1..n /\ n \in 1..n
      BY <1>1
    <3>2. below = [i \in DOMAIN calls |-> IF i = n THEN g ELSE calls[i]]
      BY DEF n
    <3> HIDE DEF n, below
    <3>3. \A i \in 1..n : below[i] = IF i = n THEN g ELSE calls[i]
      BY <3>1, <3>2
    <3>4. below = [i \in DOMAIN calls |-> below[i]]
      BY <3>1, <3>2
    <3> QED
      BY <3>3, <3>4
  <2> HIDE DEF below
  <2> QED
    BY <1>1, <2>1, SameDomainSequence
<1> HIDE DEF below
<1>9. /\ Len(calls') = n + 1 /\ calls'[n + 1] = new
      /\ \A i \in 1..n : calls'[i] = IF i = n THEN g ELSE calls[i]
  BY <1>2, <1>8, AppendSequence
<1>10. Counted(s, calls'[n + 1], FALSE) /\ \A i \in 1..n : Counted(s, calls'[i], TRUE)
  <2>1. \A i \in 1..n : i = n \/ i \in 1..n - 1
    <3>1. n \in Nat
      BY <1>1
    <3> HIDE DEF n
    <3> QED
      BY <3>1
  <2> QED
    BY <1>4, <1>6, <1>7, <1>9, <2>1
<1>11. (n + 1) - 1 = n
  BY <1>1
<1> QED
  BY <1>2, <1>3, <1>9, <1>10, <1>11 DEF TotalsKnown

(* A call that returns has passed every usage.                               *)
LEMMA ReturnHasCounted ==
  ASSUME CoverInv, TotalsKnown, IsAcyclic(call.structure), Totals!Shallow, ~Totals!MoreUses, ~result.done
  PROVE  Tallies(call.structure, Totals!Top.totals, Totals!Top.definition)
<1> DEFINE s == call.structure
           n == Len(calls)
           f == calls[n]
           uses == ChildUsages(s, f.definition)
<1>1. /\ IsStructure(s) /\ WholeQuantities(s) /\ n \in Nat \ {0}
      /\ Totals!Top = f /\ n \in 1..n /\ IsCall(f) /\ f.definition \in Definitions(s)
  BY ExactSetting
<1>2. Counted(s, f, FALSE)
  BY DEF TotalsKnown
<1>3. Len(uses) \in Nat /\ f.next \in Nat \ {0} /\ Totals!Uses = uses
  BY <1>1, UseAt, TopCall DEF IsCall
<1>4. n \in 1..MAX_ASSEMBLY_DEPTH + 1 /\ MAX_ASSEMBLY_DEPTH \in Nat
  BY LimitsAssumption DEF CoverInv, WalkInv
<1>5. f.next > Len(uses)
  <2>1. CASE n <= MAX_ASSEMBLY_DEPTH
    BY <1>1, <1>3, <2>1 DEF Totals!MoreUses
  <2>2. CASE n = MAX_ASSEMBLY_DEPTH + 1
    <3>1. Children(s, {f.definition}) = {}
      <4>1. ASSUME NEW c \in Children(s, {f.definition}) PROVE FALSE
        <5>1. c \in Children(call.structure, {Totals!Top.definition}) /\ Len(calls) = MAX_ASSEMBLY_DEPTH + 1
          BY <1>1, <2>2
        <5> QED
          BY <5>1, DeepestCall, NoneUnderWay
      <4> QED
        BY <4>1
    <3>2. Len(uses) = 0
      <4>1. \A k \in 1..Len(uses) : ChildOf(s, f.definition, k) \in Children(s, {f.definition})
        BY <1>1, UseAt
      <4>2. ~(1 \in 1..Len(uses))
        BY <3>1, <4>1
      <4> QED
        BY <1>3, <4>2
    <3> QED
      BY <1>3, <3>2
  <2> QED
    BY <1>4, <2>1, <2>2
<1> HIDE DEF f
<1>6. Tallies(s, f.totals, f.definition)
  BY <1>1, <1>2, <1>5, CountedAll
<1> QED
  BY <1>1, <1>6

LEMMA ExactReturn ==
  ASSUME CoverInv, TotalsKnown, IsAcyclic(call.structure), Totals!Shallow, Totals!Return
  PROVE  TotalsKnown'
<1> DEFINE s == call.structure
           n == Len(calls)
           f == calls[n]
           d == f.definition
           lines == f.totals
<1>1. /\ IsStructure(s) /\ WholeQuantities(s) /\ n \in Nat \ {0} /\ IsSequence(calls) /\ DOMAIN calls = 1..n
      /\ Totals!Top = f /\ n \in 1..n /\ IsCall(f) /\ f.definition \in Definitions(s)
  BY ExactSetting
<1>2. /\ ~result.done /\ ~Totals!MoreUses /\ call' = call
      /\ memo' = [e \in DOMAIN memo \cup {d} |-> IF e = d THEN lines ELSE memo[e]]
  BY <1>1 DEF Totals!Return, Totals!Remember
<1>3. Tallies(s, lines, d)
  BY <1>1, <1>2, ReturnHasCounted
<1>4. Counted(s, f, FALSE) /\ \A i \in 1..n - 1 : Counted(s, calls[i], TRUE)
  BY DEF TotalsKnown
<1> HIDE DEF lines, d
<1>5. \A e \in DOMAIN memo' : Tallies(s, memo'[e], e)
  <2>1. \A e \in DOMAIN memo : Tallies(s, memo[e], e)
    BY DEF TotalsKnown
  <2>2. /\ DOMAIN memo' = DOMAIN memo \cup {d}
        /\ \A e \in DOMAIN memo' : memo'[e] = IF e = d THEN lines ELSE memo[e]
    BY <1>2
  <2> QED
    BY <1>3, <2>1, <2>2
<1>6. CASE n = 1
  <2>1. calls' = calls /\ result' = [lines |-> lines, done |-> TRUE]
    BY <1>1, <1>6 DEF Totals!Return, lines
  <2>2. d = call.root
    BY <1>6 DEF CoverInv, Nested, d
  <2> QED
    BY <1>2, <1>3, <1>4, <1>5, <2>1, <2>2 DEF TotalsKnown
<1>7. CASE n # 1
  <2> DEFINE m == n - 1
             caller == calls[m]
             usage == UseOf(s, caller.definition, caller.next)
             g == Totals!Advanced(caller, usage, lines)
             front == Front(calls)
  <2>1. /\ m \in Nat \ {0} /\ m \in 1..n /\ m \in 1..n - 1 /\ m \in 1..m /\ m + 1 = n
        /\ \A i \in 1..m - 1 : i \in 1..m /\ i # m /\ i \in 1..n - 1
    <3>1. n \in Nat /\ n # 0 /\ n # 1
      BY <1>1, <1>7
    <3> HIDE DEF n
    <3> QED
      BY <3>1
  <2>2. calls' = [front EXCEPT ![m] = g] /\ result' = result
    BY <1>1, <1>7 DEF Totals!Return, Totals!Front, Front, lines, UseOf, Totals!ChildUsages, ChildUsages,
                      Totals!structure
  <2>3. IsSequence(front) /\ Len(front) = m /\ \A i \in 1..m : front[i] = calls[i]
    BY <1>1, FrontSequence
  <2>4. IsCall(caller) /\ caller.definition \in Definitions(s)
    BY <2>1, ExactSetting
  <2>5. /\ caller.next <= Len(ChildUsages(s, caller.definition))
        /\ ChildOf(s, caller.definition, caller.next) = d
    <3>1. Waits(s, calls[m], calls[m + 1].definition)
      BY <2>1 DEF CoverInv, Nested
    <3> QED
      BY <2>1, <3>1 DEF Waits, d
  <2>6. Counted(s, caller, TRUE) /\ \A i \in 1..m - 1 : Counted(s, calls[i], TRUE)
    BY <1>4, <2>1
  <2> HIDE DEF caller, usage, front, g, m
  <2>7. Counted(s, g, FALSE)
    <3>1. Tallies(s, lines, ChildOf(s, caller.definition, caller.next)) /\ usage = UseOf(s, caller.definition, caller.next)
      BY <1>3, <2>5 DEF usage
    <3> QED
      BY <1>1, <2>4, <2>5, <2>6, <3>1, CountedAdvances DEF g
  <2>8. Len(calls') = m /\ \A i \in 1..m : calls'[i] = IF i = m THEN g ELSE calls[i]
    <3>1. DOMAIN front = 1..m
      BY <2>3, SequenceOf
    <3>2. /\ calls' = [i \in DOMAIN front |-> calls'[i]]
          /\ \A i \in 1..m : calls'[i] = IF i = m THEN g ELSE front[i]
      BY <2>1, <2>2, <3>1
    <3>3. Len(calls') = m
      BY <2>3, <3>2, SameDomainSequence
    <3> QED
      BY <2>3, <3>2, <3>3
  <2>9. Counted(s, calls'[m], FALSE) /\ \A i \in 1..m - 1 : Counted(s, calls'[i], TRUE)
    BY <2>1, <2>6, <2>7, <2>8
  <2> QED
    BY <1>2, <1>5, <2>2, <2>8, <2>9 DEF TotalsKnown
<1> QED
  BY <1>6, <1>7

LEMMA ExactImpliesTotals == CoverInv /\ Exact => TotalsOfAcyclic
<1> SUFFICES ASSUME CoverInv, Exact, result.done, Totals!Shallow, IsAcyclic(call.structure),
                    NEW x \in Definitions(call.structure)
             PROVE  QuantityIn(result.lines, x) = PathTotal(call.structure, call.root, x)
  BY DEF TotalsOfAcyclic, Totals!TotalsOfAcyclic, Totals!structure, Totals!ListedQuantity, QuantityIn,
         Totals!IsAcyclic, IsAcyclic, Totals!Below, Below, Totals!Children, Children, Totals!ToSet, ToSet,
         Totals!PathTotal, PathTotal, Totals!Definitions, Definitions, Totals!Quantity, Quantity,
         Totals!ChildUsages, ChildUsages, Totals!FoldLeft, FoldLeft, Totals!MapThenFoldSet, MapThenFoldSet,
         Totals!Max, Max, Totals!Min, Min
<1> QED
  BY DEF Exact, TotalsKnown, Tallies

LEMMA ExactStart == Init => Exact
<1> SUFFICES ASSUME Init, IsAcyclic(call.structure)
             PROVE  TotalsKnown
  BY DEF Exact
<1> DEFINE s == call.structure
<1>1. /\ calls = <<Totals!Frame(call.root)>> /\ memo = << >> /\ ~result.done
      /\ call \in Requests
  BY DEF Init, Totals!Init
<1>2. Len(calls) = 1 /\ calls[1] = Totals!Frame(call.root)
  BY <1>1, ShortSequences
<1>3. IsStructure(s) /\ WholeQuantities(s) /\ call.root \in Definitions(s)
  BY <1>1, RequestsAssumption, QuantitiesAssumption DEF WholeQuantities
<1> HIDE DEF s
<1>4. IsAcyclic(s)
  BY DEF s
<1>5. Counted(s, calls[1], FALSE)
  BY <1>2, <1>3, <1>4, NewCounted
<1>6. 1..1 - 1 = {} /\ DOMAIN memo = {}
  BY <1>1
<1> QED
  BY <1>1, <1>2, <1>5, <1>6 DEF TotalsKnown, s

LEMMA ExactStep == CoverInv /\ Exact /\ [Next]_vars => Exact'
<1> SUFFICES ASSUME CoverInv, Exact, [Next]_vars, Totals!Shallow', IsAcyclic(call.structure)'
             PROVE  TotalsKnown'
  BY DEF Exact
<1>1. call' = call
  BY DEF Next, ListTotals, ListTree, vars, Totals!Next, Totals!SkipAncestor, Totals!UseMemo, Totals!Descend,
         Totals!Return, Tree!Next, Tree!Begin, Tree!AddComponent, Tree!BreakOff, Tree!Complete
<1>2. Totals!Shallow /\ IsAcyclic(call.structure)
  BY <1>1 DEF Totals!Shallow, Totals!structure
<1>3. TotalsKnown
  BY <1>2 DEF Exact
<1>4. CASE ListTotals
  BY <1>2, <1>3, <1>4, ExactSkip, ExactMemo, ExactDescend, ExactReturn DEF ListTotals, Totals!Next
<1>5. CASE ListTree \/ UNCHANGED vars
  <2>1. UNCHANGED <<calls, memo, result>>
    BY <1>5 DEF ListTree, vars, totalsVars
  <2> QED
    BY <1>1, <1>3, <2>1 DEF TotalsKnown
<1> QED
  BY <1>4, <1>5 DEF Next

(* The flat list of an acyclic structure within the depth limit gives every  *)
(* definition the sum, over the paths from the root to it, of the quantities *)
(* along the path multiplied: however often the memo stands in for a walk    *)
(* (bill_of_materials and totals of src/src/model/assembly.rs).             *)
THEOREM TotalsMultiplyAndAdd == Spec => []TotalsOfAcyclic
<1>1. Init => CoverInv /\ Exact
  BY CoverStart, ExactStart
<1>2. CoverInv /\ Exact /\ [Next]_vars => CoverInv' /\ Exact'
  BY CoverStep, ExactStep
<1> QED
  BY <1>1, <1>2, ExactImpliesTotals, PTL DEF Spec

-----------------------------------------------------------------------------
(* The tree.  Its nodes stand in the order they are made, so a node's        *)
(* components come after it, and those listed so far are the first ones of   *)
(* its definition.                                                         *)
LEMMA TreeOrder == \A S : Tree!InOrder(S) = InOrder(S)
<1>1. \A S : Tree!Cardinality(S) = Cardinality(S)
  BY Zenon DEF Tree!Cardinality, Cardinality
<1>2. \A i, S : Tree!Rank(i, S) = Rank(i, S)
  BY <1>1 DEF Tree!Rank, Rank
<1> QED
  BY <1>1, <1>2 DEF Tree!InOrder, InOrder

LEMMA ComponentsListed ==
  ASSUME NEW s, IsStructure(s), NEW d \in Definitions(s)
  PROVE  /\ IsSequence(Tree!Components(s, d))
         /\ \A k \in 1..Len(Tree!Components(s, d)) : Tree!Components(s, d)[k].definition \in Definitions(s)
         /\ ~Tree!IsAssembly(s, d) => Len(Tree!Components(s, d)) = 0
<1> DEFINE places == {k \in DOMAIN s.usages : s.usages[k].parent = d}
           uses == ChildUsages(s, d)
           firsts == {i \in DOMAIN uses : ~\E j \in 1..i - 1 : s.usages[uses[j]].child = s.usages[uses[i]].child}
           first == InOrder(firsts)
           parts == Tree!Components(s, d)
<1>0. Tree!ChildUsages(s, d) = uses /\ \A S : Tree!InOrder(S) = InOrder(S)
  BY TreeOrder DEF Tree!ChildUsages, ChildUsages
<1>1. uses = InOrder(places)
  BY DEF ChildUsages, IsStructure, ChildrenByParent, Definitions
<1>2. IsSequence(s.usages) /\ places \subseteq DOMAIN s.usages
  BY DEF IsStructure
<1>3. places \subseteq Nat /\ IsFiniteSet(places)
  <2> HIDE DEF places
  <2> QED
    BY <1>2, PlacesFinite
<1>4. uses \in Seq(places) /\ IsSequence(uses)
  <2> HIDE DEF places, uses
  <2>1. uses \in Seq(places)
    BY <1>1, <1>3, InOrderLists
  <2> QED
    BY <2>1, SeqIsSequence
<1>5. PICK n \in Nat : n = Len(uses) /\ DOMAIN uses = 1..n /\ \A i \in 1..n : uses[i] \in places
  <2> HIDE DEF uses, places
  <2> QED
    BY <1>4, SequenceOf
<1>6. firsts \subseteq DOMAIN uses
  OBVIOUS
<1>7. firsts \subseteq Nat /\ IsFiniteSet(firsts)
  <2> HIDE DEF firsts, uses
  <2> QED
    BY <1>4, <1>6, PlacesFinite
<1>8. PICK c \in Nat : /\ c = Cardinality(firsts) /\ DOMAIN first = 1..c
                       /\ \A k \in 1..c : first[k] \in firsts
  <2> HIDE DEF firsts
  <2> QED
    BY <1>7, InOrderLists
<1>9. /\ parts = [i \in DOMAIN first |-> parts[i]]
      /\ \A i \in DOMAIN first : parts[i].definition = s.usages[uses[first[i]]].child
  BY <1>0 DEF Tree!Components
<1>10. IsSequence(parts) /\ Len(parts) = c
  <2> HIDE DEF parts, first
  <2>1. DOMAIN parts = 1..c /\ parts = [i \in 1..c |-> parts[i]]
    BY <1>8, <1>9
  <2> QED
    BY <2>1, BuiltSequence
<1>11. ASSUME NEW k \in 1..c
       PROVE  parts[k].definition \in Definitions(s)
  <2>1. uses[first[k]] \in places
    <3>1. first[k] \in DOMAIN uses
      BY <1>6, <1>8
    <3> HIDE DEF uses, first, places
    <3> QED
      BY <1>5, <3>1
  <2>2. s.usages[uses[first[k]]] \in ToSet(s.usages)
    BY <2>1 DEF ToSet
  <2>3. s.usages[uses[first[k]]].child \in Definitions(s)
    BY <2>2 DEF IsStructure
  <2> QED
    BY <1>8, <1>9, <2>3
<1>12. ASSUME ~Tree!IsAssembly(s, d)
       PROVE  c = 0
  <2>1. uses = << >>
    BY <1>0, <1>12 DEF Tree!IsAssembly
  <2>2. DOMAIN uses = {}
    BY <2>1
  <2>3. firsts = {}
    BY <1>6, <2>2
  <2> HIDE DEF firsts
  <2> QED
    BY <1>8, <2>3, FS_EmptySet
<1> HIDE DEF parts
<1> QED
  BY <1>10, <1>11, <1>12 DEF parts

(* The inductive invariant of the tree: nodes follow their parents; the      *)
(* levels under way are nodes of their own, each with the first of its       *)
(* components listed; and a node that is neither cut off, nor under way, nor *)
(* whole repeats an earlier one that is, and so does an expanded definition. *)
IsNode(x) == {"definition", "parent", "repeated", "truncated"} \subseteq DOMAIN x

IsLevel(f) == {"at", "done"} \subseteq DOMAIN f

Held(i) ==
  \/ nodes[i].truncated
  \/ \E k \in 1..Len(stack) : stack[k].at = i
  \/ Tree!Listed(i) = Tree!Wanted(i)

TreeNodes ==
  /\ IsSequence(nodes)
  /\ \A i \in 1..Len(nodes) : /\ IsNode(nodes[i])
                              /\ nodes[i].definition \in Definitions(call.structure)
                              /\ nodes[i].parent \in 0..i - 1

TreeLevels ==
  /\ IsSequence(stack)
  /\ \A k \in 1..Len(stack) : IsLevel(stack[k]) /\ stack[k].at \in 1..Len(nodes)
  /\ \A k \in 1..Len(stack), i \in 1..Len(nodes) :
       stack[k].at = i => /\ stack[k].done \in 0..Len(Tree!Wanted(i))
                          /\ Tree!Listed(i) = [j \in 1..stack[k].done |-> Tree!Wanted(i)[j]]
  /\ \A j, k \in 1..Len(stack) : stack[j].at = stack[k].at => j = k

TreeMarks ==
  /\ \A i \in 1..Len(nodes) :
       \/ Held(i)
       \/ nodes[i].repeated /\ \E j \in 1..i - 1 : nodes[j].definition = nodes[i].definition /\ Held(j)
  /\ \A d \in expanded : \E j \in 1..Len(nodes) : nodes[j].definition = d /\ Held(j)

TreeInv == call \in Requests /\ TreeNodes /\ TreeLevels /\ TreeMarks

(* What a node is to list: the definitions of its components.               *)
PartsOf(s, d) == [k \in DOMAIN Tree!Components(s, d) |-> Tree!Components(s, d)[k].definition]

LEMMA PartsListed ==
  ASSUME NEW s, IsStructure(s), NEW d \in Definitions(s)
  PROVE  /\ Len(Tree!Components(s, d)) \in Nat /\ Len(PartsOf(s, d)) = Len(Tree!Components(s, d))
         /\ PartsOf(s, d) = [k \in 1..Len(PartsOf(s, d)) |-> PartsOf(s, d)[k]]
         /\ \A k \in 1..Len(PartsOf(s, d)) :
              /\ PartsOf(s, d)[k] = Tree!Components(s, d)[k].definition
              /\ PartsOf(s, d)[k] \in Definitions(s)
         /\ ~Tree!IsAssembly(s, d) => Len(PartsOf(s, d)) = 0
<1> DEFINE parts == Tree!Components(s, d)
           listed == PartsOf(s, d)
<1>1. /\ IsSequence(parts) /\ \A k \in 1..Len(parts) : parts[k].definition \in Definitions(s)
      /\ ~Tree!IsAssembly(s, d) => Len(parts) = 0
  BY ComponentsListed
<1>2. /\ listed = [k \in DOMAIN parts |-> listed[k]]
      /\ \A k \in DOMAIN parts : listed[k] = parts[k].definition
  BY DEF PartsOf
<1> HIDE DEF listed, parts
<1>3. DOMAIN parts = 1..Len(parts) /\ Len(parts) \in Nat
  BY <1>1, SequenceOf
<1>4. Len(listed) = Len(parts)
  BY <1>1, <1>2, <1>3, SameDomainSequence
<1> QED
  BY <1>1, <1>2, <1>3, <1>4 DEF listed, parts

LEMMA WantedParts == \A i : Tree!Wanted(i) = PartsOf(call.structure, nodes[i].definition)
BY DEF Tree!Wanted, Tree!structure, PartsOf

LEMMA TreeStart == Init => TreeInv
<1> SUFFICES ASSUME Init
             PROVE  TreeInv
  OBVIOUS
<1>1. nodes = << >> /\ stack = << >> /\ expanded = {} /\ call \in Requests
  BY DEF Init, Tree!Start, Totals!Init
<1>2. IsSequence(nodes) /\ IsSequence(stack) /\ 1..Len(nodes) = {} /\ 1..Len(stack) = {}
  BY <1>1, ShortSequences
<1> QED
  BY <1>1, <1>2 DEF TreeInv, TreeNodes, TreeLevels, TreeMarks

(* One node more: it is listed by its parent, after all others, and lists    *)
(* nothing itself.                                                         *)
LEMMA ListedGrows ==
  ASSUME TreeNodes, NEW n, n = Len(nodes), NEW x, NEW p \in 0..n, x.parent = p,
         nodes' = Append(nodes, x), call' = call
  PROVE  /\ n \in Nat /\ IsSequence(nodes') /\ Len(nodes') = n + 1
         /\ \A i \in 1..n : nodes'[i] = nodes[i] /\ Tree!Wanted(i)' = Tree!Wanted(i)
         /\ nodes'[n + 1] = x
         /\ \A i \in 1..n : i # p => Tree!Listed(i)' = Tree!Listed(i)
         /\ Tree!Listed(n + 1)' = [k \in {} |-> 0]
         /\ \A c \in Nat : p # 0 /\ DOMAIN Tree!Listed(p) = 1..c =>
              Tree!Listed(p)' = [k \in 1..c + 1 |-> IF k = c + 1 THEN x.definition ELSE Tree!Listed(p)[k]]
<1>1. n \in Nat /\ DOMAIN nodes = 1..n /\ IsSequence(nodes)
  BY SequenceOf DEF TreeNodes
<1>2. /\ IsSequence(nodes') /\ Len(nodes') = n + 1 /\ DOMAIN nodes' = 1..n + 1
      /\ \A i \in 1..n : nodes'[i] = nodes[i]
      /\ nodes'[n + 1] = x
  BY <1>1, AppendSequence, SequenceOf
<1> DEFINE S(i) == {j \in DOMAIN nodes : nodes[j].parent = i}
           T(i) == {j \in DOMAIN nodes' : nodes'[j].parent = i}
           L(i) == [k \in DOMAIN InOrder(S(i)) |-> nodes[InOrder(S(i))[k]].definition]
           M(i) == [k \in DOMAIN InOrder(T(i)) |-> nodes'[InOrder(T(i))[k]].definition]
<1>3. \A i : Tree!Listed(i) = L(i)
  BY TreeOrder DEF Tree!Listed
<1>4. \A i : Tree!Listed(i)' = M(i)
  BY TreeOrder DEF Tree!Listed
<1>5. \A i : S(i) \subseteq 1..n /\ S(i) \subseteq Nat /\ IsFiniteSet(S(i))
  <2> SUFFICES ASSUME NEW i
               PROVE  S(i) \subseteq 1..n /\ S(i) \subseteq Nat /\ IsFiniteSet(S(i))
    OBVIOUS
  <2>1. S(i) \subseteq DOMAIN nodes
    OBVIOUS
  <2> HIDE DEF S
  <2> QED
    BY <1>1, <2>1, PlacesFinite
<1>6. \A i : i # p => T(i) = S(i)
  BY <1>1, <1>2
<1>7. T(p) = S(p) \cup {n + 1}
  BY <1>1, <1>2
<1>8. T(n + 1) = {}
  <2>1. \A j \in 1..n : nodes[j].parent \in 0..n
    BY <1>1 DEF TreeNodes
  <2> QED
    BY <1>1, <1>2, <2>1
<1>9. \A i : /\ Cardinality(S(i)) \in Nat /\ DOMAIN InOrder(S(i)) = 1..Cardinality(S(i))
             /\ \A k \in DOMAIN InOrder(S(i)) : InOrder(S(i))[k] \in 1..n
  <2> HIDE DEF S
  <2> QED
    BY <1>5, InOrderLists
<1>10. ASSUME NEW i \in 1..n, i # p
       PROVE  Tree!Listed(i)' = Tree!Listed(i)
  <2>1. T(i) = S(i)
    BY <1>6, <1>10
  <2>2. M(i) = L(i)
    <3> HIDE DEF S, T
    <3> QED
      BY <1>2, <1>9, <2>1
  <2> QED
    BY <1>3, <1>4, <2>2
<1>11. Tree!Listed(n + 1)' = [k \in {} |-> 0]
  <2>1. DOMAIN InOrder(T(n + 1)) = {}
    <3>1. T(n + 1) \subseteq Nat /\ IsFiniteSet(T(n + 1)) /\ Cardinality(T(n + 1)) = 0
      BY <1>8, FS_EmptySet
    <3> HIDE DEF T
    <3>2. DOMAIN InOrder(T(n + 1)) = 1..0
      BY <3>1, InOrderLists
    <3> QED
      BY <3>2
  <2>2. M(n + 1) = [k \in {} |-> 0]
    <3> HIDE DEF T
    <3> QED
      BY <2>1
  <2> QED
    BY <1>1, <1>4, <2>2
<1>12. ASSUME NEW c \in Nat, p # 0, DOMAIN Tree!Listed(p) = 1..c
       PROVE  Tree!Listed(p)' = [k \in 1..c + 1 |-> IF k = c + 1 THEN x.definition ELSE Tree!Listed(p)[k]]
  <2> DEFINE order == InOrder(S(p))
             after == InOrder(T(p))
  <2>1. DOMAIN L(p) = DOMAIN order /\ DOMAIN L(p) = 1..c
    BY <1>3, <1>12
  <2>2. DOMAIN order = 1..c /\ Cardinality(S(p)) = c
    <3>1. PICK m \in Nat : m = Cardinality(S(p)) /\ DOMAIN order = 1..m
      BY <1>9
    <3>2. 1..m = 1..c
      BY <2>1, <3>1
    <3>3. m = c
      BY <3>2
    <3> QED
      BY <3>1, <3>3
  <2>3. /\ DOMAIN after = 1..c + 1 /\ after[c + 1] = n + 1
        /\ \A k \in 1..c : after[k] = order[k] /\ order[k] \in 1..n
    <3>1. \A i \in S(p) : i < n + 1
      BY <1>1, <1>5
    <3> DEFINE more == S(p) \cup {n + 1}
    <3>2. after = InOrder(more)
      BY <1>7
    <3>6. n + 1 \in Nat
      BY <1>1
    <3>4. S(p) \subseteq Nat /\ IsFiniteSet(S(p))
      <4> HIDE DEF S
      <4> QED
        BY <1>5
    <3>5. /\ DOMAIN InOrder(more) = 1..Cardinality(S(p)) + 1
          /\ \A k \in 1..Cardinality(S(p)) : InOrder(more)[k] = InOrder(S(p))[k]
          /\ InOrder(more)[Cardinality(S(p)) + 1] = n + 1
      <4> HIDE DEF S
      <4> QED
        BY <3>1, <3>4, <3>6, InOrderGrows
    <3>3. \A k \in 1..c : order[k] \in 1..n
      BY <1>9, <2>2
    <3> HIDE DEF S, T, after, more
    <3> QED
      BY <2>2, <3>2, <3>3, <3>5
  <2>4. M(p) = [k \in DOMAIN after |-> nodes'[after[k]].definition]
        /\ L(p) = [k \in DOMAIN order |-> nodes[order[k]].definition]
    OBVIOUS
  <2> HIDE DEF order, after, M, L
  <2>5. \A k \in 1..c : nodes'[after[k]].definition = L(p)[k]
    BY <1>2, <2>2, <2>3, <2>4
  <2>6. nodes'[after[c + 1]].definition = x.definition
    BY <1>2, <2>3
  <2>7. M(p) = [k \in 1..c + 1 |-> IF k = c + 1 THEN x.definition ELSE L(p)[k]]
    <3>1. \A k \in 1..c + 1 : k # c + 1 => k \in 1..c
      OBVIOUS
    <3> QED
      BY <2>3, <2>4, <2>5, <2>6, <3>1
  <2> QED
    BY <1>3, <1>4, <2>7
<1>13. \A i \in 1..n : Tree!Wanted(i)' = Tree!Wanted(i)
  BY <1>2 DEF Tree!Wanted, Tree!structure
<1> QED
  BY <1>1, <1>2, <1>10, <1>11, <1>12, <1>13

(* A node that bom_node makes, under the call on top or as the root.         *)
LEMMA Entered ==
  ASSUME TreeInv, NEW n, n = Len(nodes), NEW m, m = Len(stack),
         NEW d \in Definitions(call.structure), NEW p \in 0..n,
         NEW q, NEW t, NEW level, NEW callers,
         Tree!Enter(d, p, q, t, level, callers), call' = call,
         IsSequence(callers), Len(callers) = m,
         \A k \in 1..m : /\ IsLevel(callers[k]) /\ callers[k].at = stack[k].at
                         /\ callers[k].done = IF k = m THEN stack[k].done + 1 ELSE stack[k].done,
         p = 0 <=> m = 0,
         m # 0 => /\ stack[m].at = p /\ stack[m].done < Len(Tree!Wanted(p))
                  /\ Tree!Wanted(p)[stack[m].done + 1] = d
  PROVE  TreeInv'
<1> DEFINE x == Tree!Node(d, p, q, t, level, Tree!Spent)
           opens == Tree!Opens(d, level, Tree!Spent)
<1>1. /\ IsNode(x) /\ x.definition = d /\ x.parent = p
      /\ x.repeated <=> Tree!IsAssembly(call.structure, d) /\ Tree!IsRepeated(d)
      /\ x.truncated <=> /\ Tree!IsAssembly(call.structure, d) /\ ~Tree!IsRepeated(d)
                         /\ Tree!IsCutOff(d, level, Tree!Spent)
  BY DEF Tree!Node, Tree!structure, IsNode
<1>2. /\ nodes' = Append(nodes, x)
      /\ opens => stack' = Append(callers, Tree!Frame(n + 1)) /\ expanded' = expanded \cup {d}
      /\ ~opens => stack' = callers /\ expanded' = expanded
  BY DEF Tree!Enter
<1>3. opens <=> /\ Tree!IsAssembly(call.structure, d) /\ ~Tree!IsRepeated(d)
                /\ ~Tree!IsCutOff(d, level, Tree!Spent)
  BY DEF Tree!Opens, Tree!structure
<1> HIDE DEF x, opens
<1>4. /\ n \in Nat /\ IsSequence(nodes') /\ Len(nodes') = n + 1
      /\ \A i \in 1..n : nodes'[i] = nodes[i] /\ Tree!Wanted(i)' = Tree!Wanted(i)
      /\ nodes'[n + 1] = x
      /\ \A i \in 1..n : i # p => Tree!Listed(i)' = Tree!Listed(i)
      /\ Tree!Listed(n + 1)' = [k \in {} |-> 0]
      /\ \A c \in Nat : p # 0 /\ DOMAIN Tree!Listed(p) = 1..c =>
           Tree!Listed(p)' = [k \in 1..c + 1 |-> IF k = c + 1 THEN x.definition ELSE Tree!Listed(p)[k]]
  BY <1>1, <1>2, ListedGrows DEF TreeInv
<1>5. m \in Nat /\ IsSequence(stack)
  BY SequenceOf DEF TreeInv, TreeLevels
<1>6. /\ IsSequence(stack') /\ \A k \in 1..m : stack'[k] = callers[k]
      /\ opens => Len(stack') = m + 1 /\ stack'[m + 1] = Tree!Frame(n + 1)
      /\ ~opens => Len(stack') = m
  <2>1. CASE opens
    <3> DEFINE f == Tree!Frame(n + 1)
    <3> HIDE DEF f
    <3>1. /\ IsSequence(Append(callers, f)) /\ Len(Append(callers, f)) = m + 1
          /\ \A k \in 1..m : Append(callers, f)[k] = callers[k]
          /\ Append(callers, f)[m + 1] = f
      BY AppendSequence
    <3>2. stack' = Append(callers, f)
      BY <1>2, <2>1 DEF f
    <3>3. IsSequence(stack') /\ Len(stack') = m + 1 /\ stack'[m + 1] = f
          /\ \A k \in 1..m : stack'[k] = callers[k]
      BY <3>1, <3>2
    <3> QED
      BY <2>1, <3>3 DEF f
  <2>2. CASE ~opens
    BY <1>2, <2>2
  <2> QED
    BY <2>1, <2>2
<1>7. /\ IsLevel(Tree!Frame(n + 1)) /\ Tree!Frame(n + 1).at = n + 1 /\ Tree!Frame(n + 1).done = 0
  BY DEF Tree!Frame, IsLevel
<1>8. /\ Tree!Wanted(n + 1)' = PartsOf(call.structure, d)
      /\ Len(Tree!Wanted(n + 1)') \in Nat
      /\ ~Tree!IsAssembly(call.structure, d) => Tree!Wanted(n + 1)' = [k \in {} |-> 0]
  <2>1. Tree!Wanted(n + 1)' = PartsOf(call.structure, d)
    BY <1>1, <1>4 DEF Tree!Wanted, Tree!structure, PartsOf
  <2>2. IsStructure(call.structure)
    BY RequestsAssumption DEF TreeInv
  <2> DEFINE parts == PartsOf(call.structure, d)
  <2>3. /\ Len(parts) \in Nat /\ parts = [k \in 1..Len(parts) |-> parts[k]]
        /\ ~Tree!IsAssembly(call.structure, d) => Len(parts) = 0
    BY <2>2, PartsListed
  <2> HIDE DEF parts
  <2>4. ASSUME Len(parts) = 0
        PROVE  parts = [k \in {} |-> 0]
    <3>1. 1..Len(parts) = {}
      BY <2>4
    <3> QED
      BY <2>3, <3>1
  <2> QED
    BY <2>1, <2>3, <2>4 DEF parts
<1>9. TreeNodes'
  BY <1>1, <1>4 DEF TreeInv, TreeNodes
<1>10. \A k \in 1..m : IsLevel(stack[k]) /\ stack[k].at \in 1..n
  BY DEF TreeInv, TreeLevels
<1>11. \A j, k \in 1..m : stack[j].at = stack[k].at => j = k
  BY DEF TreeInv, TreeLevels
<1>12. ASSUME NEW k \in 1..m, NEW i \in 1..n, stack[k].at = i
       PROVE  /\ stack'[k].done \in 0..Len(Tree!Wanted(i)')
              /\ Tree!Listed(i)' = [j \in 1..stack'[k].done |-> Tree!Wanted(i)'[j]]
  <2>1. Tree!Wanted(i)' = Tree!Wanted(i)
    BY <1>4
  <2>2. PICK c : c = stack[k].done
    OBVIOUS
  <2>3. stack'[k].done = IF k = m THEN c + 1 ELSE c
    BY <1>6, <2>2
  <2>4. PICK w : w = Tree!Wanted(i)
    OBVIOUS
  <2>5. c \in 0..Len(w) /\ Tree!Listed(i) = [j \in 1..c |-> w[j]]
    BY <1>12, <2>2, <2>4 DEF TreeInv, TreeLevels
  <2>6. Len(w) \in Nat
    <3>1. IsStructure(call.structure) /\ nodes[i].definition \in Definitions(call.structure)
      BY RequestsAssumption DEF TreeInv, TreeNodes
    <3>2. w = PartsOf(call.structure, nodes[i].definition)
      BY <2>4, WantedParts
    <3> QED
      BY <3>1, <3>2, PartsListed
  <2>7. CASE k = m
    <3>1. p # 0 /\ i = p /\ c < Len(w) /\ w[c + 1] = d /\ c \in Nat
      BY <1>4, <1>5, <1>12, <2>2, <2>4, <2>5, <2>6, <2>7
    <3>2. DOMAIN Tree!Listed(p) = 1..c
      BY <2>5, <3>1
    <3>3. Tree!Listed(p)' = [j \in 1..c + 1 |-> IF j = c + 1 THEN d ELSE Tree!Listed(p)[j]]
      <4>1. x.definition = d
        BY <1>1
      <4>2. \A c0 \in Nat : p # 0 /\ DOMAIN Tree!Listed(p) = 1..c0 =>
              Tree!Listed(p)' = [j \in 1..c0 + 1 |-> IF j = c0 + 1 THEN x.definition ELSE Tree!Listed(p)[j]]
        BY <1>4
      <4>3. Tree!Listed(p)' = [j \in 1..c + 1 |-> IF j = c + 1 THEN x.definition ELSE Tree!Listed(p)[j]]
        BY <3>1, <3>2, <4>2
      <4> QED
        BY <4>1, <4>3
    <3>4. \A j \in 1..c + 1 : j # c + 1 => j \in 1..c
      BY <3>1
    <3>5. Tree!Listed(p)' = [j \in 1..c + 1 |-> w[j]]
      BY <2>5, <3>1, <3>3, <3>4
    <3>6. c + 1 \in 0..Len(w)
      BY <2>6, <3>1
    <3> QED
      BY <2>1, <2>3, <2>4, <2>7, <3>1, <3>5, <3>6
  <2>8. CASE k # m
    <3>1. i # p
      BY <1>5, <1>11, <1>12, <2>8
    <3>2. Tree!Listed(i)' = Tree!Listed(i)
      BY <1>4, <3>1
    <3> QED
      BY <2>1, <2>3, <2>4, <2>5, <2>8, <3>2
  <2> QED
    BY <2>7, <2>8
<1>13. TreeLevels'
  <2>1. \A k \in 1..m : IsLevel(stack'[k]) /\ stack'[k].at = stack[k].at /\ stack'[k].at \in 1..n
    BY <1>6, <1>10
  <2>2. \A k \in 1..Len(stack') :
          k \notin 1..m => /\ k = m + 1 /\ IsLevel(stack'[k])
                          /\ stack'[k].at = n + 1 /\ stack'[k].done = 0
    BY <1>5, <1>6, <1>7
  <2>3. n + 1 \in 1..n + 1 /\ n + 1 \notin 1..n /\ \A i \in 1..n + 1 : i # n + 1 => i \in 1..n
        /\ 1..n \subseteq 1..n + 1
    BY <1>4
  <2>4. \A k \in 1..Len(stack') : IsLevel(stack'[k]) /\ stack'[k].at \in 1..n + 1
    BY <2>1, <2>2, <2>3
  <2>5. ASSUME NEW k \in 1..Len(stack'), NEW i \in 1..n + 1, stack'[k].at = i
        PROVE  /\ stack'[k].done \in 0..Len(Tree!Wanted(i)')
               /\ Tree!Listed(i)' = [j \in 1..stack'[k].done |-> Tree!Wanted(i)'[j]]
    <3>1. CASE k \in 1..m
      <4>1. stack[k].at = i /\ i \in 1..n
        BY <2>1, <2>5, <3>1
      <4> QED
        BY <1>12, <3>1, <4>1
    <3>2. CASE k \notin 1..m
      <4>1. i = n + 1 /\ stack'[k].done = 0
        BY <2>2, <2>5, <3>2
      <4>2. 1..stack'[k].done = {}
        BY <4>1
      <4>3. Tree!Listed(i)' = [j \in 1..stack'[k].done |-> Tree!Wanted(i)'[j]]
        BY <1>4, <4>1, <4>2
      <4> QED
        BY <1>8, <4>1, <4>3
    <3> QED
      BY <3>1, <3>2
  <2>6. ASSUME NEW j \in 1..Len(stack'), NEW k \in 1..Len(stack'), stack'[j].at = stack'[k].at
        PROVE  j = k
    BY <1>11, <2>1, <2>2, <2>3, <2>6
  <2> QED
    BY <1>4, <1>6, <2>4, <2>5, <2>6 DEF TreeLevels
<1>14. ASSUME NEW i \in 1..n, Held(i)
       PROVE  Held(i)'
  <2>1. CASE nodes[i].truncated
    BY <1>4, <2>1 DEF Held
  <2>2. CASE \E k \in 1..m : stack[k].at = i
    <3>1. PICK k \in 1..m : stack[k].at = i
      BY <2>2
    <3>2. stack'[k].at = i /\ k \in 1..Len(stack')
      BY <1>5, <1>6, <3>1
    <3> QED
      BY <3>2 DEF Held
  <2>3. CASE Tree!Listed(i) = Tree!Wanted(i) /\ ~\E k \in 1..m : stack[k].at = i
    <3>1. i # p
      BY <1>4, <1>5, <2>3
    <3> QED
      BY <1>4, <2>3, <3>1 DEF Held
  <2> QED
    BY <1>14, <2>1, <2>2, <2>3 DEF Held
<1>15. ASSUME opens
       PROVE  Held(n + 1)'
  <2>1. m + 1 \in 1..Len(stack') /\ stack'[m + 1].at = n + 1
    BY <1>5, <1>6, <1>7, <1>15
  <2> QED
    BY <2>1 DEF Held
<1>16. \/ Held(n + 1)'
       \/ x.repeated /\ \E j \in 1..n : nodes[j].definition = d /\ Held(j)
  <2>1. CASE ~Tree!IsAssembly(call.structure, d)
    BY <1>4, <1>8, <2>1 DEF Held
  <2>2. CASE Tree!IsAssembly(call.structure, d) /\ Tree!IsRepeated(d)
    BY <1>1, <2>2 DEF Tree!IsRepeated, TreeInv, TreeMarks
  <2>3. CASE x.truncated
    BY <1>4, <2>3 DEF Held
  <2> QED
    BY <1>1, <1>3, <1>15, <2>1, <2>2, <2>3
<1>17. TreeMarks'
  <2>1. ASSUME NEW i \in 1..n + 1
        PROVE  \/ Held(i)'
               \/ nodes'[i].repeated /\ \E j \in 1..i - 1 : nodes'[j].definition = nodes'[i].definition /\ Held(j)'
    <3>1. CASE i \in 1..n
      <4>1. \/ Held(i)
            \/ nodes[i].repeated /\ \E j \in 1..i - 1 : nodes[j].definition = nodes[i].definition /\ Held(j)
        BY <3>1 DEF TreeInv, TreeMarks
      <4>2. 1..i - 1 \subseteq 1..n
        BY <1>4, <3>1
      <4> QED
        BY <1>4, <1>14, <3>1, <4>1, <4>2
    <3>2. CASE i = n + 1
      <4>1. 1..i - 1 = 1..n
        BY <1>4, <3>2
      <4> QED
        BY <1>1, <1>4, <1>14, <1>16, <3>2, <4>1
    <3> QED
      BY <1>4, <3>1, <3>2
  <2>2. ASSUME NEW e \in expanded'
        PROVE  \E j \in 1..n + 1 : nodes'[j].definition = e /\ Held(j)'
    <3>1. CASE e \in expanded
      <4>1. PICK j \in 1..n : nodes[j].definition = e /\ Held(j)
        BY <3>1 DEF TreeInv, TreeMarks
      <4>2. j \in 1..n + 1
        BY <1>4
      <4> QED
        BY <1>4, <1>14, <4>1, <4>2
    <3>2. CASE e \notin expanded
      <4>1. opens /\ e = d
        BY <1>2, <2>2, <3>2
      <4> QED
        BY <1>1, <1>4, <1>15, <4>1
    <3> QED
      BY <3>1, <3>2
  <2> QED
    BY <1>4, <2>1, <2>2 DEF TreeMarks
<1> QED
  BY <1>9, <1>13, <1>17 DEF TreeInv

LEMMA TreeBegin ==
  ASSUME TreeInv, Tree!Begin
  PROVE  TreeInv'
<1>1. nodes = << >> /\ call' = call /\ Tree!Enter(call.root, 0, 1, 1, 0, << >>)
  BY DEF Tree!Begin
<1>2. call.root \in Definitions(call.structure)
  BY RequestsAssumption DEF TreeInv
<1>3. Len(nodes) = 0 /\ IsSequence(<< >>) /\ Len(<< >>) = 0
  BY <1>1, ShortSequences
<1>4. Len(stack) = 0
  <2>1. Len(stack) \in Nat
    BY SequenceOf DEF TreeInv, TreeLevels
  <2>2. ~\E k \in 1..Len(stack) : TRUE
    BY <1>3 DEF TreeInv, TreeLevels
  <2> QED
    BY <2>1, <2>2
<1>5. 1..0 = {} /\ 0 \in 0..0
  OBVIOUS
<1> QED
  BY <1>1, <1>2, <1>3, <1>4, <1>5, Entered

(* The level on top, its node, and what that node is to list.                *)
LEMMA TopLevel ==
  ASSUME TreeInv, stack # << >>
  PROVE  /\ Len(stack) \in Nat \ {0} /\ Len(stack) \in 1..Len(stack)
         /\ Tree!Top = stack[Len(stack)] /\ IsLevel(Tree!Top)
         /\ Len(nodes) \in Nat /\ Tree!Top.at \in 1..Len(nodes) /\ Tree!Top.at # 0
         /\ Tree!Parts = Tree!Components(call.structure, nodes[Tree!Top.at].definition)
         /\ Len(Tree!Wanted(Tree!Top.at)) = Len(Tree!Parts) /\ Len(Tree!Parts) \in Nat
         /\ \A k \in 1..Len(Tree!Parts) :
              /\ Tree!Wanted(Tree!Top.at)[k] = Tree!Parts[k].definition
              /\ Tree!Parts[k].definition \in Definitions(call.structure)
         /\ Tree!Wanted(Tree!Top.at) = [k \in 1..Len(Tree!Parts) |-> Tree!Wanted(Tree!Top.at)[k]]
         /\ Tree!Top.done \in 0..Len(Tree!Parts)
         /\ Tree!Listed(Tree!Top.at) = [j \in 1..Tree!Top.done |-> Tree!Wanted(Tree!Top.at)[j]]
<1>1. Len(stack) \in Nat /\ Len(stack) # 0
  <2>1. Len(stack) \in Nat /\ DOMAIN stack = 1..Len(stack) /\ stack = [i \in 1..Len(stack) |-> stack[i]]
    BY SequenceOf DEF TreeInv, TreeLevels, IsSequence
  <2>2. ASSUME Len(stack) = 0
        PROVE  stack = << >>
    <3>1. 1..Len(stack) = {}
      BY <2>2
    <3> QED
      BY <2>1, <3>1
  <2> QED
    BY <2>1, <2>2
<1>2. Len(stack) \in 1..Len(stack)
  BY <1>1
<1>3. Tree!Top = stack[Len(stack)]
  BY DEF Tree!Top, Tree!Last
<1>4. IsLevel(Tree!Top) /\ Tree!Top.at \in 1..Len(nodes) /\ Len(nodes) \in Nat
  BY <1>2, <1>3, SequenceOf DEF TreeInv, TreeLevels, TreeNodes
<1> DEFINE i == Tree!Top.at
           d == nodes[i].definition
<1>5. Tree!Parts = Tree!Components(call.structure, d)
  BY DEF Tree!Parts, Tree!TopNode, Tree!structure
<1>6. IsStructure(call.structure) /\ d \in Definitions(call.structure)
  BY <1>4, RequestsAssumption DEF TreeInv, TreeNodes
<1>7. Tree!Wanted(i) = PartsOf(call.structure, d)
  BY WantedParts
<1>8. /\ Len(Tree!Parts) \in Nat /\ Len(Tree!Wanted(i)) = Len(Tree!Parts)
      /\ Tree!Wanted(i) = [k \in 1..Len(Tree!Wanted(i)) |-> Tree!Wanted(i)[k]]
      /\ \A k \in 1..Len(Tree!Wanted(i)) :
           /\ Tree!Wanted(i)[k] = Tree!Parts[k].definition
           /\ Tree!Wanted(i)[k] \in Definitions(call.structure)
  <2> HIDE DEF d
  <2> QED
    BY <1>5, <1>6, <1>7, PartsListed
<1>9. /\ Tree!Top.done \in 0..Len(Tree!Wanted(i))
      /\ Tree!Listed(i) = [j \in 1..Tree!Top.done |-> Tree!Wanted(i)[j]]
  BY <1>2, <1>3, <1>4 DEF TreeInv, TreeLevels
<1>10. i # 0
  BY <1>4
<1> QED
  BY <1>1, <1>2, <1>3, <1>4, <1>5, <1>8, <1>9, <1>10

LEMMA TreeAdd ==
  ASSUME TreeInv, Tree!AddComponent
  PROVE  TreeInv'
<1> DEFINE m == Len(stack)
           p == Tree!Top.at
           part == Tree!Parts[Tree!Top.done + 1]
           callers == [stack EXCEPT ![Len(stack)].done = @ + 1]
<1>1. /\ stack # << >> /\ Tree!Top.done < Len(Tree!Parts) /\ call' = call
      /\ Tree!Enter(part.definition, p, part.quantity, Tree!TopNode.total * part.quantity, m, callers)
  BY DEF Tree!AddComponent
<1>2. /\ m \in Nat \ {0} /\ m \in 1..m
      /\ Tree!Top = stack[m] /\ IsLevel(Tree!Top)
      /\ Len(nodes) \in Nat /\ p \in 1..Len(nodes) /\ p # 0
      /\ Len(Tree!Wanted(p)) = Len(Tree!Parts) /\ Len(Tree!Parts) \in Nat
      /\ \A k \in 1..Len(Tree!Parts) :
           /\ Tree!Wanted(p)[k] = Tree!Parts[k].definition
           /\ Tree!Parts[k].definition \in Definitions(call.structure)
      /\ Tree!Top.done \in 0..Len(Tree!Parts)
  BY <1>1, TopLevel
<1>3. Tree!Top.done + 1 \in 1..Len(Tree!Parts)
  BY <1>1, <1>2
<1>4. /\ part.definition \in Definitions(call.structure)
      /\ Tree!Wanted(p)[Tree!Top.done + 1] = part.definition
  BY <1>2, <1>3
<1>5. IsSequence(stack) /\ DOMAIN stack = 1..m /\ \A k \in 1..m : IsLevel(stack[k])
  BY SequenceOf DEF TreeInv, TreeLevels
<1>6. /\ callers = [k \in DOMAIN stack |-> callers[k]]
      /\ \A k \in 1..m : callers[k] = IF k = m THEN [stack[m] EXCEPT !.done = @ + 1] ELSE stack[k]
  BY <1>2, <1>5
<1>7. \A k \in 1..m : /\ IsLevel(callers[k]) /\ callers[k].at = stack[k].at
                      /\ callers[k].done = IF k = m THEN stack[k].done + 1 ELSE stack[k].done
  BY <1>2, <1>5, <1>6 DEF IsLevel
<1>8. IsSequence(callers) /\ Len(callers) = m
  <2> HIDE DEF callers
  <2> QED
    BY <1>5, <1>6, SameDomainSequence
<1>9. p \in 0..Len(nodes)
  BY <1>2
<1>10. /\ p = 0 <=> m = 0
       /\ m # 0 => /\ stack[m].at = p /\ stack[m].done < Len(Tree!Wanted(p))
                   /\ Tree!Wanted(p)[stack[m].done + 1] = part.definition
  BY <1>1, <1>2, <1>4
<1> DEFINE q == part.quantity
           t == Tree!TopNode.total * part.quantity
           d == part.definition
<1>11. Tree!Enter(d, p, q, t, m, callers) /\ call' = call
  BY <1>1
<1> HIDE DEF callers, part, m, p, q, t, d
<1> QED
  BY <1>4, <1>7, <1>8, <1>9, <1>10, <1>11, Entered DEF d, m

(* A node on top is left: its level goes, and it is cut off or whole.        *)
LEMMA TreeLeft ==
  ASSUME TreeInv, stack # << >>, stack' = Tree!Front(stack), call' = call, expanded' = expanded,
         NEW n, n = Len(nodes), NEW at, at = Tree!Top.at,
         IsSequence(nodes'), Len(nodes') = n,
         \A i \in 1..n : /\ nodes'[i].definition = nodes[i].definition /\ IsNode(nodes'[i])
                         /\ nodes'[i].parent = nodes[i].parent
                         /\ nodes'[i].repeated = nodes[i].repeated
                         /\ nodes[i].truncated => nodes'[i].truncated,
         nodes'[at].truncated \/ Tree!Top.done = Len(Tree!Parts)
  PROVE  TreeInv'
<1> DEFINE m == Len(stack)
<1>1. /\ m \in Nat \ {0} /\ m \in 1..m
      /\ Tree!Top = stack[m] /\ at \in 1..n /\ n \in Nat
      /\ Len(Tree!Wanted(at)) = Len(Tree!Parts)
      /\ Tree!Wanted(at) = [k \in 1..Len(Tree!Parts) |-> Tree!Wanted(at)[k]]
      /\ Tree!Listed(at) = [j \in 1..Tree!Top.done |-> Tree!Wanted(at)[j]]
  BY TopLevel
<1>2. /\ IsSequence(stack') /\ Len(stack') = m - 1
      /\ \A k \in 1..m - 1 : stack'[k] = stack[k]
  <2>1. stack' = Front(stack) /\ IsSequence(stack)
    BY DEF Tree!Front, Front, TreeInv, TreeLevels
  <2> QED
    BY <1>1, <2>1, FrontSequence
<1>3. 1..m - 1 \subseteq 1..m /\ \A k \in 1..m : k # m => k \in 1..m - 1
  BY <1>1
<1>4. DOMAIN nodes = 1..n /\ DOMAIN nodes' = 1..n
  BY SequenceOf DEF TreeInv, TreeNodes
<1>5. \A i \in 1..n : Tree!Wanted(i)' = Tree!Wanted(i)
  BY WantedParts DEF Tree!Wanted, Tree!structure, PartsOf
<1>6. \A i \in 1..n : Tree!Listed(i)' = Tree!Listed(i)
  <2> SUFFICES ASSUME NEW i \in 1..n
               PROVE  Tree!Listed(i)' = Tree!Listed(i)
    OBVIOUS
  <2> DEFINE S == {j \in DOMAIN nodes : nodes[j].parent = i}
             T == {j \in DOMAIN nodes' : nodes'[j].parent = i}
             order == InOrder(S)
  <2>1. T = S
    BY <1>4
  <2>2. Tree!Listed(i) = [k \in DOMAIN InOrder(S) |-> nodes[InOrder(S)[k]].definition]
    BY TreeOrder DEF Tree!Listed
  <2>3. Tree!Listed(i)' = [k \in DOMAIN InOrder(T) |-> nodes'[InOrder(T)[k]].definition]
    BY TreeOrder DEF Tree!Listed
  <2>4. \A k \in DOMAIN order : order[k] \in 1..n
    <3>1. S \subseteq 1..n /\ S \subseteq DOMAIN nodes
      BY <1>4
    <3>2. S \subseteq Nat /\ IsFiniteSet(S)
      <4> HIDE DEF S
      <4> QED
        BY <3>1, PlacesFinite DEF TreeInv, TreeNodes
    <3> HIDE DEF S
    <3>3. DOMAIN order = 1..Cardinality(S) /\ \A k \in 1..Cardinality(S) : order[k] \in S
      BY <3>2, InOrderLists
    <3> QED
      BY <3>1, <3>3
  <2> HIDE DEF S, T
  <2>5. [k \in DOMAIN order |-> nodes'[order[k]].definition] = [k \in DOMAIN order |-> nodes[order[k]].definition]
    <3> HIDE DEF order
    <3> QED
      BY <2>4
  <2> QED
    BY <2>1, <2>2, <2>3, <2>5
<1>7. TreeNodes'
  BY DEF TreeInv, TreeNodes
<1>8. TreeLevels'
  BY <1>2, <1>3, <1>5, <1>6 DEF TreeInv, TreeLevels
<1>9. ASSUME NEW i \in 1..n, Held(i)
      PROVE  Held(i)'
  <2>1. CASE nodes[i].truncated
    BY <2>1 DEF Held
  <2>2. CASE Tree!Listed(i) = Tree!Wanted(i)
    BY <1>5, <1>6, <2>2 DEF Held
  <2>3. CASE \E k \in 1..m : stack[k].at = i
    <3>1. PICK k \in 1..m : stack[k].at = i
      BY <2>3
    <3>2. CASE k = m
      <4>1. i = at
        BY <1>1, <3>1, <3>2
      <4>2. CASE nodes'[at].truncated
        BY <4>1, <4>2 DEF Held
      <4>3. CASE Tree!Top.done = Len(Tree!Parts)
        <5>1. Tree!Listed(at) = Tree!Wanted(at)
          BY <1>1, <4>3
        <5> QED
          BY <1>5, <1>6, <4>1, <5>1 DEF Held
      <4> QED
        BY <4>2, <4>3
    <3>3. CASE k # m
      <4>1. k \in 1..Len(stack') /\ stack'[k].at = i
        BY <1>2, <1>3, <3>1, <3>3
      <4> QED
        BY <4>1 DEF Held
    <3> QED
      BY <3>2, <3>3
  <2> QED
    BY <1>9, <2>1, <2>2, <2>3 DEF Held
<1>10. \A i \in 1..n : 1..i - 1 \subseteq 1..n
  BY <1>1
<1>11. TreeMarks'
  <2>1. ASSUME NEW i \in 1..n
        PROVE  \/ Held(i)'
               \/ nodes'[i].repeated /\ \E j \in 1..i - 1 : nodes'[j].definition = nodes'[i].definition /\ Held(j)'
    <3>1. \/ Held(i)
          \/ nodes[i].repeated /\ \E j \in 1..i - 1 : nodes[j].definition = nodes[i].definition /\ Held(j)
      BY DEF TreeInv, TreeMarks
    <3> QED
      BY <1>9, <1>10, <3>1
  <2>2. ASSUME NEW e \in expanded
        PROVE  \E j \in 1..n : nodes'[j].definition = e /\ Held(j)'
    <3>1. PICK j \in 1..n : nodes[j].definition = e /\ Held(j)
      BY DEF TreeInv, TreeMarks
    <3> QED
      BY <1>9, <3>1
  <2> QED
    BY <2>1, <2>2 DEF TreeMarks
<1> QED
  BY <1>7, <1>8, <1>11 DEF TreeInv

LEMMA TreeBreak ==
  ASSUME TreeInv, Tree!BreakOff
  PROVE  TreeInv'
<1> DEFINE n == Len(nodes)
           at == Tree!Top.at
<1>1. /\ stack # << >> /\ stack' = Tree!Front(stack) /\ call' = call /\ expanded' = expanded
      /\ nodes' = [nodes EXCEPT ![at].truncated = TRUE]
  BY DEF Tree!BreakOff
<1>2. at \in 1..n
  BY <1>1, TopLevel
<1>3. IsSequence(nodes) /\ DOMAIN nodes = 1..n /\ \A i \in 1..n : IsNode(nodes[i])
  BY SequenceOf DEF TreeInv, TreeNodes
<1> HIDE DEF at
<1>4. /\ nodes' = [i \in DOMAIN nodes |-> nodes'[i]]
      /\ \A i \in 1..n : nodes'[i] = IF i = at THEN [nodes[at] EXCEPT !.truncated = TRUE] ELSE nodes[i]
  BY <1>1, <1>2, <1>3
<1>5. IsSequence(nodes') /\ Len(nodes') = n
  BY <1>3, <1>4, SameDomainSequence
<1>6. \A i \in 1..n : /\ nodes'[i].definition = nodes[i].definition /\ IsNode(nodes'[i])
                      /\ nodes'[i].parent = nodes[i].parent
                      /\ nodes'[i].repeated = nodes[i].repeated
                      /\ nodes[i].truncated => nodes'[i].truncated
                      /\ nodes'[at].truncated
  BY <1>2, <1>3, <1>4 DEF IsNode
<1> HIDE DEF n
<1> QED
  BY <1>1, <1>2, <1>5, <1>6, TreeLeft DEF n, at

LEMMA TreeComplete ==
  ASSUME TreeInv, Tree!Complete
  PROVE  TreeInv'
<1>1. /\ stack # << >> /\ stack' = Tree!Front(stack) /\ call' = call /\ expanded' = expanded
      /\ nodes' = nodes /\ Tree!Top.done = Len(Tree!Parts)
  BY DEF Tree!Complete
<1>2. IsSequence(nodes) /\ \A i \in 1..Len(nodes) : IsNode(nodes[i])
  BY DEF TreeInv, TreeNodes
<1> QED
  BY <1>1, <1>2, TreeLeft

LEMMA TreeUnchanged ==
  ASSUME TreeInv, UNCHANGED <<call, nodes, stack, expanded>>
  PROVE  TreeInv'
<1>1. \A i : Tree!Listed(i)' = Tree!Listed(i) /\ Tree!Wanted(i)' = Tree!Wanted(i)
  BY DEF Tree!Listed, Tree!Wanted, Tree!structure
<1>2. \A i : Held(i)' <=> Held(i)
  BY <1>1 DEF Held
<1> QED
  BY <1>1, <1>2 DEF TreeInv, TreeNodes, TreeLevels, TreeMarks

LEMMA TreeInvStep == TreeInv /\ [Next]_vars => TreeInv'
<1> SUFFICES ASSUME TreeInv, [Next]_vars
             PROVE  TreeInv'
  OBVIOUS
<1>1. CASE ListTree
  <2>1. CASE Tree!Begin
    BY <2>1, TreeBegin
  <2>2. CASE Tree!AddComponent
    BY <2>2, TreeAdd
  <2>3. CASE Tree!BreakOff
    BY <2>3, TreeBreak
  <2>4. CASE Tree!Complete
    BY <2>4, TreeComplete
  <2> QED
    BY <1>1, <2>1, <2>2, <2>3, <2>4 DEF ListTree, Tree!Next
<1>2. CASE ListTotals \/ UNCHANGED vars
  <2>1. UNCHANGED <<call, nodes, stack, expanded>>
    BY <1>2 DEF ListTotals, treeVars, vars, Totals!Next, Totals!SkipAncestor, Totals!UseMemo, Totals!Descend,
                Totals!Return
  <2> QED
    BY <2>1, TreeUnchanged
<1> QED
  BY <1>1, <1>2 DEF Next

LEMMA TreeInvImpliesMarked == TreeInv => MarkedIfIncomplete
<1> SUFFICES ASSUME TreeInv, Tree!Done, NEW i \in DOMAIN nodes
             PROVE  \/ nodes[i].truncated
                    \/ Tree!Listed(i) = Tree!Wanted(i)
                    \/ /\ nodes[i].repeated
                       /\ \E j \in 1..i - 1 : /\ nodes[j].definition = nodes[i].definition
                                              /\ Tree!Listed(j) = Tree!Wanted(j) \/ nodes[j].truncated
  BY DEF MarkedIfIncomplete, Tree!MarkedIfIncomplete
<1>1. 1..Len(stack) = {}
  BY ShortSequences DEF Tree!Done
<1>2. i \in 1..Len(nodes)
  BY SequenceOf DEF TreeInv, TreeNodes
<1>3. \A j : Held(j) => nodes[j].truncated \/ Tree!Listed(j) = Tree!Wanted(j)
  BY <1>1 DEF Held
<1> QED
  BY <1>2, <1>3 DEF TreeInv, TreeMarks

(* For every structure and every limit: when bom_tree has ended, a node that *)
(* does not list every component of its definition, in order, says so, and   *)
(* one that only says `repeated` repeats an earlier node that lists them or  *)
(* says itself that it is cut off.                                         *)
THEOREM TreeMarksWhatIsMissing == Spec => []MarkedIfIncomplete
<1>1. Init => TreeInv
  BY TreeStart
<1>2. TreeInv /\ [Next]_vars => TreeInv'
  BY TreeInvStep
<1> QED
  BY <1>1, <1>2, TreeInvImpliesMarked, PTL DEF Spec
=============================================================================
