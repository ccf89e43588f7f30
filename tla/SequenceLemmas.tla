---------------------------- MODULE SequenceLemmas ----------------------------
(***************************************************************************)
(* Facts about the operators the models are built from that the library    *)
(* does not state: what FlattenSeq returns, found by induction.             *)
(*                                                                         *)
(* The library's induction theorems take a predicate; here induction is    *)
(* over a set, the set of counterexamples, which has a least one.           *)
(***************************************************************************)
EXTENDS Order, SequencesExt, SequenceTheorems, FiniteSetTheorems, WellFoundedInduction, TLAPS

(* A set of naturals that is not empty has a least member. *)
LEMMA LeastNatural ==
  ASSUME NEW T, T \subseteq Nat, T # {}
  PROVE  \E m \in T : \A k \in T : m <= k
<1> DEFINE R == {ss \in Nat \X Nat : ss[1] < ss[2]}
<1>1. IsWellFoundedOn(R, Nat)
  BY NatLessThanWellFounded DEF OpToRel
<1>2. \A k, m \in Nat : <<k, m>> \in R <=> k < m
  OBVIOUS
<1> HIDE DEF R
<1>3. PICK m \in T : \A k \in T : ~ (<<k, m>> \in R)
  BY <1>1, WFMin
<1>4. ASSUME NEW k \in T PROVE m <= k
  <2>1. ~ (k < m)
    BY <1>2, <1>3
  <2> QED
    BY <2>1
<1> QED
  BY <1>4

(* Induction over an interval: a set that holds 0 and with every member     *)
(* below n the next one holds 0..n.                                        *)
LEMMA IntervalInduction ==
  ASSUME NEW n \in Nat, NEW P,
         0 \in P, \A m \in 0..n - 1 : m \in P => m + 1 \in P
  PROVE  0..n \subseteq P
<1> SUFFICES ASSUME (0..n) \ P # {} PROVE FALSE
  OBVIOUS
<1>1. (0..n) \ P \subseteq Nat
  OBVIOUS
<1>2. PICK m \in (0..n) \ P : \A k \in (0..n) \ P : m <= k
  <2> DEFINE T == (0..n) \ P
  <2>1. T \subseteq Nat /\ T # {}
    BY <1>1
  <2> HIDE DEF T
  <2>2. \E m \in T : \A k \in T : m <= k
    BY <2>1, LeastNatural
  <2> QED
    BY <2>2 DEF T
<1>3. m # 0 /\ m \in Nat /\ m <= n
  BY <1>2
<1>4. m - 1 \in 0..n - 1 /\ m - 1 \in P
  <2>1. m - 1 \in 0..n - 1 /\ ~ (m <= m - 1) /\ m - 1 \in 0..n
    BY <1>3
  <2> QED
    BY <1>2, <2>1
<1>5. (m - 1) + 1 \in P
  BY <1>4
<1>6. (m - 1) + 1 = m
  BY <1>3
<1> QED
  BY <1>2, <1>5, <1>6

-----------------------------------------------------------------------------
(* Sequences whose elements have no type to name.                           *)
LEMMA SequenceOf ==
  ASSUME NEW s, IsSequence(s)
  PROVE  /\ s \in Seq({s[i] : i \in 1..Len(s)})
         /\ DOMAIN s = 1..Len(s) /\ Len(s) \in Nat
<1>1. DOMAIN s = 1..Len(s) /\ Len(s) \in Nat
  <2>1. DOMAIN [i \in 1..Len(s) |-> s[i]] = 1..Len(s)
    OBVIOUS
  <2> QED
    BY <2>1 DEF IsSequence
<1>2. s \in [1..Len(s) -> {s[i] : i \in 1..Len(s)}]
  <2> DEFINE T == {s[i] : i \in 1..Len(s)}
  <2>1. \A i \in 1..Len(s) : s[i] \in T
    OBVIOUS
  <2>2. s = [i \in 1..Len(s) |-> s[i]]
    BY DEF IsSequence
  <2> HIDE DEF T
  <2>3. [i \in 1..Len(s) |-> s[i]] \in [1..Len(s) -> T]
    BY <2>1
  <2> QED
    BY <2>2, <2>3 DEF T
<1> QED
  BY <1>1, <1>2, SeqDef

LEMMA SeqIsSequence ==
  ASSUME NEW S, NEW s \in Seq(S)
  PROVE  IsSequence(s)
<1>1. Len(s) \in Nat /\ s \in [1..Len(s) -> S]
  BY LenProperties
<1> QED
  BY <1>1 DEF IsSequence

LEMMA ShortSequences ==
  /\ IsSequence(<< >>) /\ Len(<< >>) = 0
  /\ \A e : IsSequence(<<e>>) /\ Len(<<e>>) = 1 /\ <<e>>[1] = e
BY DEF IsSequence

LEMMA PlacesFinite ==
  ASSUME NEW s, IsSequence(s), NEW P, P \subseteq DOMAIN s
  PROVE  P \subseteq Nat /\ IsFiniteSet(P)
<1>1. PICK n \in Nat : DOMAIN s = 1..n
  BY SequenceOf
<1>2. IsFiniteSet(1..n)
  BY <1>1, FS_Interval
<1>3. P \subseteq 1..n /\ P \subseteq Nat
  BY <1>1
<1> QED
  BY <1>2, <1>3, FS_Subset

LEMMA BuiltSequence ==
  ASSUME NEW s, NEW n \in Nat, DOMAIN s = 1..n, s = [i \in 1..n |-> s[i]]
  PROVE  IsSequence(s) /\ Len(s) = n
<1> DEFINE T == {s[i] : i \in 1..n}
<1>1. \A i \in 1..n : s[i] \in T
  OBVIOUS
<1> HIDE DEF T
<1>2. s \in [1..n -> T]
  <2>1. [i \in 1..n |-> s[i]] \in [1..n -> T]
    BY <1>1
  <2> QED
    BY <2>1
<1>3. s \in Seq(T)
  BY <1>2, SeqDef
<1>4. Len(s) = n
  BY <1>2, <1>3
<1> QED
  BY <1>3, <1>4, SeqIsSequence

LEMMA AppendSequence ==
  ASSUME NEW s, IsSequence(s), NEW e
  PROVE  /\ IsSequence(Append(s, e)) /\ Len(Append(s, e)) = Len(s) + 1
         /\ \A i \in 1..Len(s) : Append(s, e)[i] = s[i]
         /\ Append(s, e)[Len(s) + 1] = e
<1> DEFINE T == {s[i] : i \in 1..Len(s)} \cup {e}
<1>1. s \in Seq(T)
  <2> DEFINE A == {s[i] : i \in 1..Len(s)}
  <2>1. A \subseteq T
    OBVIOUS
  <2>2. s \in Seq(A)
    BY SequenceOf
  <2> HIDE DEF A, T
  <2> QED
    BY <2>1, <2>2, SeqMonotonic
<1>2. e \in T
  OBVIOUS
<1> HIDE DEF T
<1> DEFINE longer == Append(s, e)
<1>3. /\ longer \in Seq(T) /\ Len(longer) = Len(s) + 1
      /\ \A i \in 1..Len(s) : longer[i] = s[i]
      /\ longer[Len(s) + 1] = e
  BY <1>1, <1>2, AppendProperties
<1> HIDE DEF longer
<1>4. IsSequence(longer)
  BY <1>3, SeqIsSequence
<1> QED
  BY <1>3, <1>4 DEF longer

LEMMA ConcatSequence ==
  ASSUME NEW s, NEW t, IsSequence(s), IsSequence(t)
  PROVE  /\ IsSequence(s \o t) /\ Len(s \o t) = Len(s) + Len(t)
         /\ \A i \in 1..Len(s) : (s \o t)[i] = s[i]
         /\ \A i \in 1..Len(t) : (s \o t)[Len(s) + i] = t[i]
<1> DEFINE T == {s[i] : i \in 1..Len(s)} \cup {t[i] : i \in 1..Len(t)}
           both == s \o t
<1>1. s \in Seq(T) /\ t \in Seq(T)
  <2> DEFINE A == {s[i] : i \in 1..Len(s)}
             B == {t[i] : i \in 1..Len(t)}
  <2>1. A \subseteq T /\ B \subseteq T
    OBVIOUS
  <2>2. s \in Seq(A) /\ t \in Seq(B)
    BY SequenceOf
  <2> HIDE DEF A, B, T
  <2> QED
    BY <2>1, <2>2, SeqMonotonic
<1> HIDE DEF T
<1>2. /\ both \in Seq(T) /\ Len(both) = Len(s) + Len(t)
      /\ \A i \in 1..Len(s) + Len(t) : both[i] = IF i <= Len(s) THEN s[i] ELSE t[i - Len(s)]
  BY <1>1, ConcatProperties
<1> HIDE DEF both
<1>3. Len(s) \in Nat /\ Len(t) \in Nat /\ IsSequence(both)
  BY <1>1, <1>2, LenProperties, SeqIsSequence
<1>4. \A i \in 1..Len(s) : both[i] = s[i]
  BY <1>2, <1>3
<1>5. ASSUME NEW i \in 1..Len(t)
      PROVE  both[Len(s) + i] = t[i]
  <2>1. Len(s) + i \in 1..Len(s) + Len(t) /\ ~(Len(s) + i <= Len(s)) /\ (Len(s) + i) - Len(s) = i
    BY <1>3
  <2> QED
    BY <1>2, <2>1
<1> QED
  BY <1>2, <1>3, <1>4, <1>5 DEF both

LEMMA FrontSequence ==
  ASSUME NEW s, IsSequence(s), Len(s) # 0
  PROVE  /\ IsSequence(Front(s)) /\ Len(Front(s)) = Len(s) - 1
         /\ \A i \in 1..Len(s) - 1 : Front(s)[i] = s[i]
<1> DEFINE T == {s[i] : i \in 1..Len(s)}
           m == 1
           n == Len(s) - 1
<1>1. s \in Seq(T) /\ Len(s) \in Nat /\ Len(s) # 0
  BY SequenceOf
<1>2. m \in Int /\ n \in Int /\ \A i \in m..n : s[i] \in T
  BY <1>1
<1>3. (IF m <= n THEN n - m + 1 ELSE 0) = Len(s) - 1 /\ n - m + 1 = Len(s) - 1
      /\ \A i \in 1..Len(s) - 1 : m + i - 1 = i
  <2>1. PICK k \in Nat : k = Len(s)
    BY <1>1
  <2>2. k # 0
    BY <1>1, <2>1
  <2> QED
    BY <2>1, <2>2
<1>4. Front(s) = SubSeq(s, m, n)
  BY DEF Front
<1> HIDE DEF T, m, n
<1>5. /\ Front(s) \in Seq(T)
      /\ Len(Front(s)) = IF m <= n THEN n - m + 1 ELSE 0
      /\ \A i \in 1..n - m + 1 : Front(s)[i] = s[m + i - 1]
  BY <1>2, <1>4, SubSeqProperties
<1> QED
  BY <1>3, <1>5, SeqIsSequence

(* A part of a sequence, and the least of a set of numbers.                 *)
LEMMA SubSequence ==
  ASSUME NEW s, IsSequence(s), NEW m \in Nat \ {0}, NEW n \in Nat, n <= Len(s)
  PROVE  /\ IsSequence(SubSeq(s, m, n))
         /\ Len(SubSeq(s, m, n)) = IF m <= n THEN n - m + 1 ELSE 0
         /\ \A i \in 1..n - m + 1 : SubSeq(s, m, n)[i] = s[m + i - 1]
<1> DEFINE T == {s[i] : i \in 1..Len(s)}
<1>1. s \in Seq(T) /\ Len(s) \in Nat
  BY SequenceOf
<1>2. \A i \in m..n : s[i] \in T
  BY <1>1
<1> HIDE DEF T
<1>3. /\ SubSeq(s, m, n) \in Seq(T)
      /\ Len(SubSeq(s, m, n)) = IF m <= n THEN n - m + 1 ELSE 0
      /\ \A i \in 1..n - m + 1 : SubSeq(s, m, n)[i] = s[m + i - 1]
  BY <1>1, <1>2, SubSeqProperties
<1> QED
  BY <1>3, SeqIsSequence

LEMMA LeastMin ==
  ASSUME NEW S, S \subseteq Nat, S # {}
  PROVE  Min(S) \in S /\ \A x \in S : Min(S) <= x
BY LeastNatural DEF Min

LEMMA SameDomainSequence ==
  ASSUME NEW s, IsSequence(s), NEW t, t = [j \in DOMAIN s |-> t[j]]
  PROVE  IsSequence(t) /\ Len(t) = Len(s)
<1>1. Len(s) \in Nat /\ DOMAIN s = 1..Len(s)
  BY SequenceOf
<1>2. DOMAIN t = DOMAIN s
  <2>1. DOMAIN [j \in DOMAIN s |-> t[j]] = DOMAIN s
    OBVIOUS
  <2> QED
    BY <2>1
<1> QED
  BY <1>1, <1>2, BuiltSequence

-----------------------------------------------------------------------------
(* The members of a finite set of naturals have the ranks 1 to its size, one  *)
(* each, and a smaller member has a smaller rank.                           *)
LEMMA RankIncreases ==
  ASSUME NEW S, S \subseteq Nat, IsFiniteSet(S), NEW i \in S, NEW j \in S
  PROVE  /\ Rank(i, S) \in 1..Cardinality(S)
         /\ Rank(i, S) < Rank(j, S) <=> i < j
         /\ Rank(i, S) = Rank(j, S) <=> i = j
<1> DEFINE Upto(k) == {m \in S : m <= k}
<1>1. ASSUME NEW k \in S
      PROVE  /\ IsFiniteSet(Upto(k))
             /\ Cardinality(Upto(k)) \in 1..Cardinality(S)
             /\ Rank(k, S) = Cardinality(Upto(k))
  <2>1. Upto(k) \in SUBSET S /\ k \in Upto(k)
    OBVIOUS
  <2> HIDE DEF Upto
  <2>2. IsFiniteSet(Upto(k)) /\ Cardinality(Upto(k)) <= Cardinality(S)
    BY <2>1, FS_Subset
  <2>3. Cardinality(Upto(k)) \in Nat /\ Cardinality(S) \in Nat
    BY <2>2, FS_CardinalityType
  <2>4. Cardinality(Upto(k)) # 0
    BY <2>1, <2>2, FS_EmptySet
  <2> QED
    BY <2>2, <2>3, <2>4 DEF Rank, Upto
<1>2. ASSUME NEW k \in S, NEW m \in S, k < m
      PROVE  Rank(k, S) < Rank(m, S)
  <2>1. Upto(k) \in SUBSET Upto(m) /\ m \in Upto(m) /\ m \notin Upto(k)
    <3>1. \A x \in S : x \in Nat
      OBVIOUS
    <3>2. ~(m <= k) /\ m <= m /\ \A x \in S : x <= k => x <= m
      BY <1>2, <3>1
    <3> QED
      BY <3>2
  <2> HIDE DEF Upto
  <2>2. /\ Cardinality(Upto(k)) <= Cardinality(Upto(m))
        /\ Cardinality(Upto(m)) = Cardinality(Upto(k)) => Upto(m) = Upto(k)
    BY <1>1, <2>1, FS_Subset
  <2>3. Cardinality(Upto(k)) \in Int /\ Cardinality(Upto(m)) \in Int
    <3>1. Cardinality(Upto(k)) \in 1..Cardinality(S) /\ Cardinality(Upto(m)) \in 1..Cardinality(S)
      BY <1>1
    <3> QED
      BY <3>1
  <2>4. Upto(m) # Upto(k)
    BY <2>1
  <2> QED
    BY <1>1, <2>2, <2>3, <2>4
<1>3. Rank(i, S) \in Int /\ Rank(j, S) \in Int /\ Rank(i, S) \in 1..Cardinality(S)
  <2>1. Rank(i, S) \in 1..Cardinality(S) /\ Rank(j, S) \in 1..Cardinality(S)
    BY <1>1
  <2> QED
    BY <2>1
<1>4. i < j \/ j < i \/ i = j
  OBVIOUS
<1>5. i \in Int /\ j \in Int /\ (i < j => Rank(i, S) < Rank(j, S)) /\ (j < i => Rank(j, S) < Rank(i, S))
  BY <1>2
<1> QED
  BY <1>3, <1>4, <1>5

LEMMA RankReaches ==
  ASSUME NEW S, S \subseteq Nat, IsFiniteSet(S), NEW k \in 1..Cardinality(S)
  PROVE  \E i \in S : Rank(i, S) = k
<1> DEFINE n == Cardinality(S)
           rank == [i \in S |-> Rank(i, S)]
<1>1. n \in Nat
  BY FS_CardinalityType
<1>2. IsFiniteSet(1..n) /\ Cardinality(1..n) = n
  <2> HIDE DEF n
  <2> QED
    BY <1>1, FS_Interval
<1>3. rank \in Injection(S, 1..n)
  <2>1. \A i, j \in S : Rank(i, S) \in 1..n /\ (Rank(i, S) = Rank(j, S) => i = j)
    BY RankIncreases
  <2> HIDE DEF n
  <2> QED
    BY <2>1 DEF Injection, IsInjective
<1>4. rank \in Surjection(S, 1..n)
  <2>1. n = Cardinality(S)
    OBVIOUS
  <2> HIDE DEF rank, n
  <2> QED
    BY <1>2, <1>3, <2>1, FS_Injection
<1> QED
  BY <1>4 DEF Surjection

(* InOrder lists each member of the set once, in ascending order.           *)
LEMMA InOrderLists ==
  ASSUME NEW S, S \subseteq Nat, IsFiniteSet(S)
  PROVE  /\ Cardinality(S) \in Nat
         /\ InOrder(S) \in Seq(S)
         /\ Len(InOrder(S)) = Cardinality(S)
         /\ DOMAIN InOrder(S) = 1..Cardinality(S)
         /\ \A k \in 1..Cardinality(S) : InOrder(S)[k] \in S /\ Rank(InOrder(S)[k], S) = k
         /\ \A i \in S : Rank(i, S) \in 1..Cardinality(S) /\ InOrder(S)[Rank(i, S)] = i
<1>1. Cardinality(S) \in Nat
  BY FS_CardinalityType
<1>2. \A k \in 1..Cardinality(S) : InOrder(S)[k] \in S /\ Rank(InOrder(S)[k], S) = k
  BY RankReaches DEF InOrder
<1>3. DOMAIN InOrder(S) = 1..Cardinality(S)
  BY DEF InOrder
<1>4. InOrder(S) \in [1..Cardinality(S) -> S]
  <2> DEFINE n == Cardinality(S)
             e(k) == CHOOSE i \in S : Rank(i, S) = k
  <2>1. \A k \in 1..n : e(k) \in S
    BY RankReaches
  <2>2. InOrder(S) = [k \in 1..n |-> e(k)]
    BY DEF InOrder
  <2> HIDE DEF n, e
  <2>3. InOrder(S) \in [1..n -> S]
    BY <2>1, <2>2
  <2> QED
    BY <2>3 DEF n
<1>5. InOrder(S) \in Seq(S)
  BY <1>1, <1>4, SeqDef
<1>6. ASSUME NEW i \in S
      PROVE  Rank(i, S) \in 1..Cardinality(S) /\ InOrder(S)[Rank(i, S)] = i
  <2>1. Rank(i, S) \in 1..Cardinality(S)
    BY RankIncreases
  <2>2. InOrder(S)[Rank(i, S)] \in S /\ Rank(InOrder(S)[Rank(i, S)], S) = Rank(i, S)
    BY <1>2, <2>1
  <2> QED
    BY <2>2, RankIncreases
<1>7. Len(InOrder(S)) = Cardinality(S)
  BY <1>1, <1>3, <1>5
<1> QED
  BY <1>1, <1>2, <1>3, <1>5, <1>6, <1>7

(* A number beyond all others comes last.                                   *)
LEMMA InOrderGrows ==
  ASSUME NEW S, S \subseteq Nat, IsFiniteSet(S), NEW n \in Nat, \A i \in S : i < n
  PROVE  /\ DOMAIN InOrder(S \cup {n}) = 1..Cardinality(S) + 1
         /\ \A k \in 1..Cardinality(S) : InOrder(S \cup {n})[k] = InOrder(S)[k]
         /\ InOrder(S \cup {n})[Cardinality(S) + 1] = n
<1> DEFINE T == S \cup {n}
           c == Cardinality(S)
<1>1. n \notin S /\ T \subseteq Nat
  OBVIOUS
<1>2. c \in Nat /\ IsFiniteSet(T) /\ Cardinality(T) = c + 1
  BY <1>1, FS_AddElement, FS_CardinalityType
<1>3. \A i \in S : Rank(i, T) = Rank(i, S)
  <2> SUFFICES ASSUME NEW i \in S
               PROVE  Rank(i, T) = Rank(i, S)
    OBVIOUS
  <2>1. {j \in T : j <= i} = {j \in S : j <= i}
    OBVIOUS
  <2> QED
    BY <2>1 DEF Rank
<1>4. Rank(n, T) = c + 1
  <2>1. \A j \in T : j <= n
    OBVIOUS
  <2>2. {j \in T : j <= n} = T
    BY <2>1
  <2> QED
    BY <1>2, <2>2 DEF Rank
<1>5. /\ DOMAIN InOrder(T) = 1..c + 1
      /\ \A i \in T : InOrder(T)[Rank(i, T)] = i
  <2> HIDE DEF T, c
  <2> QED
    BY <1>1, <1>2, InOrderLists
<1>6. \A k \in 1..c : InOrder(S)[k] \in S /\ Rank(InOrder(S)[k], S) = k
  BY InOrderLists
<1>7. n \in T /\ \A i \in S : i \in T
  OBVIOUS
<1> HIDE DEF T, c
<1>8. \A k \in 1..c : InOrder(T)[k] = InOrder(S)[k]
  BY <1>3, <1>5, <1>6, <1>7
<1> QED
  BY <1>4, <1>5, <1>7, <1>8 DEF T, c

LEMMA FiniteMax ==
  ASSUME NEW S, S \subseteq Nat, IsFiniteSet(S), S # {}
  PROVE  Max(S) \in S /\ \A x \in S : x <= Max(S)
<1>1. \E x \in S : \A y \in S : y <= x
  <2> DEFINE B == {b \in Nat : \A y \in S : y <= b}
  <2>1. B # {}
    <3>1. PICK c \in Nat : c = Cardinality(S)
      BY FS_CardinalityType
    <3>2. \A x \in S : Rank(x, S) \in 1..c
      BY <3>1, RankIncreases
    <3>3. PICK last \in S : Rank(last, S) = c
      <4>1. c \in 1..c
        <5>1. PICK x \in S : TRUE
          OBVIOUS
        <5>2. Rank(x, S) \in 1..c
          BY <3>2, <5>1
        <5> QED
          BY <3>1, <5>2
      <4> QED
        BY <3>1, <4>1, RankReaches
    <3>4. \A y \in S : y <= last
      <4> TAKE y \in S
      <4>1. Rank(last, S) < Rank(y, S) <=> last < y
        BY RankIncreases
      <4>2. Rank(y, S) \in 1..c
        BY <3>2
      <4> QED
        BY <3>1, <3>3, <4>1, <4>2
    <3> QED
      BY <3>4
  <2>2. PICK m \in B : \A b \in B : m <= b
    <3>1. B \subseteq Nat
      OBVIOUS
    <3> HIDE DEF B
    <3> QED
      BY <2>1, <3>1, LeastNatural
  <2>3. m \in S
    <3> SUFFICES ASSUME m \notin S
                 PROVE  FALSE
      OBVIOUS
    <3>1. \A y \in S : y <= m /\ y # m
      BY <2>2
    <3>2. PICK y \in S : TRUE
      OBVIOUS
    <3>3. m - 1 \in Nat /\ \A x \in S : x <= m - 1
      BY <3>1, <3>2
    <3> QED
      BY <2>2, <3>3
  <2> QED
    BY <2>2, <2>3
<1> QED
  BY <1>1 DEF Max

-----------------------------------------------------------------------------
(* The recursion of FlattenSeq has a solution, and it is what it returns. *)
LEMMA FlattenRecursion ==
  ASSUME NEW s, NEW n \in Nat \ {0}, Len(s) = n
  PROVE  \E f : /\ DOMAIN f = 1..n
                /\ f[1] = s[1]
                /\ \A i \in 2..n : f[i] = f[i - 1] \o s[i]
                /\ FlattenSeq(s) = f[n]
<1> DEFINE Is(f, m) == f = [i \in 1..m |-> IF i = 1 THEN s[i] ELSE f[i - 1] \o s[i]]
<1> DEFINE P == {m \in 0..n : m = 0 \/ \E f : Is(f, m)}
<1>1. 0 \in P
  OBVIOUS
<1>2. ASSUME NEW m \in 0..n - 1, m \in P
      PROVE  m + 1 \in P
  <2>1. CASE m = 0
    <3> DEFINE g == [i \in 1..1 |-> s[i]]
    <3>1. Is(g, 1)
      OBVIOUS
    <3> HIDE DEF Is, g
    <3> QED
      BY <2>1, <3>1
  <2>2. CASE m # 0
    <3>1. PICK f : Is(f, m)
      <4> HIDE DEF Is
      <4> QED
        BY <1>2, <2>2
    <3>2. \A i \in 1..m : f[i] = IF i = 1 THEN s[i] ELSE f[i - 1] \o s[i]
      BY <3>1
    <3> DEFINE g == [i \in 1..m + 1 |-> IF i <= m THEN f[i] ELSE f[m] \o s[m + 1]]
    <3>3. ASSUME NEW i \in 1..m + 1
          PROVE  g[i] = IF i = 1 THEN s[i] ELSE g[i - 1] \o s[i]
      <4>1. CASE i = m + 1
        BY <2>2, <4>1
      <4>2. CASE i # m + 1
        <5>1. i \in 1..m /\ (i # 1 => i - 1 \in 1..m)
          BY <4>2
        <5> QED
          BY <3>2, <5>1
      <4> QED
        BY <4>1, <4>2
    <3>4. Is(g, m + 1)
      BY <3>3
    <3>5. m + 1 \in 0..n
      OBVIOUS
    <3> HIDE DEF Is, g
    <3> QED
      BY <3>4, <3>5
  <2> QED
    BY <2>1, <2>2
<1>3. n \in P
  <2> HIDE DEF P
  <2>1. \A m \in 0..n - 1 : m \in P => m + 1 \in P
    BY <1>2
  <2>2. 0..n \subseteq P
    BY <1>1, <2>1, IntervalInduction
  <2> QED
    BY <2>2
<1>4. \E f : Is(f, n)
  <2> HIDE DEF Is
  <2> QED
    BY <1>3
<1> DEFINE f == CHOOSE g : Is(g, n)
<1>5. Is(f, n)
  BY <1>4
<1>6. FlattenSeq(s) = f[n]
  BY DEF FlattenSeq
<1>7. DOMAIN f = 1..n /\ f[1] = s[1] /\ \A i \in 2..n : f[i] = f[i - 1] \o s[i]
  <2> HIDE DEF f
  <2>1. DOMAIN f = 1..n /\ \A i \in 1..n : f[i] = IF i = 1 THEN s[i] ELSE f[i - 1] \o s[i]
    BY <1>5
  <2>2. 1 \in 1..n /\ 2..n \subseteq 1..n
    OBVIOUS
  <2>3. f[1] = s[1]
    BY <2>1, <2>2
  <2>4. ASSUME NEW i \in 2..n PROVE f[i] = f[i - 1] \o s[i]
    <3>1. i \in 1..n /\ i # 1
      OBVIOUS
    <3> QED
      BY <2>1, <3>1
  <2> QED
    BY <2>1, <2>3, <2>4
<1> QED
  BY <1>6, <1>7

(* The first m sequences of s lie end to end in t: each element of each has  *)
(* a place of its own, after those of the sequences before, and every place *)
(* is that of one of them.                                                  *)
EndToEnd(t, s, m, place) ==
  /\ \A i \in 0..m : place[i] \in Nat
  /\ place[0] = 0
  /\ place[m] = Len(t)
  /\ \A i \in 1..m : place[i] = place[i - 1] + Len(s[i])
  /\ \A i \in 1..m : \A j \in 1..Len(s[i]) :
       place[i - 1] + j \in DOMAIN t /\ t[place[i - 1] + j] = s[i][j]
  /\ \A k \in DOMAIN t : \E i \in 1..m : \E j \in 1..Len(s[i]) : k = place[i - 1] + j

LEMMA OneMoreEndToEnd ==
  ASSUME NEW S, NEW s, NEW m \in Nat, NEW t \in Seq(S), s[m + 1] \in Seq(S), NEW place,
         EndToEnd(t, s, m, place), place[m + 1] = Len(t \o s[m + 1])
  PROVE  /\ t \o s[m + 1] \in Seq(S)
         /\ EndToEnd(t \o s[m + 1], s, m + 1, place)
<1> DEFINE new == s[m + 1]
           both == t \o new
<1>1. new \in Seq(S) /\ Len(t) \in Nat /\ Len(new) \in Nat /\ DOMAIN t = 1..Len(t)
  OBVIOUS
<1>2. /\ both \in Seq(S)
      /\ Len(both) = Len(t) + Len(new)
      /\ \A k \in 1..Len(t) + Len(new) : both[k] = IF k <= Len(t) THEN t[k] ELSE new[k - Len(t)]
  <2> HIDE DEF new
  <2> QED
    BY <1>1, ConcatProperties
<1>3. DOMAIN both = 1..Len(t) + Len(new)
  <2> HIDE DEF both, new
  <2> QED
    BY <1>1, <1>2
<1>4. place[m + 1] = place[m] + Len(new) /\ place[m] = Len(t)
  BY <1>2 DEF EndToEnd
<1> HIDE DEF both
<1>5. \A i \in 0..m + 1 : place[i] \in Nat
  <2> SUFFICES ASSUME NEW i \in 0..m + 1
               PROVE  place[i] \in Nat
    OBVIOUS
  <2>1. CASE i = m + 1
    BY <1>1, <1>4, <2>1
  <2>2. CASE i # m + 1
    BY <2>2 DEF EndToEnd
  <2> QED
    BY <2>1, <2>2
<1>6. \A i \in 1..m + 1 : place[i] = place[i - 1] + Len(s[i])
  <2> SUFFICES ASSUME NEW i \in 1..m + 1
               PROVE  place[i] = place[i - 1] + Len(s[i])
    OBVIOUS
  <2>1. CASE i = m + 1
    BY <1>4, <2>1
  <2>2. CASE i # m + 1
    BY <2>2 DEF EndToEnd
  <2> QED
    BY <2>1, <2>2
<1>7. ASSUME NEW i \in 1..m + 1, NEW j \in 1..Len(s[i])
      PROVE  place[i - 1] + j \in DOMAIN both /\ both[place[i - 1] + j] = s[i][j]
  <2>1. CASE i = m + 1
    <3>1. place[i - 1] = Len(t) /\ j \in 1..Len(new) /\ s[i][j] = new[j]
      BY <1>4, <2>1
    <3>2. Len(t) + j \in 1..Len(t) + Len(new) /\ ~(Len(t) + j <= Len(t)) /\ (Len(t) + j) - Len(t) = j
      BY <1>1, <3>1
    <3> HIDE DEF new
    <3> QED
      BY <1>2, <1>3, <3>1, <3>2
  <2>2. CASE i # m + 1
    <3>1. i \in 1..m
      BY <2>2
    <3> DEFINE k == place[i - 1] + j
    <3>2. k \in 1..Len(t) /\ t[k] = s[i][j]
      BY <1>1, <3>1 DEF EndToEnd
    <3> HIDE DEF k
    <3>3. k \in 1..Len(t) + Len(new) /\ k <= Len(t)
      BY <1>1, <3>2
    <3>4. k \in DOMAIN both /\ both[k] = s[i][j]
      BY <1>2, <1>3, <3>2, <3>3
    <3> QED
      BY <3>4 DEF k
  <2> QED
    BY <2>1, <2>2
<1>8. ASSUME NEW k \in DOMAIN both
      PROVE  \E i \in 1..m + 1 : \E j \in 1..Len(s[i]) : k = place[i - 1] + j
  <2>1. CASE k <= Len(t)
    <3>1. k \in DOMAIN t
      BY <1>1, <1>3, <2>1
    <3>2. \E i \in 1..m : \E j \in 1..Len(s[i]) : k = place[i - 1] + j
      BY <3>1 DEF EndToEnd
    <3>3. 1..m \subseteq 1..m + 1
      OBVIOUS
    <3> QED
      BY <3>2, <3>3
  <2>2. CASE ~(k <= Len(t))
    <3>1. k - Len(t) \in 1..Len(new) /\ k = Len(t) + (k - Len(t))
      BY <1>1, <1>3, <2>2
    <3>2. place[(m + 1) - 1] = Len(t) /\ m + 1 \in 1..m + 1
      BY <1>4
    <3> QED
      BY <3>1, <3>2
  <2> QED
    BY <2>1, <2>2
<1>9. place[0] = 0 /\ place[m + 1] = Len(both)
  BY DEF EndToEnd, both
<1>10. EndToEnd(both, s, m + 1, place)
  BY <1>5, <1>6, <1>7, <1>8, <1>9 DEF EndToEnd
<1> QED
  BY <1>2, <1>10 DEF both

LEMMA ElementsAtLists ==
  ASSUME NEW s, NEW places \in SUBSET Nat, IsFiniteSet(places)
  PROVE  /\ IsSequence(ElementsAt(s, places))
         /\ \A k \in DOMAIN ElementsAt(s, places) : \E i \in places : ElementsAt(s, places)[k] = s[i]
         /\ \A i \in places : \E k \in DOMAIN ElementsAt(s, places) : ElementsAt(s, places)[k] = s[i]
<1> DEFINE at == InOrder(places)
           some == ElementsAt(s, places)
           c == Cardinality(places)
<1>1. /\ c \in Nat /\ DOMAIN at = 1..c
      /\ \A k \in 1..c : at[k] \in places
      /\ \A i \in places : Rank(i, places) \in 1..c /\ at[Rank(i, places)] = i
  BY InOrderLists
<1>2. some = [k \in DOMAIN at |-> s[at[k]]]
  BY DEF ElementsAt
<1> HIDE DEF at, some, c
<1>3. DOMAIN some = 1..c /\ some = [k \in 1..c |-> some[k]] /\ \A k \in 1..c : some[k] = s[at[k]]
  BY <1>1, <1>2
<1>4. IsSequence(some)
  BY <1>1, <1>3, BuiltSequence
<1> QED
  BY <1>1, <1>3, <1>4 DEF some, c

(* FlattenSeq puts its sequences end to end. *)
LEMMA FlattenPlaces ==
  ASSUME NEW S, NEW s \in Seq(Seq(S))
  PROVE  /\ FlattenSeq(s) \in Seq(S)
         /\ \E place : EndToEnd(FlattenSeq(s), s, Len(s), place)
<1>1. CASE s = << >>
  <2> DEFINE place == [i \in 0..0 |-> 0]
  <2>1. FlattenSeq(s) = << >> /\ Len(s) = 0
    BY <1>1 DEF FlattenSeq
  <2>2. place[0] = 0 /\ \A i \in 0..0 : place[i] \in Nat
    OBVIOUS
  <2> HIDE DEF place
  <2>3. EndToEnd(<< >>, s, 0, place)
    BY <2>2 DEF EndToEnd
  <2> QED
    BY <2>1, <2>3
<1>2. CASE s # << >>
  <2>1. PICK n \in Nat \ {0} : n = Len(s)
    BY <1>2
  <2>2. \A i \in 1..n : s[i] \in Seq(S)
    BY <2>1
  <2>3. PICK f : /\ DOMAIN f = 1..n
                 /\ f[1] = s[1]
                 /\ \A i \in 2..n : f[i] = f[i - 1] \o s[i]
                 /\ FlattenSeq(s) = f[n]
    BY <2>1, FlattenRecursion
  <2> DEFINE place == [i \in 0..n |-> IF i = 0 THEN 0 ELSE Len(f[i])]
             P == {m \in 0..n : m = 0 \/ (f[m] \in Seq(S) /\ EndToEnd(f[m], s, m, place))}
  <2>4. place[0] = 0 /\ \A i \in 1..n : place[i] = Len(f[i])
    BY <2>1
  <2> HIDE DEF place
  <2>5. f[1] \in Seq(S) /\ EndToEnd(f[1], s, 1, place)
    <3>1. << >> \in Seq(S) /\ s[1] \in Seq(S) /\ f[1] = s[1] /\ 1 \in 1..n
      BY <2>1, <2>2, <2>3
    <3>2. EndToEnd(<< >>, s, 0, place)
      BY <2>4 DEF EndToEnd
    <3>3. << >> \o s[1] = s[1]
      BY <3>1, ConcatEmptySeq
    <3>4. PICK none \in Nat : none = 0
      OBVIOUS
    <3>5. s[none + 1] = s[1] /\ place[none + 1] = Len(<< >> \o s[none + 1])
      BY <2>4, <3>1, <3>3, <3>4
    <3> HIDE DEF P
    <3>6. EndToEnd(<< >> \o s[none + 1], s, none + 1, place)
      BY <3>1, <3>2, <3>4, <3>5, OneMoreEndToEnd
    <3> QED
      BY <3>1, <3>3, <3>4, <3>5, <3>6
  <2>6. ASSUME NEW m \in 0..n - 1, m \in P
        PROVE  m + 1 \in P
    <3>1. CASE m = 0
      BY <2>1, <2>5, <3>1
    <3>2. CASE m # 0
      <4>1. f[m] \in Seq(S) /\ EndToEnd(f[m], s, m, place) /\ m \in Nat
        BY <2>6, <3>2
      <4>2. m + 1 \in 2..n /\ m + 1 \in 1..n /\ (m + 1) - 1 = m
        BY <2>1, <3>2
      <4>3. f[m + 1] = f[m] \o s[m + 1] /\ s[m + 1] \in Seq(S) /\ place[m + 1] = Len(f[m + 1])
        BY <2>2, <2>3, <2>4, <4>2
      <4>4. f[m + 1] \in Seq(S) /\ EndToEnd(f[m + 1], s, m + 1, place)
        <5> HIDE DEF P
        <5>1. /\ f[m] \o s[m + 1] \in Seq(S)
              /\ EndToEnd(f[m] \o s[m + 1], s, m + 1, place)
          BY <4>1, <4>3, OneMoreEndToEnd
        <5> QED
          BY <4>3, <5>1
      <4>5. m + 1 \in 0..n
        BY <4>2
      <4> QED
        BY <4>4, <4>5
    <3> QED
      BY <3>1, <3>2
  <2>7. n \in P
    <3> HIDE DEF P
    <3>1. 0 \in P
      BY <2>1 DEF P
    <3>2. \A m \in 0..n - 1 : m \in P => m + 1 \in P
      BY <2>6
    <3>3. 0..n \subseteq P
      BY <2>1, <3>1, <3>2, IntervalInduction
    <3> QED
      BY <2>1, <3>3
  <2> QED
    BY <2>1, <2>3, <2>7
<1> QED
  BY <1>1, <1>2

(* Sequences of which only n in a row have an element, and no more than one. *)
LEMMA FlattenMiddle ==
  ASSUME NEW S, NEW s \in Seq(Seq(S)), NEW a \in Nat, NEW n \in Nat, a + n <= Len(s),
         \A i \in 1..Len(s) : Len(s[i]) = IF a < i /\ i <= a + n THEN 1 ELSE 0
  PROVE  /\ DOMAIN FlattenSeq(s) = 1..n
         /\ \A i \in 1..n : FlattenSeq(s)[i] = s[a + i][1]
<1> DEFINE t == FlattenSeq(s)
<1>1. t \in Seq(S) /\ \E place : EndToEnd(t, s, Len(s), place)
  BY FlattenPlaces
<1> HIDE DEF t
<1>2. PICK place : EndToEnd(t, s, Len(s), place)
  BY <1>1
<1>3. PICK m \in Nat : m = Len(s)
  OBVIOUS
<1> DEFINE upto(i) == IF i <= a THEN 0 ELSE IF i <= a + n THEN i - a ELSE n
           P == {i \in 0..m : place[i] = upto(i)}
<1>4. 0 \in P
  BY <1>2, <1>3 DEF EndToEnd
<1>5. \A i \in 0..m - 1 : i \in P => i + 1 \in P
  <2> SUFFICES ASSUME NEW i \in 0..m - 1, i \in P
               PROVE  i + 1 \in P
    OBVIOUS
  <2>1. i + 1 \in 1..m /\ i + 1 \in 0..m /\ (i + 1) - 1 = i
    BY <1>3
  <2>2. place[i + 1] = place[i] + Len(s[i + 1])
    BY <1>2, <1>3, <2>1 DEF EndToEnd
  <2>3. Len(s[i + 1]) = IF a < i + 1 /\ i + 1 <= a + n THEN 1 ELSE 0
    BY <1>3, <2>1
  <2>4. place[i] = upto(i)
    OBVIOUS
  <2>5. upto(i) + (IF a < i + 1 /\ i + 1 <= a + n THEN 1 ELSE 0) = upto(i + 1)
    BY <1>3
  <2> HIDE DEF upto
  <2> QED
    BY <2>1, <2>2, <2>3, <2>4, <2>5
<1>6. 0..m \subseteq P
  <2> HIDE DEF P
  <2> QED
    BY <1>3, <1>4, <1>5, IntervalInduction
<1>7. Len(t) = n
  <2>1. place[m] = upto(m)
    BY <1>3, <1>6
  <2>2. upto(m) = n
    BY <1>3
  <2> HIDE DEF upto, P
  <2> QED
    BY <1>2, <1>3, <2>1, <2>2 DEF EndToEnd
<1>8. ASSUME NEW i \in 1..n
      PROVE  t[i] = s[a + i][1]
  <2>1. a + i \in 1..m /\ (a + i) - 1 \in 0..m /\ Len(s[a + i]) = 1
    <3>1. a + n <= m /\ \A k \in 1..m : Len(s[k]) = IF a < k /\ k <= a + n THEN 1 ELSE 0
      BY <1>3
    <3>2. a + i \in 1..m /\ (a + i) - 1 \in 0..m /\ a < a + i /\ a + i <= a + n
      BY <1>3, <3>1
    <3> QED
      BY <3>1, <3>2
  <2>2. place[(a + i) - 1] = i - 1
    <3>1. upto((a + i) - 1) = i - 1
      OBVIOUS
    <3> QED
      BY <1>6, <2>1, <3>1
  <2>3. 1 \in 1..Len(s[a + i]) /\ (i - 1) + 1 = i
    BY <2>1
  <2> HIDE DEF upto, P
  <2>4. t[place[(a + i) - 1] + 1] = s[a + i][1]
    BY <1>2, <1>3, <2>1, <2>3 DEF EndToEnd
  <2> QED
    BY <2>2, <2>3, <2>4
<1>9. DOMAIN t = 1..Len(t)
  BY <1>1
<1> QED
  BY <1>7, <1>8, <1>9 DEF t

(* What is in the sequences is in the whole, and nothing else is.           *)
LEMMA FlattenMembers ==
  ASSUME NEW S, NEW s \in Seq(Seq(S)), NEW x
  PROVE  x \in ToSet(FlattenSeq(s)) <=> \E i \in 1..Len(s) : x \in ToSet(s[i])
<1> DEFINE t == FlattenSeq(s)
<1>1. t \in Seq(S) /\ \E place : EndToEnd(t, s, Len(s), place)
  BY FlattenPlaces
<1> HIDE DEF t
<1>2. PICK place : EndToEnd(t, s, Len(s), place)
  BY <1>1
<1>3. \A i \in 1..Len(s) : DOMAIN s[i] = 1..Len(s[i])
  OBVIOUS
<1>4. ASSUME NEW k \in DOMAIN t
      PROVE  \E i \in 1..Len(s) : t[k] \in ToSet(s[i])
  <2>0. PICK i \in 1..Len(s) : \E j \in 1..Len(s[i]) : k = place[i - 1] + j
    BY <1>2 DEF EndToEnd
  <2>1. PICK j \in 1..Len(s[i]) : k = place[i - 1] + j
    BY <2>0
  <2>2. t[k] = s[i][j]
    BY <1>2, <2>1 DEF EndToEnd
  <2> QED
    BY <1>3, <2>1, <2>2 DEF ToSet
<1>5. ASSUME NEW i \in 1..Len(s), NEW j \in DOMAIN s[i]
      PROVE  \E k \in DOMAIN t : t[k] = s[i][j]
  <2>1. j \in 1..Len(s[i])
    BY <1>3
  <2>2. place[i - 1] + j \in DOMAIN t /\ t[place[i - 1] + j] = s[i][j]
    BY <1>2, <2>1 DEF EndToEnd
  <2> QED
    BY <2>2
<1> QED
  BY <1>4, <1>5 DEF ToSet, t

(* A sequence of sequences with one more at its end.                        *)
LEMMA FlattenOneMore ==
  ASSUME NEW s, NEW t, NEW n \in Nat, Len(s) = n, Len(t) = n + 1,
         s = [i \in 1..n |-> s[i]], \A i \in 1..n : t[i] = s[i]
  PROVE  FlattenSeq(t) = IF n = 0 THEN t[1] ELSE FlattenSeq(s) \o t[n + 1]
<1>1. PICK g : /\ DOMAIN g = 1..n + 1
               /\ g[1] = t[1]
               /\ \A i \in 2..n + 1 : g[i] = g[i - 1] \o t[i]
               /\ FlattenSeq(t) = g[n + 1]
  <2>1. n + 1 \in Nat \ {0}
    OBVIOUS
  <2> QED
    BY <2>1, FlattenRecursion, ZenonT(40)
<1>2. CASE n = 0
  BY <1>1, <1>2
<1>3. CASE n # 0
  <2>1. PICK f : /\ DOMAIN f = 1..n
                 /\ f[1] = s[1]
                 /\ \A i \in 2..n : f[i] = f[i - 1] \o s[i]
                 /\ FlattenSeq(s) = f[n]
    <3>1. n \in Nat \ {0}
      BY <1>3
    <3> QED
      BY <3>1, FlattenRecursion
  <2> DEFINE P == {m \in 0..n : m = 0 \/ f[m] = g[m]}
  <2>2. 0 \in P
    OBVIOUS
  <2>3. ASSUME NEW m \in 0..n - 1, m \in P
        PROVE  m + 1 \in P
    <3>1. CASE m = 0
      <4>1. f[1] = g[1] /\ 1 \in 0..n
        BY <1>1, <1>3, <2>1
      <4> QED
        BY <3>1, <4>1
    <3>2. CASE m # 0
      <4>1. m + 1 \in 2..n /\ m + 1 \in 2..n + 1 /\ (m + 1) - 1 = m /\ m + 1 \in 1..n /\ m + 1 \in 0..n
        BY <3>2
      <4>2. f[m + 1] = f[m] \o s[m + 1] /\ g[m + 1] = g[m] \o t[m + 1]
        BY <1>1, <2>1, <4>1
      <4>3. f[m] = g[m] /\ s[m + 1] = t[m + 1]
        BY <2>3, <3>2, <4>1
      <4> QED
        BY <4>1, <4>2, <4>3
    <3> QED
      BY <3>1, <3>2
  <2>4. n \in P
    <3> HIDE DEF P
    <3>1. \A m \in 0..n - 1 : m \in P => m + 1 \in P
      BY <2>3
    <3>2. 0..n \subseteq P
      BY <2>2, <3>1, IntervalInduction
    <3> QED
      BY <3>2
  <2>5. g[n + 1] = g[n] \o t[n + 1]
    <3>1. n + 1 \in 2..n + 1 /\ (n + 1) - 1 = n
      BY <1>3
    <3> QED
      BY <1>1, <3>1
  <2> QED
    BY <1>1, <1>3, <2>1, <2>4, <2>5
<1> QED
  BY <1>2, <1>3

(* Every element once.                                                      *)
LEMMA WithoutRepeatsOnce ==
  ASSUME NEW s, IsSequence(s)
  PROVE  /\ IsSequence(WithoutRepeats(s)) /\ ToSet(WithoutRepeats(s)) = ToSet(s)
         /\ \A j, k \in DOMAIN WithoutRepeats(s) : j # k => WithoutRepeats(s)[j] # WithoutRepeats(s)[k]
<1> DEFINE places == {k \in DOMAIN s : \A j \in 1..k - 1 : s[j] # s[k]}
           at == InOrder(places)
           t == WithoutRepeats(s)
           c == Cardinality(places)
<1>1. DOMAIN s = 1..Len(s) /\ Len(s) \in Nat
  BY SequenceOf
<1>2. places \in SUBSET Nat /\ places \subseteq Nat /\ IsFiniteSet(places)
  <2>1. places \subseteq DOMAIN s
    OBVIOUS
  <2> HIDE DEF places
  <2> QED
    BY <2>1, PlacesFinite
<1>3. t = ElementsAt(s, places)
  BY DEF WithoutRepeats
<1>4. DOMAIN t = 1..c /\ \A k \in 1..c : t[k] = s[at[k]]
  <2>1. DOMAIN at = 1..c
    BY <1>2, InOrderLists
  <2>2. t = [k \in DOMAIN at |-> s[at[k]]]
    BY <1>3 DEF ElementsAt
  <2> QED
    BY <2>1, <2>2
<1>5. /\ IsSequence(t)
      /\ \A k \in DOMAIN t : \E i \in places : t[k] = s[i]
      /\ \A i \in places : \E k \in DOMAIN t : t[k] = s[i]
  <2> HIDE DEF places, t
  <2> QED
    BY <1>2, <1>3, ElementsAtLists
<1>6. ASSUME NEW i \in DOMAIN s PROVE \E k \in DOMAIN t : t[k] = s[i]
  <2> DEFINE T == {j \in DOMAIN s : s[j] = s[i]}
  <2>1. T \subseteq Nat /\ T # {}
    BY <1>1
  <2>2. PICK m \in T : \A k \in T : m <= k
    <3> HIDE DEF T
    <3> QED
      BY <2>1, LeastNatural
  <2>3. m \in places
    <3>1. \A j \in 1..m - 1 : j \in DOMAIN s /\ ~(m <= j)
      BY <1>1, <2>2
    <3> QED
      BY <2>2, <3>1
  <2> QED
    BY <1>5, <2>2, <2>3
<1>7. ToSet(t) = ToSet(s)
  <2>1. ASSUME NEW x \in ToSet(t) PROVE x \in ToSet(s)
    BY <1>5, <2>1 DEF ToSet
  <2>2. ASSUME NEW x \in ToSet(s) PROVE x \in ToSet(t)
    <3> HIDE DEF t
    <3> QED
      BY <1>6, <2>2 DEF ToSet
  <2> QED
    BY <2>1, <2>2
<1>8. ASSUME NEW j \in DOMAIN t, NEW k \in DOMAIN t, j # k
      PROVE  t[j] # t[k]
  <2>1. at[j] \in places /\ at[k] \in places /\ at[j] # at[k]
    <3>1. /\ \A i \in 1..c : at[i] \in places /\ Rank(at[i], places) = i
      <4> HIDE DEF places
      <4> QED
        BY <1>2, InOrderLists
    <3> HIDE DEF at, places, c
    <3> QED
      BY <1>4, <1>8, <3>1
  <2>2. PICK a \in places : a = at[j]
    BY <2>1
  <2>3. PICK b \in places : b = at[k]
    BY <2>1
  <2>4. a # b /\ (a \in 1..b - 1 \/ b \in 1..a - 1)
    BY <1>1, <2>1, <2>2, <2>3
  <2>5. s[a] # s[b]
    BY <2>4
  <2> HIDE DEF t, places, at, c
  <2> QED
    BY <1>4, <2>2, <2>3, <2>5
<1> QED
  BY <1>5, <1>7, <1>8

(* A sequence of different elements has as many as there are places.        *)
LEMMA DifferentElements ==
  ASSUME NEW n \in Nat, NEW s, DOMAIN s = 1..n, \A j, k \in 1..n : j # k => s[j] # s[k],
         NEW S, S = {s[i] : i \in 1..n}
  PROVE  Cardinality(S) = n
<1> DEFINE f == [i \in 1..n |-> s[i]]
<1>1. f \in Bijection(1..n, S)
  BY DEF Bijection, Injection, Surjection, IsInjective
<1>2. IsFiniteSet(1..n) /\ Cardinality(1..n) = n
  BY FS_Interval
<1>3. ExistsBijection(1..n, S)
  BY <1>1 DEF ExistsBijection
<1> QED
  BY <1>2, <1>3, FS_Bijection

(* A sequence that goes on from another one begins with it.                 *)
GoesOnFrom(s, t) == Len(s) <= Len(t) /\ \A i \in 1..Len(s) : t[i] = s[i]

LEMMA GoesOnFromPrefix ==
  ASSUME NEW s, NEW t, IsSequence(s), IsSequence(t), GoesOnFrom(s, t)
  PROVE  IsPrefix(s, t)
<1>1. Len(s) \in Nat /\ Len(t) \in Nat /\ 1 \in Nat \ {0} /\ Len(s) <= Len(t)
  BY SequenceOf DEF GoesOnFrom
<1> DEFINE n == Len(s)
           a == SubSeq(s, 1, n)
           b == SubSeq(t, 1, n)
<1>2. n \in Nat /\ n <= Len(s) /\ n <= Len(t)
  BY <1>1
<1>3. /\ IsSequence(a) /\ IsSequence(b)
      /\ Len(a) = IF 1 <= n THEN n - 1 + 1 ELSE 0
      /\ Len(b) = IF 1 <= n THEN n - 1 + 1 ELSE 0
      /\ \A i \in 1..n - 1 + 1 : a[i] = s[1 + i - 1] /\ b[i] = t[1 + i - 1]
  <2> HIDE DEF n
  <2> QED
    BY <1>1, <1>2, SubSequence
<1> HIDE DEF a, b
<1>4. Len(a) = n /\ Len(b) = n /\ \A i \in 1..n : a[i] = s[i] /\ b[i] = t[i]
  BY <1>2, <1>3
<1>5. \A i \in 1..n : a[i] = b[i]
  BY <1>4 DEF GoesOnFrom
<1>6. a = [i \in 1..n |-> a[i]] /\ b = [i \in 1..n |-> b[i]]
  BY <1>3, <1>4 DEF IsSequence
<1>7. a = b
  BY <1>5, <1>6
<1> QED
  BY <1>1, <1>7 DEF IsPrefix, a, b

(* What is taken from the front, and what is put at the end.                *)
LEMMA TailSet ==
  ASSUME NEW s, IsSequence(s), s # << >>
  PROVE  IsSequence(Tail(s)) /\ ToSet(s) = {Head(s)} \cup ToSet(Tail(s))
<1>1. DOMAIN s = 1..Len(s) /\ Len(s) \in Nat /\ s = [i \in 1..Len(s) |-> s[i]]
  BY SequenceOf DEF IsSequence
<1>2. Len(s) # 0
  BY <1>1
<1> DEFINE n == Len(s)
           T == {s[i] : i \in 1..n}
<1>3. s \in Seq(T)
  BY SequenceOf
<1>4. Tail(s) \in Seq(T) /\ Len(Tail(s)) = n - 1 /\ \A i \in 1..n - 1 : Tail(s)[i] = s[i + 1]
  <2> HIDE DEF T
  <2> QED
    BY <1>2, <1>3
<1>5. IsSequence(Tail(s))
  <2> HIDE DEF T
  <2> QED
    BY <1>4, SeqIsSequence
<1>6. DOMAIN Tail(s) = 1..n - 1 /\ Head(s) = s[1]
  BY <1>4, <1>5, SequenceOf
<1>7. \A x \in ToSet(s) : x = Head(s) \/ x \in ToSet(Tail(s))
  <2> SUFFICES ASSUME NEW i \in 1..n PROVE s[i] = Head(s) \/ s[i] \in ToSet(Tail(s))
    BY <1>1 DEF ToSet
  <2>1. CASE i = 1
    BY <1>6, <2>1
  <2>2. CASE i # 1
    <3>1. i - 1 \in 1..n - 1 /\ (i - 1) + 1 = i
      BY <1>1, <2>2
    <3>2. Tail(s)[i - 1] = s[i]
      BY <1>4, <3>1
    <3> QED
      BY <1>6, <3>1, <3>2 DEF ToSet
  <2> QED
    BY <2>1, <2>2
<1>8. Head(s) \in ToSet(s) /\ ToSet(Tail(s)) \subseteq ToSet(s)
  <2>1. 1 \in 1..n /\ \A i \in 1..n - 1 : i + 1 \in 1..n
    BY <1>1, <1>2
  <2> QED
    BY <1>1, <1>4, <1>6, <2>1 DEF ToSet
<1> QED
  BY <1>5, <1>7, <1>8

LEMMA TailOnce ==
  ASSUME NEW s, IsSequence(s), s # << >>, \A j, k \in DOMAIN s : j # k => s[j] # s[k]
  PROVE  /\ IsSequence(Tail(s)) /\ Head(s) \notin ToSet(Tail(s)) /\ ToSet(s) = {Head(s)} \cup ToSet(Tail(s))
         /\ \A j, k \in DOMAIN Tail(s) : j # k => Tail(s)[j] # Tail(s)[k]
<1> DEFINE n == Len(s)
           T == {s[i] : i \in 1..n}
           t == Tail(s)
<1>1. DOMAIN s = 1..n /\ n \in Nat /\ n # 0 /\ s \in Seq(T)
  BY SequenceOf DEF IsSequence
<1>2. t \in Seq(T) /\ Len(t) = n - 1 /\ (\A i \in 1..n - 1 : t[i] = s[i + 1]) /\ Head(s) = s[1]
  <2> HIDE DEF T
  <2> QED
    BY <1>1
<1>3. IsSequence(t) /\ ToSet(s) = {Head(s)} \cup ToSet(t)
  BY TailSet
<1> HIDE DEF t, T, n
<1>4. DOMAIN t = 1..n - 1
  BY <1>2, <1>3, SequenceOf
<1>5. \A i \in 1..n - 1 : t[i] = s[i + 1] /\ i + 1 \in DOMAIN s /\ 1 \in DOMAIN s /\ i + 1 # 1
  BY <1>1, <1>2
<1>6. ASSUME NEW j \in 1..n - 1, NEW k \in 1..n - 1, j # k PROVE t[j] # t[k]
  <2>1. j + 1 # k + 1
    BY <1>6
  <2> QED
    BY <1>5, <2>1
<1>7. Head(s) \notin ToSet(t)
  BY <1>2, <1>4, <1>5 DEF ToSet
<1> QED
  BY <1>3, <1>4, <1>6, <1>7 DEF t

LEMMA AppendIsConcatenation ==
  ASSUME NEW s, IsSequence(s), NEW e
  PROVE  s \o <<e>> = Append(s, e)
<1> DEFINE T == {s[i] : i \in 1..Len(s)} \cup {e}
<1>1. s \in Seq(T)
  <2> DEFINE A == {s[i] : i \in 1..Len(s)}
  <2>1. A \subseteq T
    OBVIOUS
  <2>2. s \in Seq(A)
    BY SequenceOf
  <2> HIDE DEF A, T
  <2> QED
    BY <2>1, <2>2, SeqMonotonic
<1>2. e \in T
  OBVIOUS
<1> HIDE DEF T
<1> QED
  BY <1>1, <1>2, AppendIsConcat

LEMMA NothingAppended ==
  ASSUME NEW s, IsSequence(s)
  PROVE  s \o << >> = s
<1> DEFINE T == {s[i] : i \in 1..Len(s)}
<1>1. s \in Seq(T)
  BY SequenceOf
<1> HIDE DEF T
<1> QED
  BY <1>1, ConcatEmptySeq
=============================================================================
