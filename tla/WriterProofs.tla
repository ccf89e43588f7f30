----------------------------- MODULE WriterProofs -----------------------------
(***************************************************************************)
(* What the runs of MCWriter show for small files, for every file: the      *)
(* output is whole or cut, never whole in appearance.                       *)
(***************************************************************************)
EXTENDS Writer, SequenceLemmas

-----------------------------------------------------------------------------
(* The pieces, as a sequence.                                              *)

PieceSet ==
  {[kind |-> "header"], Extras, [kind |-> "appended", instances |-> call.appended], [kind |-> "end"]}
    \cup {[kind |-> "instance", position |-> p] : p \in Node(call.file) \cap DOMAIN names.data}

Settled == names = AssignedNames(call.file, call.positions, call.numbering)

LEMMA DataNames ==
  ASSUME NEW f, NEW S, NEW numbering
  PROVE  AssignedNames(f, S, numbering).data
           = [p \in S |-> NewName(numbering, f.instances[p].id, Rank(p, S))]
BY DEF AssignedNames

LEMMA NodesFinite ==
  ASSUME call \in Calls
  PROVE  /\ Node(call.file) = 1..Len(call.file.instances)
         /\ Len(call.file.instances) \in Nat
         /\ Node(call.file) \subseteq Nat /\ IsFiniteSet(Node(call.file))
<1>1. Len(call.file.instances) \in Nat /\ DOMAIN call.file.instances = 1..Len(call.file.instances)
  <2>1. IsSequence(call.file.instances)
    BY CallsAssumption DEF IsFile
  <2> DEFINE s == call.file.instances
  <2>2. Len(s) \in Nat /\ s = [i \in 1..Len(s) |-> s[i]]
    BY <2>1 DEF IsSequence
  <2> HIDE DEF s
  <2>3. DOMAIN s = 1..Len(s)
    BY <2>2
  <2> QED
    BY <2>2, <2>3 DEF s
<1>2. IsFiniteSet(1..Len(call.file.instances))
  BY <1>1, FS_Interval
<1> QED
  BY <1>1, <1>2 DEF Node

Selected == Node(call.file) \cap DOMAIN names.data

LEMMA WrittenShape ==
  ASSUME call \in Calls
  PROVE  /\ Selected \subseteq Nat /\ IsFiniteSet(Selected)
         /\ IsSequence(Written) /\ Len(Written) = Cardinality(Selected)
         /\ \A i \in 1..Len(Written) :
              /\ InOrder(Selected)[i] \in Selected
              /\ Written[i] = [kind |-> "instance", position |-> InOrder(Selected)[i]]
<1> DEFINE order == InOrder(Selected)
           c == Cardinality(Selected)
<1>1. Selected \subseteq Nat /\ IsFiniteSet(Selected)
  <2>1. Selected \in SUBSET Node(call.file)
    BY DEF Selected
  <2> QED
    BY <2>1, NodesFinite, FS_Subset
<1>2. c \in Nat /\ DOMAIN order = 1..c /\ \A i \in 1..c : order[i] \in Selected
  BY <1>1, InOrderLists
<1>3. Written = [i \in DOMAIN order |-> [kind |-> "instance", position |-> order[i]]]
  BY DEF Written, Selected
<1> HIDE DEF order, c
<1>4. DOMAIN Written = 1..c /\ Written = [i \in 1..c |-> Written[i]]
  BY <1>2, <1>3
<1>5. IsSequence(Written) /\ Len(Written) = c
  BY <1>2, <1>4, BuiltSequence
<1> QED
  BY <1>1, <1>2, <1>3, <1>5 DEF order, c

(* Pieces are what the code writes, in its order.                           *)
LEMMA PiecesAre ==
  ASSUME call \in Calls, NEW n, n = Len(Written)
  PROVE  /\ n \in Nat /\ IsSequence(Pieces)
         /\ ~call.whole => Pieces = Written
         /\ call.whole => /\ Len(Pieces) = n + 4
                          /\ Pieces[1] = [kind |-> "header"] /\ Pieces[2] = Extras
                          /\ \A i \in 1..n : Pieces[2 + i] = Written[i]
                          /\ Pieces[n + 3] = [kind |-> "appended", instances |-> call.appended]
                          /\ Pieces[n + 4] = [kind |-> "end"]
<1>1. IsSequence(Written) /\ n \in Nat
  BY WrittenShape, SequenceOf
<1>2. CASE ~call.whole
  BY <1>1, <1>2 DEF Pieces
<1>3. CASE call.whole
  <2> DEFINE header == [kind |-> "header"]
             extras == Extras
             appended == [kind |-> "appended", instances |-> call.appended]
             end == [kind |-> "end"]
             w == Written
             before == <<header, extras>>
             after == <<appended, end>>
             most == before \o w
             all == most \o after
  <2>1. Pieces = all
    BY <1>3 DEF Pieces
  <2> HIDE DEF header, extras, appended, end, w
  <2>2. /\ IsSequence(before) /\ Len(before) = 2 /\ before[1] = header /\ before[2] = extras
        /\ IsSequence(after) /\ Len(after) = 2 /\ after[1] = appended /\ after[2] = end
    BY DEF IsSequence
  <2>3. IsSequence(w) /\ Len(w) = n
    BY <1>1 DEF w
  <2> HIDE DEF before, after
  <2>4. /\ IsSequence(most) /\ Len(most) = Len(before) + Len(w)
        /\ \A i \in 1..Len(before) : most[i] = before[i]
        /\ \A i \in 1..Len(w) : most[Len(before) + i] = w[i]
    <3>1. IsSequence(before) /\ IsSequence(w)
      BY <2>2, <2>3
    <3> QED
      BY <3>1, ConcatSequence
  <2> HIDE DEF most
  <2>5. /\ IsSequence(all) /\ Len(all) = Len(most) + Len(after)
        /\ \A i \in 1..Len(most) : all[i] = most[i]
        /\ \A i \in 1..Len(after) : all[Len(most) + i] = after[i]
    <3>1. IsSequence(most) /\ IsSequence(after)
      BY <2>2, <2>4
    <3> QED
      BY <3>1, ConcatSequence
  <2> HIDE DEF all
  <2>6. Len(most) = n + 2 /\ Len(all) = n + 4
    BY <1>1, <2>2, <2>3, <2>4, <2>5
  <2>7. /\ 1 \in 1..2 /\ 2 \in 1..2 /\ 1 \in 1..n + 2 /\ 2 \in 1..n + 2
        /\ (n + 2) + 1 = n + 3 /\ (n + 2) + 2 = n + 4
        /\ \A i \in 1..n : 2 + i \in 1..n + 2
    BY <1>1
  <2>8. all[1] = header /\ all[2] = extras /\ all[n + 3] = appended /\ all[n + 4] = end
    BY <2>2, <2>4, <2>5, <2>6, <2>7
  <2>9. \A i \in 1..n : all[2 + i] = w[i]
    BY <2>2, <2>3, <2>4, <2>5, <2>6, <2>7
  <2> QED
    BY <1>1, <1>3, <2>1, <2>5, <2>6, <2>8, <2>9 DEF header, extras, appended, end, w
<1> QED
  BY <1>2, <1>3

(* Which of them are instances.                                             *)
Before == IF call.whole THEN 2 ELSE 0

LEMMA PieceAt ==
  ASSUME call \in Calls, NEW n, n = Len(Written), NEW i \in 1..Len(Pieces)
  PROVE  \/ /\ Before < i /\ i <= Before + n
            /\ i - Before \in 1..n /\ Pieces[i] = Written[i - Before]
         \/ /\ call.whole /\ (i <= Before \/ i > Before + n)
            /\ \/ i = 1 /\ Pieces[i] = [kind |-> "header"]
               \/ i = 2 /\ Pieces[i] = Extras
               \/ i = n + 3 /\ Pieces[i] = [kind |-> "appended", instances |-> call.appended]
               \/ i = n + 4 /\ Pieces[i] = [kind |-> "end"]
<1>1. n \in Nat
  BY PiecesAre
<1>2. CASE ~call.whole
  <2>1. Pieces = Written /\ Before = 0 /\ i \in 1..n
    BY <1>2, PiecesAre DEF Before
  <2> QED
    BY <1>1, <2>1
<1>3. CASE call.whole
  <2>1. Before = 2 /\ i \in 1..n + 4
    BY <1>3, PiecesAre DEF Before
  <2>2. CASE i \in 3..n + 2
    <3>1. i - 2 \in 1..n /\ 2 + (i - 2) = i
      BY <1>1, <2>2
    <3>2. Pieces[i] = Written[i - 2]
      BY <1>3, <3>1, PiecesAre
    <3> QED
      BY <1>1, <2>1, <2>2, <3>1, <3>2
  <2>3. CASE i \notin 3..n + 2
    <3>1. i = 1 \/ i = 2 \/ i = n + 3 \/ i = n + 4
      BY <1>1, <2>1, <2>3
    <3>2. i <= Before \/ i > Before + n
      BY <1>1, <2>1, <3>1
    <3>3. /\ Pieces[1] = [kind |-> "header"] /\ Pieces[2] = Extras
          /\ Pieces[n + 3] = [kind |-> "appended", instances |-> call.appended]
          /\ Pieces[n + 4] = [kind |-> "end"]
      BY <1>3, PiecesAre
    <3> QED
      BY <1>3, <3>1, <3>2, <3>3
  <2> QED
    BY <2>2, <2>3
<1> QED
  BY <1>2, <1>3

(* An instance is one that has a name, and only the last piece ends the file. *)
LEMMA PiecesShape ==
  ASSUME call \in Calls
  PROVE  /\ Pieces \in Seq(PieceSet)
         /\ \A i \in 1..Len(Pieces) :
              Pieces[i].kind = "end" => i = Len(Pieces) /\ call.whole
<1> DEFINE n == Len(Written)
           elements == {Pieces[i] : i \in 1..Len(Pieces)}
<1>1. ASSUME NEW i \in 1..n
      PROVE  Written[i] \in PieceSet /\ Written[i].kind # "end"
  <2>1. PICK p \in Selected : Written[i] = [kind |-> "instance", position |-> p]
    BY WrittenShape
  <2> QED
    BY <2>1 DEF PieceSet, Selected
<1>2. ASSUME NEW i \in 1..Len(Pieces)
      PROVE  /\ Pieces[i] \in PieceSet
             /\ Pieces[i].kind = "end" => i = Len(Pieces) /\ call.whole
  <2>1. \/ i - Before \in 1..n /\ Pieces[i] = Written[i - Before]
        \/ /\ call.whole
           /\ \/ Pieces[i] \in {[kind |-> "header"], Extras,
                                [kind |-> "appended", instances |-> call.appended]}
              \/ i = n + 4 /\ Pieces[i] = [kind |-> "end"]
    BY PieceAt
  <2>2. call.whole => Len(Pieces) = n + 4
    BY PiecesAre
  <2>3. Extras.kind = "extra"
    BY DEF Extras
  <2> HIDE DEF n
  <2>4. CASE i - Before \in 1..n /\ Pieces[i] = Written[i - Before]
    BY <1>1, <2>4
  <2>5. CASE call.whole /\ Pieces[i] \in {[kind |-> "header"], Extras,
                                          [kind |-> "appended", instances |-> call.appended]}
    BY <2>3, <2>5 DEF PieceSet
  <2>6. CASE call.whole /\ i = n + 4 /\ Pieces[i] = [kind |-> "end"]
    BY <2>2, <2>6 DEF PieceSet
  <2> QED
    BY <2>1, <2>4, <2>5, <2>6
<1>3. Pieces \in Seq(elements)
  BY PiecesAre, SequenceOf, ZenonT(40)
<1>4. elements \subseteq PieceSet
  BY <1>2
<1> HIDE DEF elements
<1> QED
  BY <1>2, <1>3, <1>4, SeqMonotonic

-----------------------------------------------------------------------------
(* The inductive invariant: the sink and the buffer together hold a first    *)
(* part of the pieces, up to where the code writes next; and from the check *)
(* on the selection is closed under the assigned names.                     *)

Chunk == {Text(Pieces[i]) : i \in 1..Len(Pieces)}

Sent ==
  /\ sink \in Seq(Chunk) /\ buffer \in Seq(Chunk)
  /\ Len(sink) + Len(buffer) <= Len(Pieces)
  /\ \A i \in 1..Len(sink) : sink[i] = Text(Pieces[i])
  /\ \A i \in 1..Len(buffer) : buffer[i] = Text(Pieces[Len(sink) + i])

Unsent == sink = << >> /\ buffer = << >> /\ at = 1

WriterInv ==
  /\ call \in Calls
  /\ \/ pc = "assign" /\ outcome = "none" /\ Unsent
     \/ pc = "check" /\ outcome = "none" /\ Unsent /\ Settled
     \/ pc = "write" /\ outcome = "none" /\ Settled /\ Checked /\ Sent /\ at = Len(sink) + Len(buffer) + 1
     \/ pc = "drop" /\ outcome = "Io" /\ Settled /\ Sent
     \/ pc = "done" /\ outcome = "UnresolvedReference" /\ Unsent
     \/ pc = "done" /\ outcome = "Io" /\ Settled /\ Sent
     \/ pc = "done" /\ outcome = "Ok" /\ Settled /\ Checked /\ Sent /\ Len(sink) = Len(Pieces)

(* What is derived from the call and the names changes with them only.      *)
LEMMA SamePieces ==
  ASSUME UNCHANGED <<call, names>>
  PROVE  /\ Pieces' = Pieces /\ Checked' = Checked /\ Settled' = Settled
         /\ \A piece : Text(piece)' = Text(piece)
         /\ Chunk' = Chunk
<1>1. Written' = Written /\ Extras' = Extras
  BY DEF Written, Extras, Verbatim
<1>2. Pieces' = Pieces
  BY <1>1 DEF Pieces
<1>3. \A piece : Text(piece)' = Text(piece)
  BY DEF Text
<1>4. Chunk' = Chunk
  BY <1>2 DEF Chunk, Text
<1>5. Checked' = Checked /\ Settled' = Settled
  BY DEF Checked, Settled
<1> QED
  BY <1>2, <1>3, <1>4, <1>5

LEMMA SameSent ==
  ASSUME Sent, UNCHANGED <<call, names, sink, buffer>>
  PROVE  Sent'
BY SamePieces DEF Sent

(* Whatever part of the buffer reaches the sink, what is sent stays a first  *)
(* part of the pieces; the rest may be kept or lost.                        *)
LEMMA SentPart ==
  ASSUME call \in Calls, Sent, NEW k \in 0..Len(buffer), UNCHANGED <<call, names>>,
         sink' = sink \o SubSeq(buffer, 1, k),
         buffer' = << >> \/ buffer' = SubSeq(buffer, k + 1, Len(buffer))
  PROVE  Sent' /\ Len(sink') = Len(sink) + k
<1> DEFINE part == SubSeq(buffer, 1, k)
           rest == SubSeq(buffer, k + 1, Len(buffer))
<1>1. /\ sink \in Seq(Chunk) /\ buffer \in Seq(Chunk)
      /\ Len(sink) \in Nat /\ Len(buffer) \in Nat /\ Len(Pieces) \in Nat
      /\ k \in Nat /\ k <= Len(buffer)
  BY PiecesShape DEF Sent
<1>2. part \in Seq(Chunk) /\ Len(part) = k /\ \A i \in 1..k : part[i] = buffer[i]
  <2>1. \A i \in 1..k : buffer[i] \in Chunk
    BY <1>1, ElementOfSeq
  <2> QED
    BY <1>1, <2>1, SubSeqProperties
<1>3. /\ rest \in Seq(Chunk) /\ Len(rest) = Len(buffer) - k
      /\ \A i \in 1..Len(buffer) - k : rest[i] = buffer[k + i]
  <2>1. \A i \in k + 1..Len(buffer) : buffer[i] \in Chunk
    BY <1>1, ElementOfSeq
  <2> DEFINE m == k + 1
             n == Len(buffer)
  <2>2. m \in Int /\ n \in Int /\ \A i \in m..n : buffer[i] \in Chunk
    BY <1>1, <2>1
  <2>3. /\ SubSeq(buffer, m, n) \in Seq(Chunk)
        /\ Len(SubSeq(buffer, m, n)) = IF m <= n THEN n - m + 1 ELSE 0
        /\ \A i \in 1..n - m + 1 : SubSeq(buffer, m, n)[i] = buffer[m + i - 1]
    <3> HIDE DEF m, n
    <3> QED
      BY <2>2, SubSeqProperties
  <2>4. n - m + 1 = Len(buffer) - k /\ (IF m <= n THEN n - m + 1 ELSE 0) = Len(buffer) - k
    BY <1>1
  <2>5. \A i \in 1..Len(buffer) - k : m + i - 1 = k + i
    BY <1>1
  <2> QED
    BY <2>3, <2>4, <2>5
<1> HIDE DEF part, rest
<1>4. /\ sink' \in Seq(Chunk) /\ Len(sink') = Len(sink) + k
      /\ \A i \in 1..Len(sink) + k : sink'[i] = IF i <= Len(sink) THEN sink[i] ELSE part[i - Len(sink)]
  <2>1. sink' = sink \o part
    BY DEF part
  <2>2. /\ sink \o part \in Seq(Chunk) /\ Len(sink \o part) = Len(sink) + Len(part)
        /\ \A i \in 1..Len(sink) + Len(part) :
             (sink \o part)[i] = IF i <= Len(sink) THEN sink[i] ELSE part[i - Len(sink)]
    BY <1>1, <1>2, ConcatProperties
  <2> QED
    BY <1>2, <2>1, <2>2
<1>5. ASSUME NEW i \in 1..Len(sink) + k
      PROVE  sink'[i] = Text(Pieces[i])
  <2>1. CASE i <= Len(sink)
    BY <1>1, <1>4, <2>1 DEF Sent
  <2>2. CASE ~(i <= Len(sink))
    <3>1. i - Len(sink) \in 1..k /\ i - Len(sink) \in 1..Len(buffer) /\ Len(sink) + (i - Len(sink)) = i
      BY <1>1, <2>2
    <3>2. sink'[i] = buffer[i - Len(sink)]
      BY <1>2, <1>4, <2>2, <3>1
    <3>3. buffer[i - Len(sink)] = Text(Pieces[Len(sink) + (i - Len(sink))])
      BY <3>1 DEF Sent
    <3> QED
      BY <3>1, <3>2, <3>3
  <2> QED
    BY <2>1, <2>2
<1>6. /\ buffer' \in Seq(Chunk)
      /\ Len(sink') + Len(buffer') <= Len(Pieces)
      /\ \A i \in 1..Len(buffer') : buffer'[i] = Text(Pieces[Len(sink') + i])
  <2>1. CASE buffer' = << >>
    <3>1. << >> \in Seq(Chunk) /\ Len(<< >>) = 0
      BY EmptySeq
    <3> QED
      BY <1>1, <1>4, <2>1, <3>1 DEF Sent
  <2>2. CASE buffer' = rest
    <3>1. ASSUME NEW i \in 1..Len(buffer) - k
          PROVE  rest[i] = Text(Pieces[(Len(sink) + k) + i])
      <4>1. k + i \in 1..Len(buffer) /\ Len(sink) + (k + i) = (Len(sink) + k) + i
        BY <1>1
      <4>2. buffer[k + i] = Text(Pieces[Len(sink) + (k + i)])
        BY <4>1 DEF Sent
      <4> QED
        BY <1>3, <4>1, <4>2
    <3>2. (Len(sink) + k) + (Len(buffer) - k) <= Len(Pieces)
      BY <1>1 DEF Sent
    <3> QED
      BY <1>3, <1>4, <2>2, <3>1, <3>2
  <2> QED
    BY <2>1, <2>2 DEF rest
<1>7. /\ Pieces' = Pieces /\ Chunk' = Chunk
      /\ \A piece : Text(piece)' = Text(piece)
  BY SamePieces
<1>8. Sent'
  BY <1>4, <1>5, <1>6, <1>7 DEF Sent
<1> QED
  BY <1>4, <1>8

(* A written piece that is checked has a name for every reference.          *)
LEMMA NoneUnnamed ==
  ASSUME call \in Calls, Checked, NEW i \in 1..Len(Pieces)
  PROVE  ~Unnamed(Pieces[i])
<1>1. Pieces[i] \in PieceSet
  BY PiecesShape, ElementOfSeq
<1>2. ASSUME Pieces[i].kind = "instance"
      PROVE  Pieces[i].position \in DOMAIN names.data
  BY <1>1, <1>2 DEF PieceSet, Extras
<1>3. ASSUME Pieces[i].kind = "instance"
      PROVE  ~Dangles(call.file, names, call.pruned, call.replaced, Pieces[i].position)
  BY <1>2, <1>3 DEF Checked, CheckClosed
<1> QED
  BY <1>3 DEF Unnamed

LEMMA SentOneMore ==
  ASSUME call \in Calls, Sent, at = Len(sink) + Len(buffer) + 1, at <= Len(Pieces),
         UNCHANGED <<call, names, sink>>, buffer' = Append(buffer, Text(Pieces[at])), at' = at + 1
  PROVE  Sent' /\ at' = Len(sink') + Len(buffer') + 1
<1>1. /\ buffer \in Seq(Chunk) /\ Len(sink) \in Nat /\ Len(buffer) \in Nat /\ Len(Pieces) \in Nat
      /\ at \in 1..Len(Pieces)
  BY PiecesShape DEF Sent
<1>2. Text(Pieces[at]) \in Chunk
  BY <1>1 DEF Chunk
<1>3. /\ buffer' \in Seq(Chunk) /\ Len(buffer') = Len(buffer) + 1
      /\ \A i \in 1..Len(buffer) : buffer'[i] = buffer[i]
      /\ buffer'[Len(buffer) + 1] = Text(Pieces[at])
  BY <1>1, <1>2, AppendProperties
<1>4. ASSUME NEW i \in 1..Len(buffer) + 1
      PROVE  buffer'[i] = Text(Pieces[Len(sink) + i])
  <2>1. CASE i = Len(buffer) + 1
    <3>1. Len(sink) + (Len(buffer) + 1) = at
      BY <1>1
    <3> QED
      BY <1>3, <2>1, <3>1
  <2>2. CASE i # Len(buffer) + 1
    <3>1. i \in 1..Len(buffer)
      BY <1>1, <2>2
    <3> QED
      BY <1>3, <3>1 DEF Sent
  <2> QED
    BY <2>1, <2>2
<1>5. /\ Pieces' = Pieces /\ Chunk' = Chunk
      /\ \A piece : Text(piece)' = Text(piece)
  BY SamePieces
<1>6. Len(sink) + (Len(buffer) + 1) <= Len(Pieces) /\ at + 1 = Len(sink) + (Len(buffer) + 1) + 1
  BY <1>1
<1>7. Sent'
  BY <1>3, <1>4, <1>5, <1>6 DEF Sent
<1> QED
  BY <1>3, <1>6, <1>7

(* Every step of the writer keeps the invariant.                            *)
LEMMA WriterInvStep == WriterInv /\ [Next]_vars => WriterInv'
<1> SUFFICES ASSUME WriterInv, [Next]_vars
             PROVE  WriterInv'
  OBVIOUS
<1>1. call \in Calls
  BY DEF WriterInv
<1>2. CASE AssignNames
  <2>1. pc = "assign" /\ outcome = "none" /\ Unsent
    BY <1>2 DEF AssignNames, WriterInv
  <2>2. Settled' /\ Unsent'
    BY <1>2, <2>1 DEF AssignNames, Settled, Unsent
  <2> QED
    BY <1>1, <1>2, <2>1, <2>2 DEF AssignNames, WriterInv
<1>3. CASE Check
  <2>1. outcome = "none" /\ Unsent /\ Settled
    BY <1>3 DEF Check, WriterInv
  <2>2. UNCHANGED <<call, names, at, buffer, sink>> /\ Unsent'
    BY <1>3, <2>1 DEF Check, Unsent
  <2>3. CASE Checked
    <3>1. Sent /\ at = Len(sink) + Len(buffer) + 1
      BY <1>1, <2>1, PiecesShape, EmptySeq DEF Unsent, Sent
    <3>2. Sent' /\ Settled' /\ Checked' /\ at' = Len(sink') + Len(buffer') + 1
      BY <2>1, <2>2, <2>3, <3>1, SamePieces, SameSent
    <3>3. pc' = "write" /\ outcome' = "none"
      BY <1>3, <2>1, <2>3 DEF Check
    <3> QED
      BY <1>1, <2>2, <3>2, <3>3 DEF WriterInv
  <2>4. CASE ~Checked
    BY <1>1, <1>3, <2>2, <2>4 DEF Check, WriterInv
  <2> QED
    BY <2>3, <2>4
<1>4. CASE WritePiece
  <2>1. /\ outcome = "none" /\ Settled /\ Checked /\ Sent /\ at = Len(sink) + Len(buffer) + 1
        /\ at <= Len(Pieces) /\ UNCHANGED <<call, names, sink>>
    BY <1>4 DEF WritePiece, WriterInv
  <2>2. at \in 1..Len(Pieces)
    BY <1>1, <2>1, PiecesShape DEF Sent
  <2>3. ~Unnamed(Pieces[at])
    BY <1>1, <2>1, <2>2, NoneUnnamed
  <2>4. /\ buffer' = Append(buffer, Text(Pieces[at])) /\ at' = at + 1
        /\ pc' = "write" /\ outcome' = "none"
    BY <1>4, <2>1, <2>3 DEF WritePiece
  <2>5. Sent' /\ at' = Len(sink') + Len(buffer') + 1
    BY <1>1, <2>1, <2>4, SentOneMore
  <2>6. Settled' /\ Checked'
    BY <2>1, SamePieces
  <2> QED
    BY <1>1, <2>1, <2>4, <2>5, <2>6 DEF WriterInv
<1>5. CASE Drain
  <2>1. /\ outcome = "none" /\ Settled /\ Checked /\ Sent /\ at = Len(sink) + Len(buffer) + 1
        /\ UNCHANGED <<call, names, at>> /\ sink' = sink \o buffer /\ buffer' = << >>
    BY <1>5 DEF Drain, MustDrain, WriterInv
  <2>2. /\ buffer = SubSeq(buffer, 1, Len(buffer)) /\ Len(buffer) \in 0..Len(buffer)
        /\ Len(sink) \in Nat /\ Len(buffer) \in Nat /\ Len(Pieces) \in Nat
    BY <1>1, <2>1, SubSeqFull, PiecesShape DEF Sent
  <2>3. Sent' /\ Len(sink') = Len(sink) + Len(buffer)
    BY <1>1, <2>1, <2>2, SentPart
  <2>4. Settled' /\ Checked' /\ Pieces' = Pieces
    BY <2>1, SamePieces
  <2>5. CASE at > Len(Pieces)
    <3>1. Len(sink') = Len(Pieces')
      BY <2>1, <2>2, <2>3, <2>4, <2>5 DEF Sent
    <3>2. pc' = "done" /\ outcome' = "Ok"
      BY <1>5, <2>5 DEF Drain
    <3> QED
      BY <1>1, <2>1, <2>3, <2>4, <3>1, <3>2 DEF WriterInv
  <2>6. CASE ~(at > Len(Pieces))
    <3>1. pc' = "write" /\ outcome' = "none"
      BY <1>5, <2>1, <2>6 DEF Drain, MustDrain
    <3>2. at' = Len(sink') + Len(buffer') + 1
      BY <2>1, <2>2, <2>3
    <3> QED
      BY <1>1, <2>1, <2>3, <2>4, <3>1, <3>2 DEF WriterInv
  <2> QED
    BY <2>5, <2>6
<1>6. CASE SinkFails
  <2>1. Settled /\ Sent /\ Len(buffer) \in Nat /\ UNCHANGED <<call, names, at>>
    BY <1>6 DEF SinkFails, MustDrain, WriterInv, Sent
  <2>2. PICK k \in 0..Len(buffer) - 1 : /\ sink' = sink \o SubSeq(buffer, 1, k)
                                       /\ buffer' = SubSeq(buffer, k + 1, Len(buffer))
    BY <1>6 DEF SinkFails
  <2>3. k \in 0..Len(buffer)
    BY <2>1
  <2>4. Sent'
    BY <1>1, <2>1, <2>2, <2>3, SentPart
  <2>5. Settled'
    BY <2>1, SamePieces
  <2> QED
    BY <1>1, <1>6, <2>1, <2>4, <2>5 DEF SinkFails, WriterInv
<1>7. CASE DropWriter
  <2>1. Settled /\ Sent /\ outcome = "Io" /\ UNCHANGED <<call, names, at, outcome>> /\ buffer' = << >>
    BY <1>7 DEF DropWriter, WriterInv
  <2>2. PICK k \in 0..Len(buffer) : sink' = sink \o SubSeq(buffer, 1, k)
    BY <1>7 DEF DropWriter
  <2>3. Sent'
    BY <1>1, <2>1, <2>2, SentPart
  <2>4. Settled'
    BY <2>1, SamePieces
  <2> QED
    BY <1>1, <1>7, <2>1, <2>3, <2>4 DEF DropWriter, WriterInv
<1>8. CASE UNCHANGED vars
  <2>1. UNCHANGED <<call, names, at, buffer, sink, pc, outcome>>
    BY <1>8 DEF vars
  <2>2. (Sent => Sent') /\ Settled' = Settled /\ Checked' = Checked /\ Pieces' = Pieces
    BY <2>1, SamePieces, SameSent
  <2> QED
    BY <2>1, <2>2 DEF WriterInv, Unsent
<1> QED
  BY <1>2, <1>3, <1>4, <1>5, <1>6, <1>7, <1>8 DEF Next

(* The invariant says what CompleteOrCut says: the end of a whole file is   *)
(* the last piece, so a sink that ends with it has them all.               *)
LEMMA WriterInvImpliesCompleteOrCut == WriterInv => CompleteOrCut
<1> SUFFICES ASSUME WriterInv
             PROVE  CompleteOrCut
  OBVIOUS
<1>1. call \in Calls /\ Len(Pieces) \in Nat /\ DOMAIN Pieces = 1..Len(Pieces)
  BY PiecesShape DEF WriterInv
<1> DEFINE texts == [i \in DOMAIN Pieces |-> Text(Pieces[i])]
<1>2. ASSUME Sent, Len(sink) = Len(Pieces)
      PROVE  sink = texts
  <2>1. sink \in [1..Len(sink) -> Chunk] /\ \A i \in 1..Len(sink) : sink[i] = Text(Pieces[i])
    BY <1>2, LenProperties DEF Sent
  <2> QED
    BY <1>1, <1>2, <2>1
<1>3. outcome = "Ok" => Sent /\ Len(sink) = Len(Pieces)
  BY DEF WriterInv
<1>4. ASSUME call.whole, sink # << >>, Last(sink).kind = "end"
      PROVE  Sent /\ Len(sink) = Len(Pieces)
  <2>1. Sent
    BY <1>4 DEF WriterInv, Unsent
  <2>2. Len(sink) \in Nat \ {0} /\ Len(buffer) \in Nat /\ Len(sink) <= Len(Pieces)
    BY <1>1, <1>4, <2>1, EmptySeq DEF Sent
  <2>3. Len(sink) \in 1..Len(Pieces)
    BY <1>1, <2>2
  <2>4. Last(sink) = Text(Pieces[Len(sink)])
    BY <2>1, <2>2 DEF Sent, Last
  <2>5. Pieces[Len(sink)].kind = "end"
    BY <1>4, <2>4 DEF Text
  <2> QED
    BY <1>1, <2>1, <2>3, <2>5, PiecesShape
<1>5. outcome = "UnresolvedReference" => sink = << >> /\ at = 1
  BY DEF WriterInv, Unsent
<1> QED
  BY <1>2, <1>3, <1>4, <1>5 DEF CompleteOrCut

(* A write that succeeds has written every piece, one that fails leaves no   *)
(* file that reads as whole, and a selection that is not closed is refused  *)
(* before the first byte (write_pruned and write_instances of               *)
(* src/src/p21/writer.rs).                                                 *)
THEOREM WriteIsCompleteOrCut == Spec => []CompleteOrCut
<1>1. Init => WriterInv
  BY DEF Init, WriterInv, Unsent
<1> QED
  BY <1>1, WriterInvStep, WriterInvImpliesCompleteOrCut, PTL DEF Spec

-----------------------------------------------------------------------------
(* What is written, read back.  First the names.                            *)

LEMMA ExternalPlaces ==
  ASSUME NEW f, IsFile(f)
  PROVE  /\ DOMAIN f.external \subseteq Nat /\ IsFiniteSet(DOMAIN f.external)
         /\ \A id : IsExternal(f, id) => Entry(f, id) \in DOMAIN f.external
<1>1. PICK n \in Nat : DOMAIN f.external = 1..n
  BY SequenceOf DEF IsFile
<1>2. DOMAIN f.external \subseteq Nat /\ IsFiniteSet(DOMAIN f.external)
  BY <1>1, FS_Interval
<1>3. ASSUME NEW id, IsExternal(f, id)
      PROVE  Entry(f, id) \in DOMAIN f.external
  <2> DEFINE T == {i \in DOMAIN f.external : f.external[i] = id}
  <2>1. T \subseteq Nat /\ T # {}
    BY <1>2, <1>3 DEF IsExternal, ToSet
  <2>2. \E m \in T : \A k \in T : m <= k
    <3> HIDE DEF T
    <3> QED
      BY <2>1, LeastNatural
  <2>3. Entry(f, id) = Min(T)
    BY DEF Entry
  <2>4. Min(T) \in T
    <3> HIDE DEF T
    <3> QED
      BY <2>2 DEF Min
  <2> QED
    BY <2>3, <2>4
<1> QED
  BY <1>2, <1>3

Selects(S, f) == S \subseteq Node(f)

(* No two instances get one name, and no external name gets an instance's:   *)
(* under Dense the external names follow all the instances.                *)
LEMMA NewNames ==
  ASSUME NEW f, IsFile(f), UniqueIds(f), NEW S, Selects(S, f),
         NEW numbering \in [kind : {"Preserve", "Dense", "Offset"}, by : Nat],
         NEW new, new = AssignedNames(f, S, numbering)
  PROVE  /\ DOMAIN new.data = S /\ DOMAIN new.external = UsedExternal(f, S)
         /\ \A p, q \in S : new.data[p] = new.data[q] => p = q
         /\ \A p \in S, id \in DOMAIN new.external :
              NodesNamed(f, {id}) = {} => new.external[id] # new.data[p]
         /\ numbering.kind = "Preserve" => \A id \in DOMAIN new.external : new.external[id] = id
<1> DEFINE used == UsedExternal(f, S)
           entries == {Entry(f, id) : id \in used}
           n == Cardinality(S)
<1>1. /\ new.data = [p \in S |-> NewName(numbering, f.instances[p].id, Rank(p, S))]
      /\ new.external = [id \in used |-> NewName(numbering, id, n + Rank(Entry(f, id), entries))]
  BY DEF AssignedNames
<1>2. /\ numbering.kind \in {"Preserve", "Dense", "Offset"} /\ numbering.by \in Nat
      /\ \A old, dense : NewName(numbering, old, dense)
                           = IF numbering.kind = "Preserve" THEN old
                             ELSE IF numbering.kind = "Dense" THEN dense ELSE old + numbering.by
  BY DEF NewName
<1>3. S \subseteq Nat /\ IsFiniteSet(S)
  <2>1. PICK m \in Nat : Node(f) = 1..m
    BY SequenceOf DEF IsFile, Node
  <2>2. IsFiniteSet(1..m)
    BY <2>1, FS_Interval
  <2>3. S \subseteq 1..m /\ 1..m \subseteq Nat
    BY <2>1 DEF Selects
  <2> QED
    BY <2>2, <2>3, FS_Subset
<1>4. \A id \in used : IsExternal(f, id)
  BY DEF UsedExternal
<1>5. \A p \in S : f.instances[p].id \in Nat
  BY DEF IsFile, IsInstance, Selects
<1>6. used \subseteq Nat
  BY <1>4 DEF IsExternal, IsFile
<1>7. entries \subseteq Nat /\ IsFiniteSet(entries)
  <2>1. entries \subseteq DOMAIN f.external
    BY <1>4, ExternalPlaces
  <2> HIDE DEF entries
  <2> QED
    BY <2>1, ExternalPlaces, FS_Subset
<1>8. n \in Nat
  BY <1>3, FS_CardinalityType
<1>9. \A id \in used : Rank(Entry(f, id), entries) \in Nat \ {0}
  <2> TAKE id \in used
  <2>1. Entry(f, id) \in entries /\ Cardinality(entries) \in Nat
    BY <1>7, FS_CardinalityType
  <2> HIDE DEF entries, used
  <2>2. Rank(Entry(f, id), entries) \in 1..Cardinality(entries)
    BY <1>7, <2>1, RankIncreases
  <2> QED
    BY <2>1, <2>2
<1>10. \A p \in S : Rank(p, S) \in 1..n
  <2> HIDE DEF n
  <2> QED
    BY <1>3, RankIncreases DEF n
<1> HIDE DEF used, entries, n
<1>11. DOMAIN new.data = S /\ DOMAIN new.external = used
  BY <1>1
<1>12. \A p, q \in S : new.data[p] = new.data[q] => p = q
  <2> TAKE p, q \in S
  <2>1. Rank(p, S) = Rank(q, S) <=> p = q
    BY <1>3, RankIncreases
  <2>2. f.instances[p].id = f.instances[q].id => p = q
    BY DEF UniqueIds, Selects
  <2> QED
    BY <1>1, <1>2, <1>5, <2>1, <2>2
<1>13. ASSUME NEW p \in S, NEW id \in used, NodesNamed(f, {id}) = {}
       PROVE  new.external[id] # new.data[p]
  <2>1. f.instances[p].id # id
    BY <1>13 DEF NodesNamed, Selects
  <2>2. /\ new.external[id] = NewName(numbering, id, n + Rank(Entry(f, id), entries))
        /\ new.data[p] = NewName(numbering, f.instances[p].id, Rank(p, S))
    BY <1>1
  <2>3. n + Rank(Entry(f, id), entries) # Rank(p, S)
    BY <1>8, <1>9, <1>10
  <2> QED
    BY <1>2, <1>5, <1>6, <2>1, <2>2, <2>3
<1>14. numbering.kind = "Preserve" => \A id \in used : new.external[id] = id
  BY <1>1, <1>2
<1> QED
  BY <1>11, <1>12, <1>13, <1>14 DEF used

(* A name has the new name of its instance, or of its REFERENCE entry.      *)
LEMMA NamedData ==
  ASSUME NEW f, UniqueIds(f), NEW new, NEW q \in Node(f), q \in DOMAIN new.data
  PROVE  NamesOf(f, new, f.instances[q].id) = {new.data[q]}
<1>1. NodesNamed(f, {f.instances[q].id}) = {q}
  BY DEF NodesNamed, UniqueIds
<1>2. {q} \cap DOMAIN new.data = {q}
  OBVIOUS
<1> QED
  BY <1>1, <1>2 DEF NamesOf

LEMMA NamedExternal ==
  ASSUME NEW f, NEW new, NEW id, IsWritten(f, new, id), NodesNamed(f, {id}) = {}
  PROVE  id \in DOMAIN new.external /\ NamesOf(f, new, id) = {new.external[id]}
<1>1. NamesOf(f, new, id) = {new.external[e] : e \in {id} \cap DOMAIN new.external}
  BY DEF NamesOf
<1>2. id \in DOMAIN new.external
  BY <1>1 DEF IsWritten
<1> QED
  BY <1>1, <1>2

-----------------------------------------------------------------------------
(* An instance that is written, when nothing is replaced.                   *)
NewFor(f, new, id) ==
  IF id \in DOMAIN Nothing THEN Nothing[id] ELSE CHOOSE name \in NamesOf(f, new, id) : TRUE

WrittenParamOf(f, new, pruned, p, param) ==
  LET kept == ElementsAt(param.refs,
                {i \in DOMAIN param.refs : ~Removed(f, new, pruned, Nothing, p, param, param.refs[i])})
  IN  [param EXCEPT !.refs = [i \in DOMAIN kept |-> NewFor(f, new, kept[i])]]

LEMMA WrittenParamRefs ==
  ASSUME NEW f, NEW new, NEW pruned, NEW p, NEW param,
         {"list", "refs"} \subseteq DOMAIN param, IsSequence(param.refs),
         NEW written, written = WrittenParamOf(f, new, pruned, p, param)
  PROVE  /\ \A x \in ToSet(written.refs) :
              \E id \in ToSet(param.refs) :
                ~Removed(f, new, pruned, Nothing, p, param, id) /\ x = NewFor(f, new, id)
         /\ \A id \in ToSet(param.refs) :
              IsWritten(f, new, id) => NewFor(f, new, id) \in ToSet(written.refs)
<1> DEFINE places == {i \in DOMAIN param.refs :
                        ~Removed(f, new, pruned, Nothing, p, param, param.refs[i])}
           kept == ElementsAt(param.refs, places)
<1>2. places \subseteq Nat /\ IsFiniteSet(places)
  <2>1. places \subseteq DOMAIN param.refs
    OBVIOUS
  <2> HIDE DEF places
  <2> QED
    BY <2>1, PlacesFinite
<1>3. written.refs = [i \in DOMAIN kept |-> NewFor(f, new, kept[i])]
  BY DEF WrittenParamOf
<1>4. /\ \A k \in DOMAIN kept : \E i \in places : kept[k] = param.refs[i]
      /\ \A i \in places : \E k \in DOMAIN kept : kept[k] = param.refs[i]
  <2> DEFINE refs == param.refs
  <2>1. kept = ElementsAt(refs, places)
    OBVIOUS
  <2> HIDE DEF places, kept, refs
  <2>2. /\ \A k \in DOMAIN kept : \E i \in places : kept[k] = refs[i]
        /\ \A i \in places : \E k \in DOMAIN kept : kept[k] = refs[i]
    BY <1>2, <2>1, ElementsAtLists
  <2> QED
    BY <2>2 DEF refs
<1> HIDE DEF kept
<1>5. ASSUME NEW x \in ToSet(written.refs)
      PROVE  \E id \in ToSet(param.refs) :
               ~Removed(f, new, pruned, Nothing, p, param, id) /\ x = NewFor(f, new, id)
  <2>1. PICK k \in DOMAIN kept : x = NewFor(f, new, kept[k])
    BY <1>3 DEF ToSet
  <2>2. PICK i \in places : kept[k] = param.refs[i]
    BY <1>4
  <2> QED
    BY <2>1, <2>2 DEF ToSet
<1>6. ASSUME NEW id \in ToSet(param.refs), IsWritten(f, new, id)
      PROVE  NewFor(f, new, id) \in ToSet(written.refs)
  <2>1. PICK i \in DOMAIN param.refs : id = param.refs[i]
    BY DEF ToSet
  <2>2. i \in places
    BY <1>6, <2>1 DEF Removed
  <2>3. PICK k \in DOMAIN kept : kept[k] = id
    BY <1>4, <2>1, <2>2
  <2> QED
    BY <1>3, <2>3 DEF ToSet
<1> QED
  BY <1>5, <1>6

LEMMA WrittenIds ==
  ASSUME NEW f, IsFile(f), NEW new, NEW pruned, NEW p \in Node(f), ~Dangles(f, new, pruned, Nothing, p),
         NEW w, w = WrittenInstance(f, new, pruned, Nothing, p)
  PROVE  /\ w.id = new.data[p]
         /\ w.records[1].name = f.instances[p].records[1].name
         /\ \A x \in InstanceIds(w) : \E id \in InstanceIds(f.instances[p]) :
              IsWritten(f, new, id) /\ x = NewFor(f, new, id)
         /\ \A id \in InstanceIds(f.instances[p]) :
              IsWritten(f, new, id) => NewFor(f, new, id) \in InstanceIds(w)
<1> DEFINE inst == f.instances[p]
           WrittenParam(param) == WrittenParamOf(f, new, pruned, p, param)
           WrittenRecord(r) == [r EXCEPT !.params = [j \in DOMAIN r.params |-> WrittenParam(r.params[j])]]
<1>1. w = [inst EXCEPT !.id = new.data[p],
                       !.records = [i \in DOMAIN inst.records |-> WrittenRecord(inst.records[i])]]
  BY DEF WrittenInstance, WrittenParamOf, NewFor
<1>2. /\ {"id", "complex", "records"} \subseteq DOMAIN inst
      /\ IsSequence(inst.records) /\ inst.records # << >>
      /\ \A i \in DOMAIN inst.records :
           /\ {"name", "params"} \subseteq DOMAIN inst.records[i] /\ IsSequence(inst.records[i].params)
           /\ \A j \in DOMAIN inst.records[i].params :
                /\ {"list", "refs"} \subseteq DOMAIN inst.records[i].params[j]
                /\ IsSequence(inst.records[i].params[j].refs)
  <2>1. IsInstance(inst)
    BY DEF IsFile, Node
  <2> HIDE DEF inst
  <2> QED
    BY <2>1 DEF IsInstance, ToSet
<1>3. \A i \in DOMAIN inst.records : \A j \in DOMAIN inst.records[i].params :
        \A id \in ToSet(inst.records[i].params[j].refs) :
          \/ IsWritten(f, new, id)
          \/ Removed(f, new, pruned, Nothing, p, inst.records[i].params[j], id)
  BY DEF Dangles, ToSet, Nothing
<1> HIDE DEF inst, WrittenRecord
<1>4. /\ w.id = new.data[p] /\ DOMAIN w.records = DOMAIN inst.records
      /\ \A i \in DOMAIN inst.records : w.records[i] = WrittenRecord(inst.records[i])
  BY <1>1, <1>2
<1>5. \A i \in DOMAIN inst.records :
        /\ w.records[i].name = inst.records[i].name
        /\ DOMAIN w.records[i].params = DOMAIN inst.records[i].params
        /\ \A j \in DOMAIN inst.records[i].params :
             w.records[i].params[j] = WrittenParam(inst.records[i].params[j])
  <2> TAKE i \in DOMAIN inst.records
  <2> DEFINE r == inst.records[i]
  <2> HIDE DEF WrittenParam
  <2>1. w.records[i] = [r EXCEPT !.params = [j \in DOMAIN r.params |-> WrittenParam(r.params[j])]]
    BY <1>4 DEF WrittenRecord
  <2>2. {"name", "params"} \subseteq DOMAIN r
    BY <1>2
  <2> HIDE DEF r
  <2>3. /\ w.records[i].name = r.name
        /\ w.records[i].params = [j \in DOMAIN r.params |-> WrittenParam(r.params[j])]
    BY <2>1, <2>2
  <2> QED
    BY <2>3 DEF r
<1>6. w.records[1].name = inst.records[1].name
  <2>1. DOMAIN inst.records = 1..Len(inst.records) /\ Len(inst.records) \in Nat
    BY <1>2, SequenceOf
  <2>2. Len(inst.records) # 0
    <3> SUFFICES ASSUME Len(inst.records) = 0
                 PROVE  FALSE
      OBVIOUS
    <3>1. inst.records = [i \in 1..0 |-> inst.records[i]] /\ 1..0 = {}
      BY <1>2 DEF IsSequence
    <3> QED
      BY <1>2, <3>1
  <2>3. 1 \in DOMAIN inst.records
    BY <2>1, <2>2
  <2> QED
    BY <1>5, <2>3
<1>7. \A i \in DOMAIN inst.records : \A j \in DOMAIN inst.records[i].params :
        LET param == inst.records[i].params[j]
            written == w.records[i].params[j]
        IN  /\ \A x \in ToSet(written.refs) :
                 \E id \in ToSet(param.refs) :
                   ~Removed(f, new, pruned, Nothing, p, param, id) /\ x = NewFor(f, new, id)
            /\ \A id \in ToSet(param.refs) :
                 IsWritten(f, new, id) => NewFor(f, new, id) \in ToSet(written.refs)
  <2> TAKE i \in DOMAIN inst.records
  <2> TAKE j \in DOMAIN inst.records[i].params
  <2> DEFINE param == inst.records[i].params[j]
             written == w.records[i].params[j]
  <2>1. {"list", "refs"} \subseteq DOMAIN param /\ IsSequence(param.refs)
    BY <1>2
  <2>2. written = WrittenParam(param)
    BY <1>5
  <2> HIDE DEF param, written
  <2>3. /\ \A x \in ToSet(written.refs) :
             \E id \in ToSet(param.refs) :
               ~Removed(f, new, pruned, Nothing, p, param, id) /\ x = NewFor(f, new, id)
        /\ \A id \in ToSet(param.refs) :
             IsWritten(f, new, id) => NewFor(f, new, id) \in ToSet(written.refs)
    BY <2>1, <2>2, WrittenParamRefs
  <2> QED
    BY <2>3 DEF param, written
<1>8. \A some : InstanceIds(some) = UNION {UNION {ToSet(some.records[i].params[j].refs) :
                                                    j \in DOMAIN some.records[i].params} :
                                             i \in DOMAIN some.records}
  BY DEF InstanceIds, RecordIds
<1>9. ASSUME NEW x \in InstanceIds(w)
      PROVE  \E id \in InstanceIds(inst) : IsWritten(f, new, id) /\ x = NewFor(f, new, id)
  <2>1. PICK i \in DOMAIN w.records : \E j \in DOMAIN w.records[i].params : x \in ToSet(w.records[i].params[j].refs)
    BY <1>8
  <2>2. PICK j \in DOMAIN w.records[i].params : x \in ToSet(w.records[i].params[j].refs)
    BY <2>1
  <2>3. i \in DOMAIN inst.records /\ j \in DOMAIN inst.records[i].params
    BY <1>4, <1>5
  <2>4. PICK id \in ToSet(inst.records[i].params[j].refs) :
          /\ ~Removed(f, new, pruned, Nothing, p, inst.records[i].params[j], id)
          /\ x = NewFor(f, new, id)
    BY <1>7, <2>2, <2>3
  <2>5. id \in InstanceIds(inst)
    BY <1>8, <2>3
  <2> QED
    BY <1>3, <2>3, <2>4, <2>5
<1>10. ASSUME NEW id \in InstanceIds(inst), IsWritten(f, new, id)
       PROVE  NewFor(f, new, id) \in InstanceIds(w)
  <2>1. PICK i \in DOMAIN inst.records : \E j \in DOMAIN inst.records[i].params : id \in ToSet(inst.records[i].params[j].refs)
    BY <1>8
  <2>2. PICK j \in DOMAIN inst.records[i].params : id \in ToSet(inst.records[i].params[j].refs)
    BY <2>1
  <2>3. NewFor(f, new, id) \in ToSet(w.records[i].params[j].refs)
    BY <1>7, <1>10, <2>2
  <2>4. i \in DOMAIN w.records /\ j \in DOMAIN w.records[i].params
    BY <1>4, <1>5
  <2> QED
    BY <1>8, <2>3, <2>4
<1> QED
  BY <1>4, <1>6, <1>9, <1>10 DEF inst

(* A file that holds the written instances of S in order is the graph of S,   *)
(* with no name twice; and with the external names it closes.              *)
HoldsCopy(out, f, S, new, pruned) ==
  /\ DOMAIN out.instances = 1..Cardinality(S)
  /\ \A k \in 1..Cardinality(S) : \E p \in S : Rank(p, S) = k
  /\ \A p \in S : /\ Rank(p, S) \in 1..Cardinality(S)
                  /\ out.instances[Rank(p, S)] = WrittenInstance(f, new, pruned, Nothing, p)

AllClosed(f, S, new, pruned) == \A p \in S : ~Dangles(f, new, pruned, Nothing, p)

LEMMA CopyIsFaithful ==
  ASSUME NEW f, IsFile(f), UniqueIds(f), NEW S, Selects(S, f),
         NEW numbering \in [kind : {"Preserve", "Dense", "Offset"}, by : Nat],
         NEW new, new = AssignedNames(f, S, numbering),
         NEW pruned, AllClosed(f, S, new, pruned),
         NEW out, HoldsCopy(out, f, S, new, pruned)
  PROVE  /\ \A p \in S :
              /\ out.instances[Rank(p, S)].records[1].name = f.instances[p].records[1].name
              /\ References(out, Rank(p, S)) = {Rank(q, S) : q \in References(f, p) \cap S}
         /\ UniqueIds(out)
         /\ (\A id \in DOMAIN new.external :
               NodesNamed(f, {id}) = {} => IsExternal(out, new.external[id]))
              => Unresolved(out) = {}
<1>1. /\ DOMAIN new.data = S
      /\ \A p, q \in S : new.data[p] = new.data[q] => p = q
      /\ \A p \in S, id \in DOMAIN new.external :
           NodesNamed(f, {id}) = {} => new.external[id] # new.data[p]
  BY NewNames
<1> DEFINE n == Cardinality(S)
<1>2. Node(out) = 1..n /\ \A p \in S : Rank(p, S) \in 1..n
  BY DEF HoldsCopy, Node
<1> HIDE DEF n
<1>3. ASSUME NEW q \in S
      PROVE  IsWritten(f, new, f.instances[q].id) /\ NewFor(f, new, f.instances[q].id) = new.data[q]
  <2>1. NamesOf(f, new, f.instances[q].id) = {new.data[q]}
    BY <1>1, NamedData DEF Selects
  <2> QED
    BY <2>1 DEF IsWritten, NewFor, Nothing
<1>4. ASSUME NEW id, IsWritten(f, new, id), \A q \in S : id # f.instances[q].id
      PROVE  /\ NodesNamed(f, {id}) = {} /\ id \in DOMAIN new.external
             /\ NewFor(f, new, id) = new.external[id]
  <2>2. NodesNamed(f, {id}) = {}
    BY <1>1, <1>4 DEF IsWritten, NamesOf, NodesNamed
  <2>1. /\ NodesNamed(f, {id}) = {} /\ id \in DOMAIN new.external
        /\ NamesOf(f, new, id) = {new.external[id]}
    BY <1>4, <2>2, NamedExternal
  <2> QED
    BY <2>1 DEF NewFor, Nothing
<1>5. ASSUME NEW p \in S
      PROVE  LET w == out.instances[Rank(p, S)]
             IN  /\ w.id = new.data[p]
                 /\ w.records[1].name = f.instances[p].records[1].name
                 /\ \A x \in InstanceIds(w) : \E id \in InstanceIds(f.instances[p]) :
                      IsWritten(f, new, id) /\ x = NewFor(f, new, id)
                 /\ \A id \in InstanceIds(f.instances[p]) :
                      IsWritten(f, new, id) => NewFor(f, new, id) \in InstanceIds(w)
  <2> DEFINE w == out.instances[Rank(p, S)]
  <2>1. w = WrittenInstance(f, new, pruned, Nothing, p) /\ p \in Node(f)
    BY DEF HoldsCopy, Selects
  <2>2. ~Dangles(f, new, pruned, Nothing, p)
    BY DEF AllClosed
  <2> HIDE DEF w
  <2> QED
    BY <2>1, <2>2, WrittenIds DEF w
<1>6. ASSUME NEW p \in S, NEW q \in S
      PROVE  new.data[q] \in InstanceIds(out.instances[Rank(p, S)])
               <=> f.instances[q].id \in InstanceIds(f.instances[p])
  <2>1. ASSUME f.instances[q].id \in InstanceIds(f.instances[p])
        PROVE  new.data[q] \in InstanceIds(out.instances[Rank(p, S)])
    BY <1>3, <1>5, <2>1
  <2>2. ASSUME new.data[q] \in InstanceIds(out.instances[Rank(p, S)])
        PROVE  f.instances[q].id \in InstanceIds(f.instances[p])
    <3>1. PICK id \in InstanceIds(f.instances[p]) :
            IsWritten(f, new, id) /\ new.data[q] = NewFor(f, new, id)
      BY <1>5, <2>2
    <3>2. PICK r \in S : id = f.instances[r].id
      <4>1. ASSUME NodesNamed(f, {id}) = {}, id \in DOMAIN new.external
            PROVE  new.external[id] # new.data[q]
        BY <1>1, <4>1
      <4> QED
        BY <1>4, <3>1, <4>1
    <3>3. r = q
      BY <1>1, <1>3, <3>1, <3>2
    <3> QED
      BY <3>2, <3>3
  <2> QED
    BY <2>1, <2>2
<1>7. ASSUME NEW p \in S
      PROVE  References(out, Rank(p, S)) = {Rank(q, S) : q \in References(f, p) \cap S}
  <2> DEFINE ids == InstanceIds(out.instances[Rank(p, S)])
             from == InstanceIds(f.instances[p])
  <2>1. References(out, Rank(p, S)) = {k \in 1..n : out.instances[k].id \in ids}
    BY <1>2 DEF References, NodesNamed
  <2>2. References(f, p) = {q \in Node(f) : f.instances[q].id \in from}
    BY DEF References, NodesNamed
  <2>3. \A q \in S : new.data[q] \in ids <=> f.instances[q].id \in from
    BY <1>6
  <2>4. \A q \in S : out.instances[Rank(q, S)].id = new.data[q] /\ Rank(q, S) \in 1..n
    BY <1>2, <1>5
  <2> HIDE DEF ids, from
  <2>5. ASSUME NEW k \in 1..n, out.instances[k].id \in ids
        PROVE  \E q \in References(f, p) \cap S : k = Rank(q, S)
    <3>1. PICK q \in S : Rank(q, S) = k
      BY DEF HoldsCopy, n
    <3>2. f.instances[q].id \in from
      BY <2>3, <2>4, <2>5, <3>1
    <3> QED
      BY <2>2, <3>1, <3>2 DEF Selects
  <2>6. ASSUME NEW q \in References(f, p) \cap S
        PROVE  Rank(q, S) \in 1..n /\ out.instances[Rank(q, S)].id \in ids
    BY <2>2, <2>3, <2>4
  <2> QED
    BY <2>1, <2>5, <2>6
<1>8. UniqueIds(out)
  <2> SUFFICES ASSUME NEW j \in 1..n, NEW k \in 1..n, out.instances[j].id = out.instances[k].id
               PROVE  j = k
    BY <1>2 DEF UniqueIds
  <2>1. PICK p \in S : Rank(p, S) = j
    BY DEF HoldsCopy, n
  <2>2. PICK q \in S : Rank(q, S) = k
    BY DEF HoldsCopy, n
  <2>3. p = q
    BY <1>1, <1>5, <2>1, <2>2
  <2> QED
    BY <2>1, <2>2, <2>3
<1>9. ASSUME \A id \in DOMAIN new.external :
               NodesNamed(f, {id}) = {} => IsExternal(out, new.external[id]),
             NEW k \in 1..n, NEW x \in InstanceIds(out.instances[k])
      PROVE  NodesNamed(out, {x}) # {} \/ IsExternal(out, x)
  <2>1. PICK p \in S : Rank(p, S) = k
    BY DEF HoldsCopy, n
  <2>2. PICK id \in InstanceIds(f.instances[p]) : IsWritten(f, new, id) /\ x = NewFor(f, new, id)
    BY <1>5, <1>9, <2>1
  <2>3. ASSUME NEW q \in S, id = f.instances[q].id
        PROVE  NodesNamed(out, {x}) # {}
    <3>1. x = new.data[q] /\ out.instances[Rank(q, S)].id = new.data[q] /\ Rank(q, S) \in 1..n
      BY <1>2, <1>3, <1>5, <2>2, <2>3
    <3> QED
      BY <1>2, <3>1 DEF NodesNamed
  <2>4. ASSUME id \in DOMAIN new.external, NewFor(f, new, id) = new.external[id],
               NodesNamed(f, {id}) = {}
        PROVE  IsExternal(out, x)
    BY <1>9, <2>2, <2>4
  <2> QED
    BY <1>4, <2>2, <2>3, <2>4
<1>10. ASSUME \A id \in DOMAIN new.external :
                NodesNamed(f, {id}) = {} => IsExternal(out, new.external[id])
       PROVE  Unresolved(out) = {}
  <2> DEFINE Open(k) == {i \in InstanceIds(out.instances[k]) :
                           NodesNamed(out, {i}) = {} /\ ~IsExternal(out, i)}
  <2>1. ASSUME NEW k \in 1..n
        PROVE  Open(k) = {}
    BY <1>9, <1>10
  <2>2. Unresolved(out) = UNION {{<<k, id>> : id \in Open(k)} : k \in 1..n}
    BY <1>2 DEF Unresolved
  <2> HIDE DEF Open
  <2> QED
    BY <2>1, <2>2
<1> QED
  BY <1>5, <1>7, <1>8, <1>10

-----------------------------------------------------------------------------
(* What a sink that has every piece is read as.                            *)
InstancesIn(piece) == CASE piece.kind = "instance" -> <<piece.instance>>
                        [] piece.kind = "appended" -> piece.instances
                        [] OTHER -> << >>

ExternalIn(piece) == IF piece.kind = "extra" THEN piece.external ELSE << >>

LEMMA SinkIsWhole ==
  ASSUME WriterInv, outcome = "Ok"
  PROVE  /\ call \in Calls /\ Settled /\ Checked
         /\ Len(Pieces) \in Nat /\ DOMAIN sink = 1..Len(Pieces)
         /\ \A i \in 1..Len(Pieces) : sink[i] = Text(Pieces[i])
<1>1. call \in Calls /\ Settled /\ Checked /\ Sent /\ Len(sink) = Len(Pieces)
  BY DEF WriterInv
<1>2. sink \in Seq(Chunk) /\ \A i \in 1..Len(sink) : sink[i] = Text(Pieces[i])
  BY <1>1 DEF Sent
<1> QED
  BY <1>1, <1>2, PiecesShape

LEMMA SelectedAre ==
  ASSUME call \in Calls, Settled
  PROVE  /\ IsFile(call.file) /\ UniqueIds(call.file) /\ Selects(call.positions, call.file)
         /\ call.numbering \in [kind : {"Preserve", "Dense", "Offset"}, by : Nat]
         /\ DOMAIN names.data = call.positions /\ Selected = call.positions
         /\ call.positions \subseteq Nat /\ IsFiniteSet(call.positions)
<1>1. /\ IsFile(call.file) /\ UniqueIds(call.file) /\ call.positions \subseteq Node(call.file)
      /\ call.numbering \in [kind : {"Preserve", "Dense", "Offset"}, by : Nat]
  BY CallsAssumption
<1>2. DOMAIN names.data = call.positions
  <2> DEFINE name(p) == NewName(call.numbering, call.file.instances[p].id, Rank(p, call.positions))
  <2>1. names.data = [p \in call.positions |-> name(p)]
    BY DataNames DEF Settled
  <2> HIDE DEF name
  <2> QED
    BY <2>1
<1>3. Selected = call.positions
  BY <1>1, <1>2 DEF Selected
<1> QED
  BY <1>1, <1>2, <1>3, WrittenShape DEF Selects

LEMMA InstancesRead ==
  ASSUME WriterInv, outcome = "Ok", call.replaced = Nothing, call.appended = << >>
  PROVE  HoldsCopy(ReadBack, call.file, call.positions, names, call.pruned)
<1> DEFINE S == call.positions
           n == Cardinality(S)
           m == Len(Pieces)
           W(p) == WrittenInstance(call.file, names, call.pruned, Nothing, p)
           texts == [i \in DOMAIN sink |-> InstancesIn(sink[i])]
           T == {W(p) : p \in S}
<1>1. /\ call \in Calls /\ Settled /\ m \in Nat /\ DOMAIN sink = 1..m
      /\ \A i \in 1..m : sink[i] = Text(Pieces[i])
  BY SinkIsWhole
<1>2. /\ Selected = S /\ n \in Nat /\ n = Len(Written)
      /\ \A k \in 1..n : InOrder(S)[k] \in S /\ Written[k] = [kind |-> "instance", position |-> InOrder(S)[k]]
  BY <1>1, SelectedAre, WrittenShape, FS_CardinalityType
<1>3. Before \in Nat /\ Before + n <= m
  <2>1. n = Len(Written)
    BY <1>2
  <2>2. (~call.whole => m = n) /\ (call.whole => m = n + 4)
    <3> HIDE DEF n
    <3> QED
      BY <1>1, <2>1, PiecesAre
  <2>3. Before = IF call.whole THEN 2 ELSE 0
    BY DEF Before
  <2> HIDE DEF n, m
  <2> QED
    BY ONLY <1>2, <2>2, <2>3
<1>4. ASSUME NEW i \in 1..m
      PROVE  \/ /\ Before < i /\ i <= Before + n
                /\ i - Before \in 1..n /\ texts[i] = <<W(InOrder(S)[i - Before])>>
             \/ /\ i <= Before \/ i > Before + n
                /\ texts[i] = << >>
  <2>1. texts[i] = InstancesIn(Text(Pieces[i]))
    BY <1>1
  <2>2. CASE /\ Before < i /\ i <= Before + n
             /\ i - Before \in 1..n /\ Pieces[i] = Written[i - Before]
    <3>1. Pieces[i] = [kind |-> "instance", position |-> InOrder(S)[i - Before]]
      BY <1>2, <2>2
    <3>2. Text(Pieces[i]) = [kind |-> "instance", instance |-> W(InOrder(S)[i - Before])]
      BY <3>1 DEF Text
    <3>3. InstancesIn(Text(Pieces[i])) = <<W(InOrder(S)[i - Before])>>
      <4> HIDE DEF W
      <4> QED
        BY <3>2 DEF InstancesIn
    <3> HIDE DEF W, texts
    <3> QED
      BY <2>1, <2>2, <3>3
  <2>3. CASE /\ i <= Before \/ i > Before + n
             /\ Pieces[i] \in {[kind |-> "header"], Extras, [kind |-> "end"],
                               [kind |-> "appended", instances |-> call.appended]}
    <3>1. Pieces[i].kind # "instance"
      BY <2>3 DEF Extras
    <3>2. InstancesIn(Pieces[i]) = << >>
      BY <2>3 DEF InstancesIn, Extras
    <3>3. Text(Pieces[i]) = Pieces[i]
      BY <3>1 DEF Text
    <3> HIDE DEF texts, W
    <3> QED
      BY <2>1, <2>3, <3>2, <3>3
  <2> HIDE DEF m, n, texts, W
  <2> QED
    BY <1>1, <1>2, <2>2, <2>3, PieceAt DEF m
<1>5. DOMAIN texts = 1..m
  BY <1>1
<1> HIDE DEF n, m, texts, W
<1>10. ASSUME NEW i \in 1..m
       PROVE  /\ texts[i] \in Seq(T)
              /\ Len(texts[i]) = IF Before < i /\ i <= Before + n THEN 1 ELSE 0
  <2>1. CASE /\ Before < i /\ i <= Before + n
             /\ i - Before \in 1..n /\ texts[i] = <<W(InOrder(S)[i - Before])>>
    <3> DEFINE w == W(InOrder(S)[i - Before])
    <3>1. w \in T
      BY <1>2, <2>1
    <3>2. texts[i] = <<w>>
      BY <2>1
    <3> HIDE DEF w, T
    <3>3. <<w>> \in Seq(T) /\ Len(<<w>>) = 1
      BY <3>1
    <3> QED
      BY <2>1, <3>2, <3>3
  <2>2. CASE (i <= Before \/ i > Before + n) /\ texts[i] = << >>
    <3>1. ~(Before < i /\ i <= Before + n)
      BY <1>2, <1>3, <2>2
    <3> HIDE DEF T
    <3>2. << >> \in Seq(T) /\ Len(<< >>) = 0
      OBVIOUS
    <3> QED
      BY <2>2, <3>1, <3>2
  <2> QED
    BY <1>4, <2>1, <2>2
<1>6. /\ DOMAIN FlattenSeq(texts) = 1..n
      /\ \A k \in 1..n : FlattenSeq(texts)[k] = texts[Before + k][1]
  <2> HIDE DEF T
  <2>3. texts = [i \in 1..m |-> texts[i]]
    BY <1>5 DEF texts
  <2>4. texts \in [1..m -> Seq(T)]
    BY <1>10, <2>3
  <2>5. texts \in Seq(Seq(T)) /\ Len(texts) = m
    BY <1>1, <2>4, SeqDef
  <2> QED
    BY <1>2, <1>3, <1>10, <2>5, FlattenMiddle, ZenonT(40)
<1>7. \A k \in 1..n : FlattenSeq(texts)[k] = W(InOrder(S)[k])
  <2> TAKE k \in 1..n
  <2>1. Before + k \in 1..m /\ Before < Before + k /\ Before + k <= Before + n /\ (Before + k) - Before = k
    BY <1>1, <1>2, <1>3
  <2>2. texts[Before + k] = <<W(InOrder(S)[k])>>
    <3> DEFINE i == Before + k
    <3>1. i \in 1..m /\ Before < i /\ i <= Before + n /\ i - Before = k
      BY <2>1
    <3> HIDE DEF i
    <3>2. ~(i <= Before \/ i > Before + n)
      BY <1>1, <1>2, <1>3, <3>1
    <3>3. texts[i] = <<W(InOrder(S)[i - Before])>>
      BY <1>4, <3>1, <3>2
    <3> QED
      BY <3>1, <3>3 DEF i
  <2> QED
    BY <1>6, <2>2
<1>8. ReadBack.instances = FlattenSeq(texts)
  BY DEF ReadBack, InstancesIn, texts
<1>9. /\ \A k \in 1..n : InOrder(S)[k] \in S /\ Rank(InOrder(S)[k], S) = k
      /\ \A p \in S : Rank(p, S) \in 1..n /\ InOrder(S)[Rank(p, S)] = p
  BY <1>1, SelectedAre, InOrderLists DEF n
<1> QED
  BY <1>6, <1>7, <1>8, <1>9 DEF HoldsCopy, n, W

(* The names that only a REFERENCE entry defines keep theirs.              *)
LEMMA EntriesWritten ==
  ASSUME NEW f, IsFile(f), NEW new, DOMAIN new.external \subseteq ToSet(f.external)
  PROVE  /\ IsSequence(WrittenExternal(f, new))
         /\ \A id \in DOMAIN new.external :
              NodesNamed(f, {id}) = {} => new.external[id] \in ToSet(WrittenExternal(f, new))
<1> DEFINE places == {i \in DOMAIN f.external : f.external[i] \in DOMAIN new.external}
           s == f.external
           kept == ElementsAt(s, places)
           entries == WrittenExternal(f, new)
           name(id) == CHOOSE x \in NamesOf(f, new, id) : TRUE
<1>1. places \in SUBSET Nat /\ IsFiniteSet(places)
  <2>1. places \subseteq DOMAIN f.external
    OBVIOUS
  <2> HIDE DEF places
  <2> QED
    BY <2>1, PlacesFinite DEF IsFile
<1>2. entries = [i \in DOMAIN kept |-> name(kept[i])]
  BY DEF WrittenExternal
<1>3. \A i \in places : i \in DOMAIN s /\ s[i] \in DOMAIN new.external
  OBVIOUS
<1>4. \A id \in DOMAIN new.external : \E i \in places : s[i] = id
  BY DEF ToSet
<1>5. \A id \in DOMAIN new.external :
        NodesNamed(f, {id}) = {} => name(id) = new.external[id]
  <2> TAKE id \in DOMAIN new.external
  <2> HAVE NodesNamed(f, {id}) = {}
  <2>1. NamesOf(f, new, id) = {new.external[e] : e \in {id} \cap DOMAIN new.external}
    BY DEF NamesOf
  <2>2. {id} \cap DOMAIN new.external = {id}
    OBVIOUS
  <2>3. NamesOf(f, new, id) = {new.external[id]}
    BY <2>1, <2>2
  <2> QED
    BY <2>3
<1> HIDE DEF places, s, kept, entries, name
<1>6. /\ IsSequence(kept)
      /\ \A i \in places : \E k \in DOMAIN kept : kept[k] = s[i]
  BY <1>1, ElementsAtLists DEF kept
<1>7. IsSequence(entries)
  <2>1. PICK c \in Nat : DOMAIN kept = 1..c
    BY <1>6, SequenceOf
  <2>2. DOMAIN entries = 1..c /\ entries = [i \in 1..c |-> entries[i]]
    BY <1>2, <2>1
  <2> QED
    BY <2>1, <2>2, BuiltSequence
<1>8. ASSUME NEW id \in DOMAIN new.external, NodesNamed(f, {id}) = {}
      PROVE  new.external[id] \in ToSet(entries)
  <2>1. PICK i \in places : s[i] = id
    BY <1>4
  <2>2. PICK k \in DOMAIN kept : kept[k] = id
    BY <1>6, <2>1
  <2>3. k \in DOMAIN entries /\ entries[k] = new.external[id]
    BY <1>2, <1>5, <1>8, <2>2
  <2> QED
    BY <2>3 DEF ToSet
<1> QED
  BY <1>7, <1>8 DEF entries

LEMMA ExternalWritten ==
  ASSUME WriterInv, outcome = "Ok"
  PROVE  /\ IsSequence(Extras.external)
         /\ \A id \in DOMAIN names.external :
              NodesNamed(call.file, {id}) = {} => names.external[id] \in ToSet(Extras.external)
<1> DEFINE f == call.file
           used == UsedExternal(f, call.positions)
<1>1. call \in Calls /\ Settled /\ IsFile(f) /\ UniqueIds(f) /\ Selects(call.positions, f)
      /\ call.numbering \in [kind : {"Preserve", "Dense", "Offset"}, by : Nat]
  BY SinkIsWhole, SelectedAre
<1>2. /\ DOMAIN names.external = used
      /\ call.numbering.kind = "Preserve" => \A id \in DOMAIN names.external : names.external[id] = id
  BY <1>1, NewNames DEF Settled
<1>3. DOMAIN names.external \subseteq ToSet(f.external)
  BY <1>2 DEF UsedExternal, IsExternal
<1>4. CASE Verbatim
  <2>1. Extras.external = f.external /\ call.numbering.kind = "Preserve"
    BY <1>4 DEF Extras, Verbatim
  <2>2. IsSequence(f.external)
    BY <1>1 DEF IsFile
  <2> HIDE DEF f, used
  <2> QED
    BY <1>2, <1>3, <2>1, <2>2 DEF f
<1>5. CASE ~Verbatim
  <2>1. Extras.external = WrittenExternal(f, names)
    BY <1>5 DEF Extras
  <2>2. /\ IsSequence(WrittenExternal(f, names))
        /\ \A id \in DOMAIN names.external :
             NodesNamed(f, {id}) = {} => names.external[id] \in ToSet(WrittenExternal(f, names))
    BY <1>1, <1>3, EntriesWritten
  <2> QED
    BY <2>1, <2>2
<1> QED
  BY <1>4, <1>5

LEMMA ExternalRead ==
  ASSUME WriterInv, outcome = "Ok", call.whole, NEW x \in ToSet(Extras.external)
  PROVE  IsExternal(ReadBack, x)
<1> DEFINE m == Len(Pieces)
           lists == [i \in DOMAIN sink |-> ExternalIn(sink[i])]
           T == ToSet(Extras.external)
<1>1. /\ call \in Calls /\ m \in Nat /\ DOMAIN sink = 1..m
      /\ \A i \in 1..m : sink[i] = Text(Pieces[i])
  BY SinkIsWhole
<1>2. Extras.external \in Seq(T)
  <2>1. IsSequence(Extras.external)
    BY ExternalWritten
  <2> DEFINE s == Extras.external
  <2>2. s \in Seq({s[i] : i \in 1..Len(s)}) /\ DOMAIN s = 1..Len(s)
    <3> HIDE DEF s
    <3> QED
      BY <2>1, SequenceOf DEF s
  <2> HIDE DEF s
  <2>3. ToSet(s) = {s[i] : i \in 1..Len(s)}
    BY <2>2 DEF ToSet
  <2> QED
    BY <2>2, <2>3 DEF s
<1>3. ASSUME NEW i \in 1..m
      PROVE  ExternalIn(Text(Pieces[i])) \in {Extras.external, << >>}
  <2>1. Pieces[i] \in PieceSet
    BY <1>1, PiecesShape, ElementOfSeq
  <2>2. CASE Pieces[i] = Extras
    BY <2>2 DEF Text, Extras, ExternalIn
  <2>3. CASE Pieces[i].kind # "extra"
    BY <2>3 DEF Text, ExternalIn
  <2> QED
    BY <2>1, <2>2, <2>3 DEF PieceSet
<1>4. 2 \in 1..m /\ ExternalIn(Text(Pieces[2])) = Extras.external
  <2>1. Pieces[2] = Extras /\ m = Len(Written) + 4 /\ Len(Written) \in Nat
    BY <1>1, PiecesAre
  <2>2. Text(Extras) = Extras /\ ExternalIn(Extras) = Extras.external
    BY DEF Text, Extras, ExternalIn
  <2> QED
    BY <2>1, <2>2
<1> HIDE DEF m
<1>5. DOMAIN lists = 1..m /\ \A i \in 1..m : lists[i] = ExternalIn(Text(Pieces[i]))
  BY <1>1
<1>6. lists \in Seq(Seq(T)) /\ Len(lists) = m
  <2>1. \A i \in 1..m : lists[i] \in Seq(T)
    <3> HIDE DEF lists, T
    <3>1. << >> \in Seq(T)
      OBVIOUS
    <3> QED
      BY <1>2, <1>3, <1>5, <3>1
  <2>2. lists = [i \in 1..m |-> lists[i]]
    BY <1>5
  <2> HIDE DEF lists, T
  <2>3. lists \in [1..m -> Seq(T)]
    BY <2>1, <2>2
  <2> QED
    BY <1>1, <2>3, SeqDef
<1>7. ReadBack.external = FlattenSeq(lists)
  BY DEF ReadBack, ExternalIn
<1> HIDE DEF lists, T
<1>8. x \in ToSet(lists[2]) /\ 2 \in 1..Len(lists)
  BY <1>4, <1>5, <1>6 DEF T
<1> QED
  BY <1>6, <1>7, <1>8, FlattenMembers DEF IsExternal

-----------------------------------------------------------------------------
LEMMA WriterInvImpliesFaithfulCopy == WriterInv => FaithfulCopy
<1> SUFFICES ASSUME WriterInv, outcome = "Ok", call.replaced = Nothing, call.appended = << >>
             PROVE  LET out == ReadBack
                        S == call.positions
                    IN  \A p \in S :
                          /\ out.instances[Rank(p, S)].records[1].name = call.file.instances[p].records[1].name
                          /\ References(out, Rank(p, S)) = {Rank(q, S) : q \in References(call.file, p) \cap S}
  BY DEF FaithfulCopy
<1>1. call \in Calls /\ Settled /\ Checked
  BY SinkIsWhole
<1>2. AllClosed(call.file, call.positions, names, call.pruned)
  BY <1>1, SelectedAre DEF Checked, CheckClosed, AllClosed
<1> QED
  BY <1>1, <1>2, SelectedAre, InstancesRead, CopyIsFaithful DEF Settled

LEMMA WriterInvImpliesOutputAccepted == WriterInv => OutputAccepted
<1> SUFFICES ASSUME WriterInv, outcome = "Ok", call.whole, call.replaced = Nothing, call.appended = << >>
             PROVE  UniqueIds(ReadBack) /\ Unresolved(ReadBack) = {}
  BY DEF OutputAccepted, Accepted
<1>1. call \in Calls /\ Settled /\ Checked
  BY SinkIsWhole
<1>2. AllClosed(call.file, call.positions, names, call.pruned)
  BY <1>1, SelectedAre DEF Checked, CheckClosed, AllClosed
<1>3. \A id \in DOMAIN names.external :
        NodesNamed(call.file, {id}) = {} => IsExternal(ReadBack, names.external[id])
  BY ExternalWritten, ExternalRead
<1> QED
  BY <1>1, <1>2, <1>3, SelectedAre, InstancesRead, CopyIsFaithful, ZenonT(40) DEF Settled

(* What a successful write leaves is the selected part of the graph under     *)
(* new names: an instance refers to another exactly where its source did    *)
(* (assign_names, write_instance of src/src/p21/writer.rs).                *)
THEOREM WrittenIsTheSelection == Spec => []FaithfulCopy
<1>1. Init => WriterInv
  BY DEF Init, WriterInv, Unsent
<1> QED
  BY <1>1, WriterInvStep, WriterInvImpliesFaithfulCopy, PTL DEF Spec

(* And a whole output is read back: no name twice, no dangling reference.   *)
THEOREM WrittenIsAccepted == Spec => []OutputAccepted
<1>1. Init => WriterInv
  BY DEF Init, WriterInv, Unsent
<1> QED
  BY <1>1, WriterInvStep, WriterInvImpliesOutputAccepted, PTL DEF Spec
=============================================================================
