------------------------------ MODULE SplitProofs ------------------------------
(***************************************************************************)
(* What the run of MCSplit shows for three definitions, for any number of   *)
(* them and whatever their labels.                                         *)
(***************************************************************************)
EXTENDS Split, SequenceLemmas

Targets(d) == <<plans[d]>> \o BodyFiles(definitions[d], plans[d])

(* The inductive invariant: as long as nothing is refused, every file that   *)
(* is planned is a new one, and every file that was there is as it was.     *)
PlansFit == IsSequence(plans) /\ Len(plans) <= Len(definitions)

AllNew ==
  \A d \in 1..Len(plans) : \A i \in 1..Len(Targets(d)) : Path(Targets(d)[i]) \notin DOMAIN Before

SplitInv ==
  /\ call \in Calls /\ PlansFit
  /\ at \in Nat \ {0}
  /\ outcome \in {"planning", "refused"} => disk = Before /\ ~open
  /\ open => outcome = "writing" /\ at <= Len(Outputs)
  /\ ~call.force => \A name \in DOMAIN Before : name \in DOMAIN disk /\ disk[name] = Before[name]
  /\ ~call.force /\ outcome # "refused" => AllNew

LEMMA DefinitionsSequence ==
  ASSUME call \in Calls
  PROVE  /\ Len(definitions) \in Nat /\ DOMAIN definitions = 1..Len(definitions)
         /\ \A d \in 1..Len(definitions) :
              /\ BodyCount(definitions[d]) \in Nat
              /\ IsSequence(definitions[d].label)
              /\ definitions[d].parts \subseteq 1..Len(definitions)
              /\ definitions[d].instance \in Numbers
              /\ 1..BodyCount(definitions[d]) \subseteq Numbers
         /\ \A d, e \in 1..Len(definitions) :
              definitions[d].instance = definitions[e].instance => d = e
<1>1. IsSequence(definitions)
  BY CallsAssumption DEF definitions
<1>2. DOMAIN definitions = 1..Len(definitions) /\ Len(definitions) \in Nat
  BY <1>1, SequenceOf
<1>3. ASSUME NEW d \in DOMAIN definitions
      PROVE  /\ BodyCount(definitions[d]) \in Nat
             /\ definitions[d].instance \in Numbers
             /\ 1..BodyCount(definitions[d]) \subseteq Numbers
  <2>1. /\ 1..definitions[d].solids \subseteq UNION {1..definitions[e].solids : e \in DOMAIN definitions}
        /\ definitions[d].instance \in {definitions[e].instance : e \in DOMAIN definitions}
    OBVIOUS
  <2>2. /\ UNION {1..definitions[e].solids : e \in DOMAIN definitions} \subseteq Numbers
        /\ {definitions[e].instance : e \in DOMAIN definitions} \subseteq Numbers
    <3> DEFINE solids(c) == UNION {1..c.definitions[e].solids : e \in DOMAIN c.definitions}
               instances(c) == {c.definitions[e].instance : e \in DOMAIN c.definitions}
    <3>1. Numbers = (UNION {instances(c) : c \in Calls}) \cup (UNION {solids(c) : c \in Calls})
      BY DEF Numbers
    <3>2. solids(call) \in {solids(c) : c \in Calls} /\ instances(call) \in {instances(c) : c \in Calls}
      OBVIOUS
    <3>3. solids(call) \subseteq Numbers /\ instances(call) \subseteq Numbers
      <4> DEFINE mine == solids(call)
                 own == instances(call)
                 all == {solids(c) : c \in Calls}
                 every == {instances(c) : c \in Calls}
      <4>1. mine \in all /\ own \in every /\ Numbers = (UNION every) \cup (UNION all)
        BY <3>1, <3>2
      <4> HIDE DEF mine, own, all, every
      <4>2. mine \subseteq Numbers /\ own \subseteq Numbers
        BY <4>1
      <4> QED
        BY <4>2 DEF mine, own
    <3> QED
      BY <3>3 DEF definitions
  <2>3. definitions[d].solids \in Nat
    BY CallsAssumption DEF definitions
  <2> QED
    BY <2>1, <2>2, <2>3 DEF BodyCount
<1> QED
  BY <1>2, <1>3, CallsAssumption DEF definitions

(* A definition's outputs are the files that were checked for it.           *)
LEMMA OutputsOfTargets ==
  ASSUME call \in Calls, NEW d \in 1..Len(definitions)
  PROVE  /\ IsSequence(OutputsOf(d)) /\ IsSequence(Targets(d))
         /\ Len(OutputsOf(d)) = Len(Targets(d))
         /\ \A i \in 1..Len(Targets(d)) : OutputsOf(d)[i].file = Targets(d)[i]
         /\ 1 \in 1..Len(Targets(d)) /\ Targets(d)[1] = plans[d]
         /\ OutputsOf(d)[1].content = Content(d)
         /\ \A i \in 1..Len(Targets(d)) : OutputsOf(d)[i].content.kind = "master" => i = 1
<1> DEFINE bodies == BodyFiles(definitions[d], plans[d])
           written == [n \in DOMAIN bodies |->
                         [file |-> bodies[n], content |-> [kind |-> "body", of |-> d, number |-> n]]]
           own == <<[file |-> plans[d], content |-> Content(d)]>>
<1>1. PICK n \in Nat : n = BodyCount(definitions[d])
  BY DefinitionsSequence
<1>2. IsSequence(bodies) /\ Len(bodies) = n /\ DOMAIN bodies = 1..n
  BY <1>1, BuiltSequence DEF BodyFiles
<1>3. /\ IsSequence(written) /\ Len(written) = n
      /\ \A i \in 1..n : written[i].file = bodies[i] /\ written[i].content.kind = "body"
  <2> HIDE DEF bodies
  <2>1. /\ DOMAIN written = 1..n /\ written = [i \in 1..n |-> written[i]]
        /\ \A i \in 1..n : written[i].file = bodies[i] /\ written[i].content.kind = "body"
    BY <1>2
  <2> HIDE DEF written
  <2> QED
    BY <2>1, BuiltSequence
<1>4. /\ IsSequence(own) /\ Len(own) = 1 /\ own[1].file = plans[d] /\ own[1].content = Content(d)
      /\ IsSequence(<<plans[d]>>) /\ Len(<<plans[d]>>) = 1
  BY DEF IsSequence
<1>5. OutputsOf(d) = own \o written /\ Targets(d) = <<plans[d]>> \o bodies
  BY DEF OutputsOf, Targets
<1> DEFINE first == <<plans[d]>>
<1>6. first[1] = plans[d]
  OBVIOUS
<1> HIDE DEF bodies, written, own, first
<1>7. /\ IsSequence(own \o written) /\ Len(own \o written) = 1 + n
      /\ (own \o written)[1] = own[1] /\ \A i \in 1..n : (own \o written)[1 + i] = written[i]
  <2> DEFINE all == own \o written
  <2>0. IsSequence(own) /\ IsSequence(written)
    BY <1>3, <1>4
  <2>1. /\ IsSequence(all) /\ Len(all) = Len(own) + Len(written)
        /\ \A i \in 1..Len(own) : all[i] = own[i]
        /\ \A i \in 1..Len(written) : all[Len(own) + i] = written[i]
    BY <2>0, ConcatSequence
  <2> HIDE DEF all
  <2>2. 1 \in 1..1
    OBVIOUS
  <2>3. /\ IsSequence(all) /\ Len(all) = 1 + n
        /\ all[1] = own[1] /\ \A i \in 1..n : all[1 + i] = written[i]
    BY <1>3, <1>4, <2>1, <2>2
  <2> QED
    BY <2>3 DEF all
<1>8. /\ IsSequence(first \o bodies) /\ Len(first \o bodies) = 1 + n
      /\ (first \o bodies)[1] = first[1] /\ \A i \in 1..n : (first \o bodies)[1 + i] = bodies[i]
  <2> DEFINE all == first \o bodies
  <2>0. IsSequence(first) /\ IsSequence(bodies)
    BY <1>2, <1>4 DEF first
  <2>1. Len(first) = 1
    BY <1>4 DEF first
  <2>2. /\ IsSequence(all) /\ Len(all) = Len(first) + Len(bodies)
        /\ \A i \in 1..Len(first) : all[i] = first[i]
        /\ \A i \in 1..Len(bodies) : all[Len(first) + i] = bodies[i]
    BY <2>0, ConcatSequence
  <2> HIDE DEF all
  <2>3. 1 \in 1..1
    OBVIOUS
  <2>4. /\ IsSequence(all) /\ Len(all) = 1 + n
        /\ all[1] = first[1] /\ \A i \in 1..n : all[1 + i] = bodies[i]
    BY <1>2, <2>1, <2>2, <2>3
  <2> QED
    BY <2>4 DEF all
<1>9. \A i \in 1..1 + n : i = 1 \/ \E k \in 1..n : i = 1 + k
  <2>1. ASSUME NEW i \in 1..1 + n, i # 1 PROVE i - 1 \in 1..n /\ i = 1 + (i - 1)
    BY <2>1
  <2> QED
    BY <2>1
<1>10. \A i \in 1..1 + n : (own \o written)[i].file = (first \o bodies)[i]
  <2> TAKE i \in 1..1 + n
  <2>1. CASE i = 1
    <3>1. (own \o written)[1] = own[1] /\ (first \o bodies)[1] = plans[d]
      BY ONLY <1>6, <1>7, <1>8
    <3>2. own[1].file = plans[d]
      BY <1>4
    <3> QED
      BY ONLY <2>1, <3>1, <3>2
  <2>2. CASE \E k \in 1..n : i = 1 + k
    BY <1>3, <1>7, <1>8, <2>2
  <2> QED
    BY <1>9, <2>1, <2>2
<1>11. \A i \in 1..1 + n : (own \o written)[i].content.kind = "master" => i = 1
  BY <1>3, <1>7, <1>9
<1>12. 1 \in 1..1 + n /\ (first \o bodies)[1] = plans[d] /\ (own \o written)[1].content = Content(d)
  BY <1>4, <1>6, <1>7, <1>8
<1> QED
  BY <1>5, <1>7, <1>8, <1>10, <1>11, <1>12 DEF first

(* The outputs are those of the definitions, each in a place of its own.    *)
Placed(place) ==
  /\ outcome \notin {"planning", "refused"} =>
       \A d \in 1..Len(plans) : \A i \in 1..Len(Targets(d)) :
         place[d - 1] + i \in 1..Len(Outputs) /\ Outputs[place[d - 1] + i] = OutputsOf(d)[i]
  /\ \A k \in 1..Len(Outputs) : \E d \in 1..Len(plans) : \E i \in 1..Len(Targets(d)) :
       k = place[d - 1] + i /\ Outputs[k] = OutputsOf(d)[i]

LEMMA OutputPlaces ==
  ASSUME call \in Calls, PlansFit
  PROVE  /\ Len(Outputs) \in Nat /\ DOMAIN Outputs = 1..Len(Outputs)
         /\ \E place : Placed(place)
<1>1. CASE outcome \in {"planning", "refused"}
  <2>1. Outputs = << >>
    BY <1>1 DEF Outputs
  <2>2. Len(Outputs) = 0 /\ DOMAIN Outputs = 1..0
    BY <2>1
  <2> QED
    BY <1>1, <2>2 DEF Placed
<1>2. CASE outcome \notin {"planning", "refused"}
  <2>1. PICK n \in Nat : n = Len(plans)
    BY DEF PlansFit, IsSequence
  <2>2. DOMAIN plans = 1..n /\ \A d \in 1..n : d \in 1..Len(definitions)
    BY <2>1, SequenceOf, DefinitionsSequence DEF PlansFit
  <2> DEFINE each == [d \in 1..n |-> OutputsOf(d)]
             S == UNION {{OutputsOf(d)[i] : i \in 1..Len(OutputsOf(d))} : d \in 1..n}
  <2>3. Outputs = FlattenSeq(each)
    BY <1>2, <2>2 DEF Outputs
  <2>4. \A d \in 1..n : OutputsOf(d) \in Seq(S)
    <3> TAKE d \in 1..n
    <3> DEFINE R == {OutputsOf(d)[i] : i \in 1..Len(OutputsOf(d))}
    <3>1. OutputsOf(d) \in Seq(R)
      BY <2>2, OutputsOfTargets, SequenceOf
    <3>2. R \subseteq S
      OBVIOUS
    <3> HIDE DEF R, S
    <3> QED
      BY <3>1, <3>2, SeqMonotonic
  <2>5. each \in Seq(Seq(S)) /\ Len(each) = n /\ \A d \in 1..n : each[d] = OutputsOf(d)
    <3> HIDE DEF S
    <3> QED
      BY <2>4
  <2> HIDE DEF each, S
  <2>6. FlattenSeq(each) \in Seq(S) /\ \E place : EndToEnd(FlattenSeq(each), each, n, place)
    BY <2>5, FlattenPlaces
  <2>7. PICK place : EndToEnd(Outputs, each, n, place)
    BY <2>3, <2>6
  <2>8. Len(Outputs) \in Nat /\ DOMAIN Outputs = 1..Len(Outputs)
    BY <2>3, <2>6, LenProperties
  <2>9. \A d \in 1..n : Len(OutputsOf(d)) = Len(Targets(d))
    BY <2>2, OutputsOfTargets
  <2>10. \A d \in 1..n : \A i \in 1..Len(Targets(d)) :
           place[d - 1] + i \in 1..Len(Outputs) /\ Outputs[place[d - 1] + i] = OutputsOf(d)[i]
    BY <2>5, <2>7, <2>8, <2>9 DEF EndToEnd
  <2>11. ASSUME NEW k \in 1..Len(Outputs)
         PROVE  \E d \in 1..n : \E i \in 1..Len(Targets(d)) :
                  k = place[d - 1] + i /\ Outputs[k] = OutputsOf(d)[i]
    <3>1. PICK d \in 1..n : \E i \in 1..Len(each[d]) : k = place[d - 1] + i
      BY <2>7, <2>8 DEF EndToEnd
    <3>2. PICK i \in 1..Len(each[d]) : k = place[d - 1] + i
      BY <3>1
    <3> QED
      BY <2>5, <2>9, <2>10, <3>2
  <2>12. Placed(place)
    BY <2>1, <2>10, <2>11 DEF Placed
  <2> QED
    BY <2>8, <2>12
<1> QED
  BY <1>1, <1>2

LEMMA OutputsCounted == call \in Calls /\ PlansFit => Len(Outputs) \in Nat
BY OutputPlaces

(* Every output was planned, for one of the definitions.                    *)
LEMMA OutputPlanned ==
  ASSUME call \in Calls, PlansFit
  PROVE  /\ Len(Outputs) \in Nat
         /\ \A k \in 1..Len(Outputs) : \E d \in 1..Len(plans) : \E i \in 1..Len(Targets(d)) :
              Outputs[k].file = Targets(d)[i]
<1>1. ASSUME NEW d \in 1..Len(plans)
      PROVE  \A i \in 1..Len(Targets(d)) : OutputsOf(d)[i].file = Targets(d)[i]
  <2>1. d \in 1..Len(definitions)
    BY DefinitionsSequence DEF PlansFit, IsSequence
  <2> QED
    BY <2>1, OutputsOfTargets
<1>2. PICK place : Placed(place)
  BY OutputPlaces
<1>3. ASSUME NEW k \in 1..Len(Outputs)
      PROVE  \E d \in 1..Len(plans) : \E i \in 1..Len(Targets(d)) : Outputs[k].file = Targets(d)[i]
  <2>1. PICK d \in 1..Len(plans) : \E i \in 1..Len(Targets(d)) : Outputs[k] = OutputsOf(d)[i]
    BY <1>2 DEF Placed
  <2>2. PICK i \in 1..Len(Targets(d)) : Outputs[k] = OutputsOf(d)[i]
    BY <2>1
  <2> QED
    BY <1>1, <2>2
<1> QED
  BY <1>3, OutputPlaces

(* A file that is put somewhere else leaves the others as they are.         *)
LEMMA HoldingElsewhere ==
  ASSUME NEW content, Holding(content), NEW name \in DOMAIN disk, name # Path(Outputs[at].file)
  PROVE  name \in DOMAIN disk' /\ disk'[name] = disk[name]
BY DEF Holding

LEMMA SplitInvStep ==
  ASSUME SplitInv, [Next]_vars
  PROVE  SplitInv'
<1>1. call' = call
  BY DEF Next, vars, Plan, Planned, Create, Write, Fail, Report
<1>2. /\ definitions' = definitions /\ Before' = Before /\ call.force' = call.force
  BY <1>1 DEF definitions, Before, Path, Lower
<1>3. ASSUME plans' = plans
      PROVE  /\ PlansFit' /\ (AllNew' <=> AllNew)
             /\ (outcome \in {"planning", "refused"} <=> outcome' \in {"planning", "refused"})
                  => Outputs' = Outputs
  <2>1. PlansFit'
    BY <1>2, <1>3 DEF SplitInv, PlansFit
  <2>2. ASSUME NEW d
        PROVE  Targets(d)' = Targets(d) /\ OutputsOf(d)' = OutputsOf(d)
    BY <1>1, <1>2, <1>3 DEF Targets, OutputsOf, Content, BodyFiles, BodyCount, BodyFileName
  <2>3. \A name : Path(name)' = Path(name)
    BY <1>1 DEF Path, Lower
  <2>4. AllNew' <=> AllNew
    BY <1>2, <1>3, <2>2, <2>3 DEF AllNew
  <2>5. (outcome \in {"planning", "refused"} <=> outcome' \in {"planning", "refused"})
          => Outputs' = Outputs
    BY <1>3, <2>2 DEF Outputs
  <2> QED
    BY <2>1, <2>4, <2>5
<1>4. ASSUME plans' = plans, outcome = "writing", outcome' = outcome, at \in 1..Len(Outputs),
             at' \in {at, at + 1}, open' => at' = at, NEW content, Holding(content)
      PROVE  SplitInv'
  <2>1. Outputs' = Outputs
    BY <1>3, <1>4
  <2>2. ASSUME ~call.force, NEW name \in DOMAIN Before
        PROVE  name \in DOMAIN disk' /\ disk'[name] = Before[name]
    <3>1. AllNew /\ name \in DOMAIN disk /\ disk[name] = Before[name]
      BY <1>4, <2>2 DEF SplitInv
    <3>2. Path(Outputs[at].file) \notin DOMAIN Before
      <4>1. call \in Calls /\ PlansFit
        BY DEF SplitInv
      <4>2. PICK d \in 1..Len(plans) : \E i \in 1..Len(Targets(d)) : Outputs[at].file = Targets(d)[i]
        BY <1>4, <4>1, OutputPlanned
      <4> QED
        BY <3>1, <4>2 DEF AllNew
    <3> QED
      BY <1>4, <2>2, <3>1, <3>2, HoldingElsewhere
  <2>3. at' \in Nat \ {0} /\ (open' => at' <= Len(Outputs))
    BY <1>4 DEF SplitInv
  <2> QED
    BY <1>1, <1>2, <1>3, <1>4, <2>1, <2>2, <2>3 DEF SplitInv
<1>5. CASE Plan
  <2> DEFINE definition == definitions[Len(plans) + 1]
             file == OutputName(definition, used)
             targets == <<file>> \o BodyFiles(definition, file)
  <2>1. /\ outcome = "planning" /\ Len(plans) < Len(definitions)
        /\ plans' = Append(plans, file)
        /\ outcome' = IF Refused(targets) THEN "refused" ELSE outcome
        /\ UNCHANGED <<disk, at, open>>
    BY <1>5 DEF Plan
  <2>2. PICK n \in Nat : n = Len(plans)
    BY DEF SplitInv, PlansFit, IsSequence
  <2>3. /\ IsSequence(plans') /\ Len(plans') = n + 1
        /\ \A d \in 1..n : plans'[d] = plans[d]
        /\ plans'[n + 1] = file
    <3> HIDE DEF file
    <3> QED
      BY <2>1, <2>2, AppendSequence DEF SplitInv, PlansFit
  <2>4. PlansFit'
    BY <1>2, <2>1, <2>2, <2>3, DefinitionsSequence DEF SplitInv, PlansFit
  <2>5. ASSUME ~call.force, outcome' # "refused"
        PROVE  AllNew'
    <3>1. DOMAIN disk = DOMAIN Before /\ AllNew
      BY <2>1, <2>5 DEF SplitInv
    <3>2. \A i \in DOMAIN targets : Path(targets[i]) \notin DOMAIN Before
      BY <2>1, <2>5, <3>1 DEF Refused
    <3>3. \A d \in 1..n : Targets(d)' = Targets(d)
      BY <1>1, <1>2, <2>3 DEF Targets, BodyFiles, BodyCount, BodyFileName
    <3>4. Targets(n + 1)' = targets
      BY <1>1, <1>2, <2>2, <2>3 DEF Targets, BodyFiles, BodyCount, BodyFileName
    <3>5. DOMAIN targets = 1..Len(targets)
      <4>1. BodyCount(definition) \in Nat
        BY <2>1, <2>2, DefinitionsSequence DEF SplitInv
      <4> DEFINE bodies == BodyFiles(definition, file)
                 first == <<file>>
      <4>2. IsSequence(bodies) /\ IsSequence(first)
        <5>1. IsSequence(bodies)
          <6> HIDE DEF definition, file
          <6> QED
            BY <4>1, BuiltSequence DEF BodyFiles
        <5>2. IsSequence(first)
          BY DEF IsSequence
        <5> QED
          BY <5>1, <5>2
      <4> HIDE DEF bodies, first
      <4>3. IsSequence(first \o bodies)
        BY <4>2, ConcatSequence
      <4> QED
        BY <4>3, SequenceOf DEF first, bodies
    <3>6. ASSUME NEW d \in 1..n + 1
          PROVE  \A i \in 1..Len(Targets(d)') : Path(Targets(d)'[i]) \notin DOMAIN Before
      <4> HIDE DEF targets
      <4>1. CASE d = n + 1
        BY <3>2, <3>4, <3>5, <4>1
      <4>2. CASE d # n + 1
        <5>1. d \in 1..n /\ d \in 1..Len(plans)
          BY <2>2, <4>2
        <5>2. Targets(d)' = Targets(d)
          BY <3>3, <5>1
        <5>3. \A i \in 1..Len(Targets(d)) : Path(Targets(d)[i]) \notin DOMAIN Before
          BY <3>1, <5>1 DEF AllNew
        <5> QED
          BY <5>2, <5>3
      <4> QED
        BY <4>1, <4>2
    <3>7. \A name : Path(name)' = Path(name)
      BY <1>1 DEF Path, Lower
    <3> QED
      BY <1>2, <2>3, <3>6, <3>7 DEF AllNew
  <2> QED
    BY <1>1, <1>2, <2>1, <2>4, <2>5 DEF SplitInv
<1>6. CASE Planned
  <2>1. plans' = plans /\ outcome = "planning" /\ outcome' = "writing" /\ UNCHANGED <<disk, at, open>>
    BY <1>6 DEF Planned
  <2> QED
    BY <1>1, <1>2, <1>3, <2>1 DEF SplitInv
<1>7. CASE Create
  <2>1. /\ outcome = "writing" /\ at <= Len(Outputs) /\ Holding([kind |-> "cut"])
        /\ UNCHANGED <<plans, at, outcome>>
    BY <1>7 DEF Create
  <2>2. at \in 1..Len(Outputs)
    BY <2>1, OutputPlanned DEF SplitInv
  <2> QED
    BY <1>4, <2>1, <2>2
<1>8. CASE Write
  <2>1. /\ outcome = "writing" /\ at <= Len(Outputs) /\ Holding(Outputs[at].content)
        /\ UNCHANGED <<plans, outcome>> /\ at' = at + 1 /\ ~open'
    BY <1>8 DEF Write, SplitInv
  <2>2. at \in 1..Len(Outputs)
    BY <2>1, OutputPlanned DEF SplitInv
  <2> QED
    BY <1>4, <2>1, <2>2
<1>9. CASE Fail \/ Report
  <2>1. /\ outcome = "writing" /\ outcome' \in {"failed", "Ok"} /\ UNCHANGED <<plans, disk, at>>
        /\ open' => open /\ at > Len(Outputs)
    BY <1>9 DEF Fail, Report
  <2>2. ~open'
    BY <2>1, OutputPlanned DEF SplitInv
  <2> QED
    BY <1>1, <1>2, <1>3, <2>1, <2>2 DEF SplitInv
<1>10. CASE UNCHANGED vars
  <2>1. UNCHANGED <<call, plans, disk, at, open, outcome>>
    BY <1>10 DEF vars
  <2> QED
    BY <1>2, <1>3, <2>1 DEF SplitInv
<1> QED
  BY <1>5, <1>6, <1>7, <1>8, <1>9, <1>10 DEF Next

(* Every file is checked before any is written, so without --force a split   *)
(* changes no file that was there, whether it is refused, fails half-way or   *)
(* succeeds, whatever names the definitions and their bodies take.           *)
THEOREM SplitOverwritesNothing == Spec => []NothingOverwritten
<1>1. Init => SplitInv
  <2> SUFFICES ASSUME Init
               PROVE  SplitInv
    OBVIOUS
  <2>1. PlansFit /\ Len(plans) = 0
    BY DefinitionsSequence DEF Init, PlansFit, IsSequence
  <2> QED
    BY <2>1 DEF Init, SplitInv, AllNew
<1>2. SplitInv /\ [Next]_vars => SplitInv'
  BY SplitInvStep
<1>3. SplitInv => NothingOverwritten
  BY DEF SplitInv, NothingOverwritten
<1> QED
  BY <1>1, <1>2, <1>3, PTL DEF Spec

-----------------------------------------------------------------------------
(* How names are made: a definition's file is its stem with an extension,   *)
(* or with its instance name between; a body's has a number more.           *)
PlainName(definition) == Stem(definition) \o <<".stp">>

NumberedName(definition) == Numbered(definition) \o <<".stp">>

Folded(segment) == IF segment = "A" THEN "a" ELSE segment

LEMMA LowerSequence ==
  ASSUME NEW name, IsSequence(name)
  PROVE  /\ IsSequence(Lower(name)) /\ Len(Lower(name)) = Len(name)
         /\ \A i \in 1..Len(name) : Lower(name)[i] = Folded(name[i])
<1>1. DOMAIN name = 1..Len(name)
  BY SequenceOf
<1>2. Lower(name) = [i \in DOMAIN name |-> Lower(name)[i]]
  BY DEF Lower
<1> QED
  BY <1>1, <1>2, SameDomainSequence DEF Lower, Folded

LEMMA PathLower ==
  ASSUME NEW s, NEW t, Path(s) = Path(t)
  PROVE  Lower(s) = Lower(t)
BY DEF Path

LEMMA LowerEqual ==
  ASSUME NEW s, NEW t, IsSequence(s), IsSequence(t), Lower(s) = Lower(t)
  PROVE  Len(s) = Len(t) /\ \A i \in 1..Len(s) : Folded(s[i]) = Folded(t[i])
BY LowerSequence

LEMMA LowerEqualIf ==
  ASSUME NEW s, NEW t, IsSequence(s), IsSequence(t), Len(s) = Len(t),
         \A i \in 1..Len(s) : Folded(s[i]) = Folded(t[i])
  PROVE  Lower(s) = Lower(t)
BY SequenceOf DEF Lower, Folded

LEMMA StemSequence ==
  ASSUME NEW definition, IsSequence(definition.label)
  PROVE  IsSequence(Stem(definition))
<1> DEFINE label == definition.label
           solid == {i \in DOMAIN label : label[i] # " "}
           shown == Trim(label)
           clean == [i \in DOMAIN shown |-> IF shown[i] \in {" ", "/"} THEN "_" ELSE shown[i]]
<1>1. IsSequence(shown)
  <2>1. CASE solid = {}
    BY <2>1, ShortSequences DEF Trim
  <2>2. CASE solid # {}
    <3>1. solid \subseteq Nat /\ IsFiniteSet(solid) /\ \A i \in solid : i \in 1..Len(label)
      BY PlacesFinite, SequenceOf
    <3>2. Min(solid) \in solid /\ Max(solid) \in solid
      <4> HIDE DEF solid
      <4> QED
        BY <2>2, <3>1, LeastMin, FiniteMax
    <3> DEFINE m == Min(solid)
               n == Max(solid)
    <3>3. shown = SubSeq(label, m, n)
      BY <2>2 DEF Trim
    <3>4. m \in Nat \ {0} /\ n \in Nat /\ n <= Len(label)
      <4> HIDE DEF solid
      <4>1. m \in 1..Len(label) /\ n \in 1..Len(label) /\ Len(label) \in Nat
        BY <3>1, <3>2, SequenceOf
      <4> QED
        BY <4>1
    <3> HIDE DEF m, n, shown
    <3> QED
      BY <3>3, <3>4, SubSequence
  <2> QED
    BY <2>1, <2>2
<1>2. IsSequence(clean)
  <2>1. clean = [i \in DOMAIN shown |-> clean[i]]
    OBVIOUS
  <2> HIDE DEF shown, clean
  <2> QED
    BY <1>1, <2>1, SameDomainSequence
<1>3. IsSequence(<<"definition", "-", Digits(definition.instance)>>)
  BY DEF IsSequence
<1> QED
  BY <1>2, <1>3 DEF Stem

LEMMA WithoutExtensionCuts ==
  ASSUME NEW file, IsSequence(file)
  PROVE  LET base == WithoutExtension(file) IN
         /\ IsSequence(base) /\ Len(base) \in 0..Len(file)
         /\ \A i \in 1..Len(base) : base[i] = file[i]
         /\ \A i \in 1..Len(file) : i > Len(base) => file[i] = ".stp"
         /\ Len(base) # 0 => file[Len(base)] # ".stp"
<1> DEFINE other == {i \in DOMAIN file : file[i] # ".stp"}
           n == IF other = {} THEN 0 ELSE Max(other)
<1>1. Len(file) \in Nat /\ DOMAIN file = 1..Len(file)
  BY SequenceOf
<1>2. /\ n \in 0..Len(file)
      /\ \A i \in other : i <= n
      /\ n # 0 => n \in other
  <2>1. CASE other = {}
    BY <1>1, <2>1
  <2>2. CASE other # {}
    <3>1. other \subseteq Nat /\ IsFiniteSet(other)
      BY PlacesFinite
    <3>2. Max(other) \in other /\ \A i \in other : i <= Max(other)
      <4> HIDE DEF other
      <4> QED
        BY <2>2, <3>1, FiniteMax
    <3> QED
      BY <1>1, <2>2, <3>2
  <2> QED
    BY <2>1, <2>2
<1>3. WithoutExtension(file) = SubSeq(file, 1, n)
  BY DEF WithoutExtension
<1>4. /\ IsSequence(SubSeq(file, 1, n)) /\ Len(SubSeq(file, 1, n)) = n
      /\ \A i \in 1..n : SubSeq(file, 1, n)[i] = file[i]
  <2> HIDE DEF n
  <2>1. n \in Nat /\ n <= Len(file) /\ 1 \in Nat \ {0}
    BY <1>1, <1>2
  <2>2. (IF 1 <= n THEN n - 1 + 1 ELSE 0) = n /\ n - 1 + 1 = n /\ \A i \in 1..n : 1 + i - 1 = i
    BY <2>1
  <2> QED
    BY <2>1, <2>2, SubSequence
<1>5. /\ \A i \in 1..Len(file) : i > n => file[i] = ".stp"
      /\ n # 0 => file[n] # ".stp"
  <2>1. \A i \in DOMAIN file : i \in other \/ file[i] = ".stp"
    OBVIOUS
  <2>2. \A i \in other : file[i] # ".stp"
    OBVIOUS
  <2> HIDE DEF other, n
  <2> QED
    BY <1>1, <1>2, <2>1, <2>2
<1> HIDE DEF n
<1> QED
  BY <1>2, <1>3, <1>4, <1>5

(* What is known of a base is known of every name it is the base of.        *)
LEMMA BaseUnique ==
  ASSUME NEW file, IsSequence(file), NEW k \in 0..Len(file),
         \A i \in 1..Len(file) : i > k => file[i] = ".stp",
         k # 0 => file[k] # ".stp"
  PROVE  Len(WithoutExtension(file)) = k
<1>1. PICK b \in 0..Len(file) :
        /\ b = Len(WithoutExtension(file))
        /\ \A i \in 1..Len(file) : i > b => file[i] = ".stp"
        /\ b # 0 => file[b] # ".stp"
  BY WithoutExtensionCuts
<1>2. ~(b < k) /\ ~(k < b)
  BY <1>1
<1> QED
  BY <1>1, <1>2

Plain(d) == plans[d] = PlainName(definitions[d])

Known(d) == Plain(d) \/ plans[d] = NumberedName(definitions[d])

Bare(d) == WithoutExtension(Stem(definitions[d]))

Base(d) == WithoutExtension(plans[d])

LEMMA PlanShape ==
  ASSUME call \in Calls, NEW d \in 1..Len(definitions), Known(d)
  PROVE  LET stem == Stem(definitions[d])
             file == plans[d]
         IN  /\ IsSequence(stem) /\ IsSequence(file) /\ Len(stem) \in Nat
             /\ \A i \in 1..Len(stem) : file[i] = stem[i]
             /\ Plain(d) => /\ Len(file) = Len(stem) + 1 /\ file[Len(stem) + 1] = ".stp"
                           /\ Len(Base(d)) = Len(Bare(d))
             /\ ~Plain(d) => /\ Len(file) = Len(stem) + 3 /\ Len(Base(d)) = Len(stem) + 2
                            /\ file[Len(stem) + 2] = Digits(definitions[d].instance)
                            /\ file[Len(stem) + 3] = ".stp"
<1> DEFINE stem == Stem(definitions[d])
           number == Digits(definitions[d].instance)
           middle == <<"-", number>>
           ending == <<".stp">>
<1>1. IsSequence(stem)
  BY DefinitionsSequence, StemSequence
<1>2. PICK n \in Nat : n = Len(stem)
  BY <1>1, SequenceOf
<1>3. /\ IsSequence(middle) /\ Len(middle) = 2 /\ middle[2] = number
      /\ IsSequence(ending) /\ Len(ending) = 1 /\ ending[1] = ".stp"
  BY DEF IsSequence
<1>4. number # ".stp"
  BY DefinitionsSequence, DigitsAssumption DEF Numbers, definitions
<1>5. CASE Plain(d)
  <2>1. plans[d] = stem \o ending
    BY <1>5 DEF Plain, PlainName
  <2> HIDE DEF stem, ending
  <2>2. /\ IsSequence(plans[d]) /\ Len(plans[d]) = n + 1
        /\ \A i \in 1..n : plans[d][i] = stem[i]
        /\ plans[d][n + 1] = ".stp"
    <3> DEFINE all == stem \o ending
    <3>1. IsSequence(stem) /\ IsSequence(ending)
      BY <1>1, <1>3
    <3>2. /\ IsSequence(all) /\ Len(all) = Len(stem) + Len(ending)
          /\ \A i \in 1..Len(stem) : all[i] = stem[i]
          /\ \A i \in 1..Len(ending) : all[Len(stem) + i] = ending[i]
      BY <3>1, ConcatSequence
    <3> HIDE DEF all
    <3>3. plans[d] = all /\ 1 \in 1..1
      BY <2>1 DEF all
    <3> QED
      BY <1>2, <1>3, <3>2, <3>3
  <2>3. PICK b \in 0..n : /\ b = Len(WithoutExtension(stem))
                          /\ \A i \in 1..n : i > b => stem[i] = ".stp"
                          /\ b # 0 => stem[b] # ".stp"
    BY <1>1, <1>2, WithoutExtensionCuts
  <2>4. Len(WithoutExtension(plans[d])) = b
    <3>1. b \in 0..Len(plans[d])
      BY <2>2
    <3>2. \A i \in 1..Len(plans[d]) : i > b => plans[d][i] = ".stp"
      BY <2>2, <2>3
    <3>3. b # 0 => plans[d][b] # ".stp"
      BY <2>2, <2>3
    <3> QED
      BY <2>2, <3>1, <3>2, <3>3, BaseUnique
  <2> QED
    BY <1>1, <1>2, <1>5, <2>2, <2>3, <2>4 DEF Bare, Base, stem
<1>6. CASE ~Plain(d)
  <2>1. plans[d] = (stem \o middle) \o ending
    BY <1>6 DEF Known, NumberedName, Numbered
  <2> HIDE DEF stem, middle, ending, number
  <2> DEFINE both == stem \o middle
             all == both \o ending
  <2>2. /\ IsSequence(both) /\ Len(both) = n + 2
        /\ \A i \in 1..n : both[i] = stem[i]
        /\ both[n + 2] = number
    <3>1. IsSequence(stem) /\ IsSequence(middle)
      BY <1>1, <1>3
    <3>2. /\ IsSequence(both) /\ Len(both) = Len(stem) + Len(middle)
          /\ \A i \in 1..Len(stem) : both[i] = stem[i]
          /\ \A i \in 1..Len(middle) : both[Len(stem) + i] = middle[i]
      BY <3>1, ConcatSequence
    <3> HIDE DEF both
    <3>3. 2 \in 1..2
      OBVIOUS
    <3> QED
      BY <1>2, <1>3, <3>2, <3>3
  <2> HIDE DEF both
  <2>3. /\ IsSequence(plans[d]) /\ Len(plans[d]) = n + 3
        /\ \A i \in 1..n : plans[d][i] = stem[i]
        /\ plans[d][n + 2] = number /\ plans[d][n + 3] = ".stp"
    <3>1. IsSequence(both) /\ IsSequence(ending)
      BY <1>3, <2>2
    <3>2. /\ IsSequence(all) /\ Len(all) = Len(both) + Len(ending)
          /\ \A i \in 1..Len(both) : all[i] = both[i]
          /\ \A i \in 1..Len(ending) : all[Len(both) + i] = ending[i]
      BY <3>1, ConcatSequence
    <3>3. plans[d] = all
      BY <2>1 DEF both
    <3> HIDE DEF all
    <3>4. 1 \in 1..1 /\ n + 2 + 1 = n + 3 /\ n + 2 \in 1..n + 2 /\ \A i \in 1..n : i \in 1..n + 2
      OBVIOUS
    <3>5. Len(all) = n + 3 /\ all[n + 3] = ".stp"
      BY <1>3, <2>2, <3>2, <3>4
    <3> QED
      BY <2>2, <3>2, <3>3, <3>4, <3>5
  <2>4. Len(WithoutExtension(plans[d])) = n + 2
    <3>1. n + 2 \in 0..Len(plans[d])
      BY <2>3
    <3>2. \A i \in 1..Len(plans[d]) : i > n + 2 => plans[d][i] = ".stp"
      BY <2>3
    <3>3. plans[d][n + 2] # ".stp"
      BY <1>4, <2>3
    <3> QED
      BY <2>3, <3>1, <3>2, <3>3, BaseUnique
  <2> QED
    BY <1>1, <1>2, <1>6, <2>3, <2>4 DEF Base, stem, number
<1> QED
  BY <1>5, <1>6

(* A file of a definition: its own ends where its base does, a body's goes   *)
(* on with the body's number.                                               *)
LEMMA TargetShape ==
  ASSUME call \in Calls, NEW d \in 1..Len(definitions), Known(d), NEW i \in 1..Len(Targets(d))
  PROVE  LET t == Targets(d)[i]
             base == Len(Base(d))
         IN  /\ IsSequence(t) /\ base \in Nat /\ base < Len(plans[d]) /\ base < Len(t)
             /\ \A j \in 1..base : t[j] = plans[d][j]
             /\ IF i = 1 THEN t = plans[d] /\ t[base + 1] = ".stp"
                ELSE /\ Len(t) = base + 5 /\ t[base + 1] = "."
                     /\ t[base + 4] = Digits(i - 1) /\ i - 1 \in Numbers
<1> DEFINE file == plans[d]
           base == Base(d)
           bodies == BodyFiles(definitions[d], file)
           first == <<file>>
<1>1. PICK n \in Nat : n = BodyCount(definitions[d]) /\ 1..n \subseteq Numbers
  BY DefinitionsSequence
<1>2. IsSequence(bodies) /\ Len(bodies) = n /\ \A k \in 1..n : bodies[k] = BodyFileName(file, k)
  BY <1>1, BuiltSequence DEF BodyFiles
<1>3. IsSequence(first) /\ Len(first) = 1 /\ first[1] = file
  BY DEF IsSequence
<1>4. /\ Len(Targets(d)) = 1 + n /\ Targets(d)[1] = file
      /\ \A k \in 1..n : Targets(d)[1 + k] = BodyFileName(file, k)
  <2> DEFINE all == first \o bodies
  <2> HIDE DEF bodies, first
  <2>1. IsSequence(first) /\ IsSequence(bodies)
    BY <1>2, <1>3
  <2>2. /\ IsSequence(all) /\ Len(all) = Len(first) + Len(bodies)
        /\ \A k \in 1..Len(first) : all[k] = first[k]
        /\ \A k \in 1..Len(bodies) : all[Len(first) + k] = bodies[k]
    BY <2>1, ConcatSequence
  <2>3. Targets(d) = all
    BY DEF Targets, first, bodies
  <2> HIDE DEF all
  <2>4. 1 \in 1..1
    OBVIOUS
  <2> QED
    BY <1>2, <1>3, <2>2, <2>3, <2>4
<1>5. PICK b \in Nat : /\ b = Len(base) /\ b < Len(file) /\ IsSequence(base)
                       /\ \A j \in 1..b : base[j] = file[j]
                       /\ file[b + 1] = ".stp" /\ IsSequence(file) /\ Len(file) \in Nat
  <2>1. IsSequence(file) /\ Len(file) \in Nat \ {0} /\ file[Len(file)] = ".stp"
    <3>1. PICK l \in Nat : l = Len(Stem(definitions[d]))
      BY PlanShape
    <3>2. CASE Plain(d)
      BY <3>1, <3>2, PlanShape
    <3>3. CASE ~Plain(d)
      BY <3>1, <3>3, PlanShape
    <3> QED
      BY <3>2, <3>3
  <2> HIDE DEF file
  <2>2. /\ IsSequence(base) /\ Len(base) \in 0..Len(file)
        /\ \A j \in 1..Len(base) : base[j] = file[j]
        /\ \A j \in 1..Len(file) : j > Len(base) => file[j] = ".stp"
        /\ Len(base) # 0 => file[Len(base)] # ".stp"
    BY <2>1, WithoutExtensionCuts DEF Base, file
  <2> HIDE DEF base
  <2>3. Len(base) # Len(file) /\ Len(base) \in Nat
    BY <2>1, <2>2
  <2>4. PICK b \in Nat : b = Len(base)
    BY <2>3
  <2>5. b < Len(file) /\ b + 1 \in 1..Len(file) /\ b + 1 > b
    BY <2>1, <2>2, <2>3, <2>4
  <2> QED
    BY <2>1, <2>2, <2>4, <2>5
<1>6. ASSUME NEW k \in 1..n
      PROVE  LET t == BodyFileName(file, k)
             IN  /\ IsSequence(t) /\ Len(t) = b + 5
                 /\ \A j \in 1..b : t[j] = file[j]
                 /\ t[b + 1] = "." /\ t[b + 4] = Digits(k)
  <2> DEFINE number == Digits(k)
             ending == <<".", "body", "-", number, ".stp">>
             all == base \o ending
  <2>1. IsSequence(ending) /\ Len(ending) = 5 /\ ending[1] = "." /\ ending[4] = number
    BY DEF IsSequence
  <2>2. BodyFileName(file, k) = all
    BY DEF BodyFileName, Base
  <2> HIDE DEF ending, number, base
  <2>3. IsSequence(base) /\ IsSequence(ending)
    BY <1>5, <2>1
  <2>4. /\ IsSequence(all) /\ Len(all) = Len(base) + Len(ending)
        /\ \A j \in 1..Len(base) : all[j] = base[j]
        /\ \A j \in 1..Len(ending) : all[Len(base) + j] = ending[j]
    BY <2>3, ConcatSequence
  <2> HIDE DEF all, file
  <2>5. 1 \in 1..5 /\ 4 \in 1..5
    OBVIOUS
  <2>6. /\ IsSequence(all) /\ Len(all) = b + 5
        /\ \A j \in 1..b : all[j] = file[j]
        /\ all[b + 1] = "." /\ all[b + 4] = number
    BY <1>5, <2>1, <2>4, <2>5
  <2> QED
    BY <2>2, <2>6 DEF number
<1>7. CASE i = 1
  BY <1>4, <1>5, <1>7
<1>8. CASE i # 1
  <2>1. PICK k \in 1..n : i = 1 + k /\ k = i - 1
    <3>1. i - 1 \in 1..n
      BY <1>4, <1>8
    <3> QED
      BY <3>1
  <2>2. Targets(d)[i] = BodyFileName(file, k) /\ k \in Numbers
    BY <1>1, <1>4, <2>1
  <2> HIDE DEF file, base
  <2>3. b < b + 5
    OBVIOUS
  <2> QED
    BY <1>5, <1>6, <1>8, <2>1, <2>2, <2>3 DEF file, base
<1> QED
  BY <1>7, <1>8

(* What two names have in common, when one of them goes on.                  *)
LEMMA NotShorter ==
  ASSUME call \in Calls, NoneExtends,
         NEW d \in 1..Len(definitions), NEW e \in 1..Len(definitions), d # e,
         Len(Bare(d)) <= Len(Bare(e)),
         \A j \in 1..Len(Bare(d)) :
           Folded(Stem(definitions[d])[j]) = Folded(Stem(definitions[e])[j])
  PROVE  Len(Stem(definitions[e])) = Len(Bare(d))
<1> DEFINE short == Bare(d)
           long == Stem(definitions[e])
           own == Stem(definitions[d])
           p == Lower(short)
           q == Lower(long)
<1>1. IsSequence(own) /\ IsSequence(long)
  BY DefinitionsSequence, StemSequence
<1>2. PICK n \in Nat : /\ n = Len(short) /\ IsSequence(short)
                       /\ \A j \in 1..n : short[j] = own[j]
  BY <1>1, WithoutExtensionCuts, SequenceOf DEF Bare
<1>3. PICK m \in Nat : m = Len(long) /\ n <= m
  <2>1. Len(Bare(e)) \in 0..Len(long) /\ Len(long) \in Nat
    BY <1>1, WithoutExtensionCuts, SequenceOf DEF Bare
  <2> QED
    BY <1>2, <2>1
<1>4. /\ IsSequence(p) /\ Len(p) = n /\ \A j \in 1..n : p[j] = Folded(short[j])
      /\ IsSequence(q) /\ Len(q) = m /\ \A j \in 1..m : q[j] = Folded(long[j])
  BY <1>1, <1>2, <1>3, LowerSequence
<1>5. \A j \in 1..n : p[j] = q[j]
  <2> TAKE j \in 1..n
  <2>1. j \in 1..m
    BY <1>3
  <2>2. Folded(own[j]) = Folded(long[j])
    BY <1>2
  <2> QED
    BY <1>2, <1>4, <2>1, <2>2
<1>6. ~IsStrictPrefix(p, q)
  BY DefinitionsSequence DEF NoneExtends, Bare
<1> HIDE DEF short, long, own, p, q
<1>7. IsPrefix(p, q)
  <2>1. Len(p) <= Len(q) /\ Len(p) = n /\ 1 \in Nat \ {0} /\ n - 1 + 1 = n
        /\ (IF 1 <= n THEN n - 1 + 1 ELSE 0) = n /\ \A j \in 1..n : 1 + j - 1 = j
    BY <1>3, <1>4
  <2> DEFINE a == SubSeq(p, 1, n)
             b == SubSeq(q, 1, n)
  <2>2. /\ IsSequence(a) /\ Len(a) = n /\ \A j \in 1..n : a[j] = p[j]
        /\ IsSequence(b) /\ Len(b) = n /\ \A j \in 1..n : b[j] = q[j]
    BY <1>3, <1>4, <2>1, SubSequence
  <2> HIDE DEF a, b
  <2>3. a = b
    BY <1>5, <2>2 DEF IsSequence
  <2> QED
    BY <2>1, <2>3 DEF IsPrefix, a, b
<1>8. p = q
  BY <1>6, <1>7 DEF IsStrictPrefix
<1> QED
  BY <1>2, <1>3, <1>4, <1>8 DEF short, long

(* The names so far: a plain one was still free when it was taken.          *)
NamesInv ==
  /\ used = {Lower(plans[d]) : d \in 1..Len(plans)}
  /\ \A d \in 1..Len(plans) :
       /\ Known(d)
       /\ Plain(d) => \A e \in 1..d - 1 : Lower(plans[e]) # Lower(plans[d])

(* Stems that none extends: what two files have in common is their whole    *)
(* stems, so they are named by the same rule, and a number tells them apart.*)
LEMMA StemsEven ==
  ASSUME call \in Calls, NoneExtends,
         NEW d \in 1..Len(definitions), NEW e \in 1..Len(definitions), d # e,
         \A j \in Nat \ {0} : j <= Len(Bare(d)) /\ j <= Len(Bare(e)) =>
           Folded(Stem(definitions[d])[j]) = Folded(Stem(definitions[e])[j])
  PROVE  \E n \in Nat : /\ Len(Stem(definitions[d])) = n /\ Len(Bare(d)) = n
                        /\ Len(Stem(definitions[e])) = n /\ Len(Bare(e)) = n
<1>1. ASSUME NEW f \in {d, e}
      PROVE  Len(Stem(definitions[f])) \in Nat /\ Len(Bare(f)) \in 0..Len(Stem(definitions[f]))
  BY DefinitionsSequence, StemSequence, SequenceOf, WithoutExtensionCuts DEF Bare
<1>2. PICK a, b, p, q \in Nat :
        /\ a = Len(Bare(d)) /\ p = Len(Stem(definitions[d])) /\ a <= p
        /\ b = Len(Bare(e)) /\ q = Len(Stem(definitions[e])) /\ b <= q
  BY <1>1
<1>3. a <= b => q = a
  <2> SUFFICES ASSUME a <= b
               PROVE  q = a
    OBVIOUS
  <2>1. \A j \in 1..a : j \in Nat \ {0} /\ j <= a /\ j <= b
    OBVIOUS
  <2>2. \A j \in 1..Len(Bare(d)) :
          Folded(Stem(definitions[d])[j]) = Folded(Stem(definitions[e])[j])
    BY <1>2, <2>1
  <2> QED
    BY <1>2, <2>2, NotShorter
<1>4. b <= a => p = b
  <2> SUFFICES ASSUME b <= a
               PROVE  p = b
    OBVIOUS
  <2>1. \A j \in 1..b : j \in Nat \ {0} /\ j <= a /\ j <= b
    OBVIOUS
  <2>2. \A j \in 1..Len(Bare(e)) :
          Folded(Stem(definitions[e])[j]) = Folded(Stem(definitions[d])[j])
    BY <1>2, <2>1
  <2> QED
    BY <1>2, <2>2, NotShorter
<1>5. a = p /\ b = p /\ q = p
  BY <1>2, <1>3, <1>4
<1> QED
  BY <1>2, <1>5

LEMMA TargetsApart ==
  ASSUME call \in Calls, NoneExtends, PlansFit, NamesInv,
         NEW d \in 1..Len(plans), NEW e \in 1..Len(plans),
         NEW i \in 1..Len(Targets(d)), NEW k \in 1..Len(Targets(e)),
         Path(Targets(d)[i]) = Path(Targets(e)[k])
  PROVE  d = e /\ i = k
<1> DEFINE t == Targets(d)[i]
           u == Targets(e)[k]
<1>1. /\ d \in 1..Len(definitions) /\ e \in 1..Len(definitions) /\ d \in Nat /\ e \in Nat
      /\ Known(d) /\ Known(e)
  BY DefinitionsSequence DEF PlansFit, IsSequence, NamesInv
<1>2. IsSequence(t) /\ IsSequence(u)
  BY <1>1, TargetShape
<1>3. PICK l \in Nat : /\ l = Len(t) /\ l = Len(u)
                       /\ \A j \in 1..l : Folded(t[j]) = Folded(u[j])
  <2> HIDE DEF t, u
  <2>1. Lower(t) = Lower(u)
    BY PathLower DEF t, u
  <2> QED
    BY <1>2, <2>1, LowerEqual, SequenceOf
<1>4. PICK b \in Nat : /\ b = Len(Base(d)) /\ b < l /\ b < Len(plans[d])
                       /\ \A j \in 1..b : t[j] = plans[d][j]
                       /\ i = 1 => t = plans[d] /\ t[b + 1] = ".stp"
                       /\ i # 1 => /\ l = b + 5 /\ t[b + 1] = "."
                                  /\ t[b + 4] = Digits(i - 1) /\ i - 1 \in Numbers
  <2>1. /\ Len(Base(d)) \in Nat /\ Len(Base(d)) < Len(plans[d]) /\ Len(Base(d)) < Len(t)
        /\ \A j \in 1..Len(Base(d)) : t[j] = plans[d][j]
        /\ i = 1 => t = plans[d] /\ t[Len(Base(d)) + 1] = ".stp"
        /\ i # 1 => /\ Len(t) = Len(Base(d)) + 5 /\ t[Len(Base(d)) + 1] = "."
                   /\ t[Len(Base(d)) + 4] = Digits(i - 1) /\ i - 1 \in Numbers
    BY <1>1, TargetShape
  <2> HIDE DEF t, u
  <2> QED
    BY <1>3, <2>1
<1>5. PICK c \in Nat : /\ c = Len(Base(e)) /\ c < l /\ c < Len(plans[e])
                       /\ \A j \in 1..c : u[j] = plans[e][j]
                       /\ k = 1 => u = plans[e] /\ u[c + 1] = ".stp"
                       /\ k # 1 => /\ l = c + 5 /\ u[c + 1] = "."
                                  /\ u[c + 4] = Digits(k - 1) /\ k - 1 \in Numbers
  <2>1. /\ Len(Base(e)) \in Nat /\ Len(Base(e)) < Len(plans[e]) /\ Len(Base(e)) < Len(u)
        /\ \A j \in 1..Len(Base(e)) : u[j] = plans[e][j]
        /\ k = 1 => u = plans[e] /\ u[Len(Base(e)) + 1] = ".stp"
        /\ k # 1 => /\ Len(u) = Len(Base(e)) + 5 /\ u[Len(Base(e)) + 1] = "."
                   /\ u[Len(Base(e)) + 4] = Digits(k - 1) /\ k - 1 \in Numbers
    BY <1>1, TargetShape
  <2> HIDE DEF t, u
  <2> QED
    BY <1>3, <2>1
<1> HIDE DEF t, u
<1>6. \A m, n \in Numbers : Folded(Digits(m)) = Folded(Digits(n)) => m = n
  BY DigitsAssumption DEF Folded
<1>7. CASE d = e
  <2>1. b = c
    BY <1>4, <1>5, <1>7
  <2>2. b + 1 \in 1..l /\ Folded(t[b + 1]) = Folded(u[b + 1])
    BY <1>3, <1>4
  <2>3. i = 1 <=> k = 1
    BY <1>4, <1>5, <2>1, <2>2 DEF Folded
  <2>4. CASE i # 1
    <3>1. b + 4 \in 1..l
      BY <1>4, <2>4
    <3>2. Folded(Digits(i - 1)) = Folded(Digits(k - 1))
      BY <1>3, <1>4, <1>5, <2>1, <2>3, <2>4, <3>1
    <3>3. i - 1 = k - 1
      BY <1>4, <1>5, <1>6, <2>3, <2>4, <3>2
    <3>4. i \in Int /\ k \in Int
      OBVIOUS
    <3> QED
      BY <1>7, <3>3, <3>4
  <2> QED
    BY <1>7, <2>3, <2>4
<1>8. CASE d # e
  <2> DEFINE S == Stem(definitions[d])
             T == Stem(definitions[e])
  <2>1. /\ IsSequence(S) /\ IsSequence(plans[d]) /\ Len(S) \in Nat
        /\ \A j \in 1..Len(S) : plans[d][j] = S[j]
        /\ Plain(d) => /\ Len(plans[d]) = Len(S) + 1 /\ plans[d][Len(S) + 1] = ".stp"
                      /\ b = Len(Bare(d))
        /\ ~Plain(d) => /\ Len(plans[d]) = Len(S) + 3 /\ b = Len(S) + 2
                       /\ plans[d][Len(S) + 2] = Digits(definitions[d].instance)
    BY <1>1, <1>4, PlanShape
  <2>2. /\ IsSequence(T) /\ IsSequence(plans[e]) /\ Len(T) \in Nat
        /\ \A j \in 1..Len(T) : plans[e][j] = T[j]
        /\ Plain(e) => /\ Len(plans[e]) = Len(T) + 1 /\ plans[e][Len(T) + 1] = ".stp"
                      /\ c = Len(Bare(e))
        /\ ~Plain(e) => /\ Len(plans[e]) = Len(T) + 3 /\ c = Len(T) + 2
                       /\ plans[e][Len(T) + 2] = Digits(definitions[e].instance)
    BY <1>1, <1>5, PlanShape
  <2>3. Len(Bare(d)) \in 0..Len(S) /\ Len(Bare(e)) \in 0..Len(T)
    BY <2>1, <2>2, WithoutExtensionCuts DEF Bare
  <2> HIDE DEF S, T
  <2>4. ASSUME NEW j \in Nat \ {0}, j <= Len(Bare(d)), j <= Len(Bare(e))
        PROVE  Folded(S[j]) = Folded(T[j])
    <3>0. PICK p, q, m, n \in Nat : /\ p = Len(Bare(d)) /\ m = Len(S) /\ p <= m
                                   /\ q = Len(Bare(e)) /\ n = Len(T) /\ q <= n
      <4>1. PICK m, n \in Nat : m = Len(S) /\ n = Len(T)
        BY <2>1, <2>2
      <4>2. PICK p \in Nat : p = Len(Bare(d)) /\ p <= m
        BY <2>3, <4>1
      <4>3. PICK q \in Nat : q = Len(Bare(e)) /\ q <= n
        BY <2>3, <4>1
      <4> QED
        BY <4>1, <4>2, <4>3
    <3>1. j \in 1..b /\ j \in 1..c /\ j \in 1..l /\ j \in 1..Len(S) /\ j \in 1..Len(T)
      <4>1. p <= b /\ q <= c
        BY <2>1, <2>2, <3>0, SMTT(30)
      <4> QED
        <5>1. j <= p /\ j <= q
          BY <2>4, <3>0
        <5>2. j <= b /\ j <= c /\ j <= m /\ j <= n
          BY <3>0, <4>1, <5>1, SMTT(30)
        <5>3. j <= l
          BY <1>3, <1>4, <5>2
        <5>4. j \in 1..b /\ j \in 1..c /\ j \in 1..l /\ j \in 1..m /\ j \in 1..n
          BY <5>2, <5>3
        <5> QED
          BY <3>0, <5>4
    <3>2. t[j] = S[j] /\ u[j] = T[j]
      BY <1>4, <1>5, <2>1, <2>2, <3>1
    <3> QED
      BY <1>3, <3>1, <3>2
  <2>5. PICK n \in Nat : Len(S) = n /\ Len(Bare(d)) = n /\ Len(T) = n /\ Len(Bare(e)) = n
    BY <1>1, <1>8, <2>4, StemsEven DEF S, T
  <2>6. /\ Plain(d) => b = n /\ Len(plans[d]) = n + 1
        /\ ~Plain(d) => b = n + 2 /\ Len(plans[d]) = n + 3
        /\ Plain(e) => c = n /\ Len(plans[e]) = n + 1
        /\ ~Plain(e) => c = n + 2 /\ Len(plans[e]) = n + 3
    BY <2>1, <2>2, <2>5
  <2>7. l = (IF i = 1 THEN IF Plain(d) THEN n + 1 ELSE n + 3 ELSE IF Plain(d) THEN n + 5 ELSE n + 7)
        /\ l = (IF k = 1 THEN IF Plain(e) THEN n + 1 ELSE n + 3 ELSE IF Plain(e) THEN n + 5 ELSE n + 7)
    <3>1. /\ i = 1 => l = Len(plans[d])
          /\ k = 1 => l = Len(plans[e])
      BY <1>3, <1>4, <1>5
    <3>2. n + 2 + 5 = n + 7
      OBVIOUS
    <3> QED
      BY <1>4, <1>5, <2>6, <3>1, <3>2
  <2>8. Plain(d) <=> Plain(e)
    BY <2>7
  <2>9. CASE Plain(d)
    <3>1. \A j \in 1..n : Folded(plans[d][j]) = Folded(plans[e][j])
      <4> TAKE j \in 1..n
      <4>1. j \in 1..b /\ j \in 1..c /\ j \in 1..l
        BY <1>4, <2>6, <2>8, <2>9
      <4> QED
        BY <1>3, <1>4, <1>5, <4>1
    <3>2. plans[d][n + 1] = ".stp" /\ plans[e][n + 1] = ".stp"
      BY <2>1, <2>2, <2>5, <2>8, <2>9
    <3>3. \A j \in 1..n + 1 : j \in 1..n \/ j = n + 1
      OBVIOUS
    <3>4. \A j \in 1..n + 1 : Folded(plans[d][j]) = Folded(plans[e][j])
      BY <3>1, <3>2, <3>3
    <3>5. Lower(plans[d]) = Lower(plans[e])
      BY <2>1, <2>2, <2>6, <2>8, <2>9, <3>4, LowerEqualIf, ZenonT(40)
    <3>6. d \in 1..e - 1 \/ e \in 1..d - 1
      BY <1>1, <1>8
    <3> QED
      BY <2>8, <2>9, <3>5, <3>6 DEF NamesInv
  <2>10. CASE ~Plain(d)
    <3>1. t[n + 2] = Digits(definitions[d].instance) /\ u[n + 2] = Digits(definitions[e].instance)
      <4>1. n + 2 \in 1..b /\ n + 2 \in 1..c
        BY <2>6, <2>8, <2>10
      <4> QED
        BY <1>4, <1>5, <2>1, <2>2, <2>5, <2>8, <2>10, <4>1
    <3>2. n + 2 \in 1..l
      BY <1>4, <2>6, <2>10
    <3>3. Folded(Digits(definitions[d].instance)) = Folded(Digits(definitions[e].instance))
      BY <1>3, <3>1, <3>2
    <3>4. definitions[d].instance = definitions[e].instance
      BY <1>1, <1>6, <3>3, DefinitionsSequence
    <3> QED
      BY <1>1, <1>8, <3>4, DefinitionsSequence
  <2> QED
    BY <2>9, <2>10
<1> QED
  BY <1>7, <1>8

LEMMA NamesInvStep ==
  ASSUME SplitInv, NamesInv, [Next]_vars
  PROVE  NamesInv'
<1>1. call' = call
  BY DEF Next, vars, Plan, Planned, Create, Write, Fail, Report
<1>2. \A d : plans'[d] = plans[d] => (Known(d)' <=> Known(d)) /\ (Plain(d)' <=> Plain(d))
  <2>1. definitions' = definitions
    BY <1>1 DEF definitions
  <2>2. \A d : PlainName(definitions[d])' = PlainName(definitions[d])
    BY <2>1 DEF PlainName, Stem, Trim
  <2>3. \A d : NumberedName(definitions[d])' = NumberedName(definitions[d])
    BY <2>1 DEF NumberedName, Numbered, Stem, Trim
  <2> QED
    BY <2>2, <2>3 DEF Known, Plain
<1>3. CASE plans' = plans /\ used' = used
  BY <1>2, <1>3 DEF NamesInv, Lower
<1>4. CASE Plan
  <2> DEFINE definition == definitions[Len(plans) + 1]
             file == OutputName(definition, used)
  <2>1. used' = used \cup {Lower(file)} /\ plans' = Append(plans, file)
    BY <1>4 DEF Plan
  <2>2. PICK n \in Nat : n = Len(plans)
    BY DEF SplitInv, PlansFit, IsSequence
  <2>3. /\ Len(plans') = n + 1
        /\ \A d \in 1..n : plans'[d] = plans[d]
        /\ plans'[n + 1] = file
    <3> HIDE DEF file
    <3> QED
      BY <2>1, <2>2, AppendSequence DEF SplitInv, PlansFit
  <2>4. \/ file = PlainName(definition) /\ Lower(file) \notin used
        \/ file = NumberedName(definition)
    BY DEF OutputName, PlainName, NumberedName
  <2>5. /\ Known(n + 1)'
        /\ Plain(n + 1)' => file = PlainName(definition)
    <3>1. /\ PlainName(definitions[n + 1])' = PlainName(definitions[n + 1])
          /\ NumberedName(definitions[n + 1])' = NumberedName(definitions[n + 1])
      <4>1. definitions' = definitions
        BY <1>1 DEF definitions
      <4> QED
        BY <4>1 DEF PlainName, NumberedName, Numbered, Stem, Trim
    <3>2. definition = definitions[n + 1]
      BY <2>2
    <3> HIDE DEF definition, file
    <3> QED
      BY <2>3, <2>4, <3>1, <3>2 DEF Known, Plain
  <2>6. Plain(n + 1)' => Lower(file) \notin used
    <3>1. ASSUME file = PlainName(definition)
          PROVE  Lower(file) \notin used
      <4>1. IsSequence(definition.label) /\ definition \in {definitions[d] : d \in 1..Len(definitions)}
        BY <1>4, <2>2, DefinitionsSequence DEF Plan, SplitInv
      <4> DEFINE stem == Stem(definition)
                 number == Digits(definition.instance)
      <4>2. IsSequence(stem) /\ IsSequence(<<"-", number>>) /\ Len(<<"-", number>>) = 2
            /\ IsSequence(<<".stp">>) /\ Len(<<".stp">>) = 1
        <5>1. IsSequence(stem)
          BY <4>1, StemSequence
        <5> HIDE DEF stem, number
        <5>2. IsSequence(<<"-", number>>) /\ Len(<<"-", number>>) = 2
          BY DEF IsSequence
        <5> QED
          BY <5>1, <5>2, ShortSequences
      <4>3. Len(PlainName(definition)) = Len(stem) + 1 /\ Len(NumberedName(definition)) = Len(stem) + 3
        <5> DEFINE middle == <<"-", number>>
                   ending == <<".stp">>
                   both == stem \o middle
        <5> HIDE DEF stem, middle, ending
        <5>1. IsSequence(stem) /\ IsSequence(middle) /\ IsSequence(ending)
          BY <4>2 DEF middle, ending
        <5>2. IsSequence(both) /\ Len(both) = Len(stem) + Len(middle)
          BY <5>1, ConcatSequence
        <5> HIDE DEF both
        <5>3. Len(both \o ending) = Len(both) + Len(ending) /\ Len(stem \o ending) = Len(stem) + Len(ending)
          BY <5>1, <5>2, ConcatSequence
        <5>4. Len(middle) = 2 /\ Len(ending) = 1 /\ Len(stem) \in Nat
          BY <4>2, SequenceOf DEF middle, ending
        <5>5. PlainName(definition) = stem \o ending /\ NumberedName(definition) = both \o ending
          BY DEF PlainName, NumberedName, Numbered, stem, both, middle, ending
        <5> QED
          BY <5>2, <5>3, <5>4, <5>5
      <4>4. PlainName(definition) # NumberedName(definition)
        <5>1. Len(stem) \in Nat
          BY <4>2, SequenceOf
        <5> QED
          BY <4>3, <5>1
      <4> QED
        BY <2>4, <3>1, <4>4
    <3> QED
      BY <2>5, <3>1
  <2>7. used' = {Lower(plans'[d]) : d \in 1..n + 1}
    <3>1. \A d \in 1..n + 1 : d \in 1..n \/ d = n + 1
      OBVIOUS
    <3>2. used = {Lower(plans[d]) : d \in 1..n}
      BY <2>2 DEF NamesInv
    <3> HIDE DEF file
    <3>3. n + 1 \in 1..n + 1 /\ \A d \in 1..n : d \in 1..n + 1
      OBVIOUS
    <3> QED
      BY <2>1, <2>3, <3>1, <3>2, <3>3
  <2>8. ASSUME NEW d \in 1..n + 1
        PROVE  Known(d)' /\ (Plain(d)' => \A e \in 1..d - 1 : Lower(plans'[e]) # Lower(plans'[d]))
    <3>1. CASE d = n + 1
      <4>1. \A e \in 1..d - 1 : e \in 1..n /\ plans'[e] = plans[e]
        BY <2>3, <3>1
      <4>2. \A e \in 1..n : Lower(plans[e]) \in used
        BY <2>2 DEF NamesInv
      <4> HIDE DEF file
      <4> QED
        BY <2>3, <2>5, <2>6, <3>1, <4>1, <4>2
    <3>2. CASE d # n + 1
      <4>1. d \in 1..n /\ \A e \in 1..d - 1 : e \in 1..n
        BY <3>2
      <4> QED
        BY <1>2, <2>2, <2>3, <4>1 DEF NamesInv
    <3> QED
      BY <3>1, <3>2
  <2> QED
    BY <2>3, <2>7, <2>8 DEF NamesInv, Lower
<1> QED
  BY <1>3, <1>4 DEF Next, vars, Planned, Create, Write, Fail, Report

(* No two outputs have one file.                                            *)
LEMMA OutputsApart ==
  ASSUME SplitInv, NamesInv, NoneExtends
  PROVE  Apart
<1> call \in Calls /\ PlansFit
  BY DEF SplitInv
<1>1. PICK place : Placed(place)
  BY OutputPlaces
<1>2. DOMAIN Outputs = 1..Len(Outputs)
  BY OutputPlaces
<1>3. \A d \in 1..Len(plans) : \A i \in 1..Len(Targets(d)) : OutputsOf(d)[i].file = Targets(d)[i]
  <2> TAKE d \in 1..Len(plans)
  <2>1. d \in 1..Len(definitions)
    BY DefinitionsSequence DEF PlansFit, IsSequence
  <2> QED
    BY <2>1, OutputsOfTargets
<1>4. ASSUME NEW k \in 1..Len(Outputs), NEW l \in 1..Len(Outputs),
             Path(Outputs[k].file) = Path(Outputs[l].file)
      PROVE  k = l
  <2>1. PICK d \in 1..Len(plans) : \E i \in 1..Len(Targets(d)) :
          k = place[d - 1] + i /\ Outputs[k] = OutputsOf(d)[i]
    BY <1>1 DEF Placed
  <2>2. PICK i \in 1..Len(Targets(d)) : k = place[d - 1] + i /\ Outputs[k] = OutputsOf(d)[i]
    BY <2>1
  <2>3. PICK e \in 1..Len(plans) : \E j \in 1..Len(Targets(e)) :
          l = place[e - 1] + j /\ Outputs[l] = OutputsOf(e)[j]
    BY <1>1 DEF Placed
  <2>4. PICK j \in 1..Len(Targets(e)) : l = place[e - 1] + j /\ Outputs[l] = OutputsOf(e)[j]
    BY <2>3
  <2>5. Outputs[k].file = Targets(d)[i] /\ Outputs[l].file = Targets(e)[j]
    BY <1>3, <2>2, <2>4
  <2>6. Path(Targets(d)[i]) = Path(Targets(e)[j])
    BY <1>4, <2>5
  <2>7. d = e /\ i = j
    BY <2>6, TargetsApart
  <2> QED
    BY <2>2, <2>4, <2>7
<1> QED
  BY <1>2, <1>4 DEF Apart

-----------------------------------------------------------------------------
(* What is on the disk: every file is as the outputs so far have left it,     *)
(* whether two of them go to one file or not.                                *)
FileOf(i) == Path(Outputs[i].file)

Progress ==
  /\ Len(plans) = Len(definitions)
  /\ at <= Len(Outputs) + 1
  /\ outcome = "Ok" => at = Len(Outputs) + 1
  /\ DOMAIN Before \subseteq DOMAIN disk
  /\ \A i \in 1..at - 1 : FileOf(i) \in DOMAIN disk
  /\ \A name \in DOMAIN disk : IsAsLeft(name)

DiskInv ==
  /\ outcome \in {"planning", "refused"} => at = 1
  /\ outcome \notin {"planning", "refused"} => Progress

LEMMA OneMoreOutput ==
  ASSUME NEW a \in Nat \ {0}, NEW b \in {a, a + 1}
  PROVE  /\ \A j \in 1..b - 1 : j \in 1..a - 1 \/ j = a
         /\ 1..a - 1 \subseteq 1..b - 1
         /\ \A i \in 1..a - 1 : \A j \in i + 1..b - 1 : j \in i + 1..a - 1 \/ j = a
<1>1. CASE b = a
  BY <1>1
<1>2. CASE b = a + 1
  BY <1>2
<1> QED
  BY <1>1, <1>2

(* A file that an output does not go to is left as it was, when the output   *)
(* is cut and when it is done.                                               *)
LEMMA LeftElsewhere ==
  ASSUME at \in Nat \ {0}, Outputs' = Outputs, \A i : FileOf(i)' = FileOf(i), Before' = Before,
         at <= Len(Outputs), NEW name, name # FileOf(at), IsAsLeft(name),
         disk'[name] = disk[name], at' \in {at, at + 1}
  PROVE  IsAsLeft(name)'
<1> PICK m, n : m = at - 1 /\ n = at' - 1
  OBVIOUS
<1>1. \/ \E i \in 1..m : IsLastTo(name, i, m) /\ disk[name] = Outputs[i].content
      \/ /\ \A i \in 1..m : FileOf(i) # name
         /\ name \in DOMAIN Before /\ disk[name] = Before[name]
  BY DEF IsAsLeft, FileOf
<1>2. /\ \A j \in 1..n : j \in 1..m \/ j = at
      /\ 1..m \subseteq 1..n
      /\ \A i \in 1..m : \A j \in i + 1..n : j \in i + 1..m \/ j = at
  <2>1. /\ \A j \in 1..at' - 1 : j \in 1..at - 1 \/ j = at
        /\ 1..at - 1 \subseteq 1..at' - 1
        /\ \A i \in 1..at - 1 : \A j \in i + 1..at' - 1 : j \in i + 1..at - 1 \/ j = at
    BY OneMoreOutput
  <2> QED
    BY <2>1
<1>3. IsAsLeft(name)' <=>
        \/ at' <= Len(Outputs) /\ name = FileOf(at)' /\ disk'[name] = [kind |-> "cut"]
        \/ \E i \in 1..n : /\ FileOf(i) = name /\ (\A j \in i + 1..n : FileOf(j) # name)
                           /\ disk'[name] = Outputs[i].content
        \/ /\ \A i \in 1..n : FileOf(i) # name
           /\ name \in DOMAIN Before /\ disk'[name] = Before[name]
  BY DEF IsAsLeft, IsLastTo, FileOf
<1>4. CASE \E i \in 1..m : IsLastTo(name, i, m) /\ disk[name] = Outputs[i].content
  <2>1. PICK i \in 1..m : IsLastTo(name, i, m) /\ disk[name] = Outputs[i].content
    BY <1>4
  <2>2. i \in 1..n /\ FileOf(i) = name /\ \A j \in i + 1..m : FileOf(j) # name
    BY <1>2, <2>1 DEF IsLastTo, FileOf
  <2>3. \A j \in i + 1..n : FileOf(j) # name
    BY <1>2, <2>2
  <2> QED
    BY <1>3, <2>1, <2>2, <2>3
<1>5. CASE /\ \A i \in 1..m : FileOf(i) # name
           /\ name \in DOMAIN Before /\ disk[name] = Before[name]
  <2>1. \A i \in 1..n : FileOf(i) # name
    BY <1>2, <1>5
  <2> QED
    BY <1>3, <1>5, <2>1
<1> QED
  BY <1>1, <1>4, <1>5

(* One output is put in its file, cut or whole.                             *)
LEMMA HoldingStep ==
  ASSUME Progress, at \in 1..Len(Outputs), Len(Outputs) \in Nat, NEW content, Holding(content),
         Outputs' = Outputs, \A i : FileOf(i)' = FileOf(i), Before' = Before, at' \in {at, at + 1},
         NEW path, path = FileOf(at), IsAsLeft(path)'
  PROVE  /\ DOMAIN Before \subseteq DOMAIN disk'
         /\ \A i \in 1..at : FileOf(i) \in DOMAIN disk'
         /\ \A name \in DOMAIN disk' : IsAsLeft(name)'
<1>1. disk' = [name \in DOMAIN disk \cup {path} |-> IF name = path THEN content ELSE disk[name]]
  BY DEF Holding, FileOf
<1>2. /\ DOMAIN disk' = DOMAIN disk \cup {path}
      /\ \A name \in DOMAIN disk : name # path => disk'[name] = disk[name]
  BY <1>1
<1>3. \A i \in 1..at : i \in 1..at - 1 \/ i = at
  OBVIOUS
<1>4. ASSUME NEW name \in DOMAIN disk', name # path
      PROVE  IsAsLeft(name)'
  <2>1. name \in DOMAIN disk /\ disk'[name] = disk[name] /\ IsAsLeft(name)
    BY <1>2, <1>4 DEF Progress
  <2>2. name # FileOf(at) /\ at \in Nat \ {0} /\ at <= Len(Outputs)
    BY <1>4
  <2> QED
    BY <2>1, <2>2, LeftElsewhere
<1>5. \A name \in DOMAIN disk' : IsAsLeft(name)'
  BY <1>4
<1>6. \A i \in 1..at : FileOf(i) \in DOMAIN disk'
  BY <1>2, <1>3 DEF Progress
<1> QED
  BY <1>2, <1>5, <1>6 DEF Progress

LEMMA DiskInvStep ==
  ASSUME SplitInv, DiskInv, [Next]_vars
  PROVE  DiskInv'
<1>1. call' = call
  BY DEF Next, vars, Plan, Planned, Create, Write, Fail, Report
<1>2. definitions' = definitions /\ Before' = Before
  BY <1>1 DEF definitions, Before, Path, Lower
<1>3. call \in Calls /\ PlansFit /\ at \in Nat \ {0}
  BY DEF SplitInv
<1>4. Len(Outputs) \in Nat /\ DOMAIN Outputs = 1..Len(Outputs)
  BY <1>3, OutputPlaces
<1>5. ASSUME plans' = plans, outcome \notin {"planning", "refused"},
             outcome' \notin {"planning", "refused"}
      PROVE  Outputs' = Outputs /\ \A i : FileOf(i)' = FileOf(i)
  <2>1. Outputs' = Outputs
    BY <1>1, <1>2, <1>5 DEF Outputs, OutputsOf, BodyFiles, BodyCount, BodyFileName, Content
  <2> QED
    BY <1>1, <2>1 DEF FileOf, Path, Lower
<1>6. CASE Plan
  <2>1. at' = at /\ outcome = "planning" /\ outcome' \in {"planning", "refused"}
    BY <1>6 DEF Plan
  <2> QED
    BY <2>1 DEF DiskInv
<1>7. CASE Planned
  <2>1. /\ outcome = "planning" /\ outcome' = "writing" /\ Len(plans) = Len(definitions)
        /\ UNCHANGED <<call, used, plans, disk, at, open>>
    BY <1>7 DEF Planned
  <2>2. at' = 1 /\ disk' = Before' /\ SplitInv'
    BY <1>2, <2>1, SplitInvStep DEF DiskInv, SplitInv
  <2>3. Len(Outputs') \in Nat
    <3>1. (call \in Calls /\ PlansFit => Len(Outputs) \in Nat)'
      BY OutputsCounted, PTL
    <3> QED
      BY <2>2, <3>1 DEF SplitInv
  <2>4. \A name \in DOMAIN disk' : IsAsLeft(name)'
    BY <2>2 DEF IsAsLeft
  <2> QED
    BY <1>2, <2>1, <2>2, <2>3, <2>4 DEF DiskInv, Progress
<1>8. CASE Create
  <2>1. /\ outcome = "writing" /\ at <= Len(Outputs) /\ Holding([kind |-> "cut"])
        /\ UNCHANGED <<plans, at, outcome>>
    BY <1>8 DEF Create
  <2>2. Progress /\ at \in 1..Len(Outputs)
    BY <1>3, <2>1 DEF DiskInv
  <2>3. Outputs' = Outputs /\ \A i : FileOf(i)' = FileOf(i)
    BY <1>5, <2>1
  <2> PICK path : path = FileOf(at)
    OBVIOUS
  <2>4. IsAsLeft(path)'
    <3>1. disk'[path] = [kind |-> "cut"]
      BY <2>1 DEF Holding, FileOf
    <3>2. at' <= Len(Outputs') /\ path = FileOf(at)'
      BY <2>1, <2>3
    <3> QED
      BY <3>1, <3>2 DEF IsAsLeft, FileOf
  <2>5. /\ DOMAIN Before \subseteq DOMAIN disk'
        /\ \A i \in 1..at : FileOf(i) \in DOMAIN disk'
        /\ \A name \in DOMAIN disk' : IsAsLeft(name)'
    BY <1>2, <1>4, <2>1, <2>2, <2>3, <2>4, HoldingStep
  <2>6. \A i \in 1..at - 1 : i \in 1..at
    BY <1>3
  <2> QED
    BY <1>2, <2>1, <2>2, <2>3, <2>5, <2>6 DEF DiskInv, Progress
<1>9. CASE Write
  <2>1. /\ outcome = "writing" /\ at <= Len(Outputs) /\ Holding(Outputs[at].content)
        /\ UNCHANGED <<plans, outcome>> /\ at' = at + 1
    BY <1>9 DEF Write, SplitInv
  <2>2. Progress /\ at \in 1..Len(Outputs)
    BY <1>3, <2>1 DEF DiskInv
  <2>3. Outputs' = Outputs /\ \A i : FileOf(i)' = FileOf(i)
    BY <1>5, <2>1
  <2> PICK path, last : path = FileOf(at) /\ last = at
    OBVIOUS
  <2>4. IsAsLeft(path)'
    <3>1. disk'[path] = Outputs'[last].content
      BY <2>1, <2>3 DEF Holding, FileOf
    <3>2. at' - 1 = last /\ last \in 1..at' - 1 /\ \A j \in last + 1..at' - 1 : FALSE
      BY <1>3, <2>1
    <3>3. (Path(Outputs[last].file) = path)'
      BY <2>3 DEF FileOf
    <3> QED
      BY <3>1, <3>2, <3>3 DEF IsAsLeft, IsLastTo
  <2>5. /\ DOMAIN Before \subseteq DOMAIN disk'
        /\ \A i \in 1..at : FileOf(i) \in DOMAIN disk'
        /\ \A name \in DOMAIN disk' : IsAsLeft(name)'
    BY <1>2, <1>4, <2>1, <2>2, <2>3, <2>4, HoldingStep
  <2>6. at + 1 <= Len(Outputs) + 1 /\ at' - 1 = at
    BY <1>3, <1>4, <2>1
  <2> QED
    BY <1>2, <2>1, <2>2, <2>3, <2>5, <2>6 DEF DiskInv, Progress
<1>10. ASSUME outcome \notin {"planning", "refused"}, outcome' \notin {"planning", "refused"},
              UNCHANGED <<plans, disk, at>>, outcome' = "Ok" => at > Len(Outputs)
       PROVE  DiskInv'
  <2>1. Outputs' = Outputs /\ \A i : FileOf(i)' = FileOf(i)
    BY <1>5, <1>10
  <2>2. Progress
    BY <1>10 DEF DiskInv
  <2>3. outcome' = "Ok" => at = Len(Outputs) + 1
    BY <1>3, <1>4, <1>10, <2>2 DEF Progress
  <2>4. \A name : IsAsLeft(name)' <=> IsAsLeft(name)
    BY <1>1, <1>2, <1>10, <2>1 DEF IsAsLeft, IsLastTo, Path, Lower
  <2> QED
    BY <1>2, <1>10, <2>1, <2>2, <2>3, <2>4 DEF DiskInv, Progress
<1>11. CASE Fail
  BY <1>10, <1>11 DEF Fail
<1>12. CASE Report
  BY <1>10, <1>12 DEF Report
<1>13. CASE UNCHANGED vars
  <2>1. UNCHANGED <<plans, disk, at, outcome>>
    BY <1>13 DEF vars
  <2>2. CASE outcome \in {"planning", "refused"}
    BY <2>1, <2>2 DEF DiskInv
  <2>3. CASE outcome \notin {"planning", "refused"}
    <3>1. outcome = "Ok" => at > Len(Outputs)
      BY <1>4, <2>3 DEF DiskInv, Progress
    <3> QED
      BY <1>10, <2>1, <2>3, <3>1
  <2> QED
    BY <2>2, <2>3
<1> QED
  BY <1>6, <1>7, <1>8, <1>9, <1>11, <1>12, <1>13 DEF Next

(* With names apart, every output before `at` is whole.                     *)
LEMMA WholeIfApart ==
  ASSUME Apart, Progress, at \in Nat \ {0}, Len(Outputs) \in Nat, DOMAIN Outputs = 1..Len(Outputs),
         NEW i \in 1..at - 1
  PROVE  disk[FileOf(i)] = Outputs[i].content
<1>1. i \in 1..Len(Outputs) /\ i # at
  BY DEF Progress
<1>2. IsAsLeft(FileOf(i))
  BY DEF Progress
<1>3. at <= Len(Outputs) => FileOf(i) # FileOf(at)
  <2> HAVE at <= Len(Outputs)
  <2>1. at \in 1..Len(Outputs)
    OBVIOUS
  <2> QED
    BY <1>1, <2>1 DEF Apart, FileOf
<1>4. PICK k \in 1..at - 1 : FileOf(k) = FileOf(i) /\ disk[FileOf(i)] = Outputs[k].content
  BY <1>2, <1>3 DEF IsAsLeft, IsLastTo, FileOf
<1>5. k \in 1..Len(Outputs)
  BY DEF Progress
<1> QED
  BY <1>1, <1>4, <1>5 DEF Apart, FileOf

(* What is on the disk is as WrittenInOrder says.                            *)
LEMMA DiskInOrder ==
  ASSUME SplitInv, NamesInv, DiskInv
  PROVE  WrittenInOrder
<1>1. call \in Calls /\ PlansFit /\ at \in Nat \ {0}
  BY DEF SplitInv
<1>2. Len(Outputs) \in Nat /\ DOMAIN Outputs = 1..Len(Outputs)
  BY <1>1, OutputPlaces
<1>3. CASE outcome \in {"planning", "refused"}
  <2>1. at = 1 /\ Len(Outputs) = 0 /\ disk = Before
    BY <1>3 DEF DiskInv, Outputs, SplitInv
  <2>2. \A name \in DOMAIN disk : IsAsLeft(name)
    BY <2>1 DEF IsAsLeft
  <2> QED
    BY <1>3, <2>1, <2>2 DEF WrittenInOrder
<1>4. CASE outcome \notin {"planning", "refused"}
  <2>1. Progress
    BY <1>4 DEF DiskInv
  <2>2. NoneExtends => \A i \in 1..at - 1 : disk[FileOf(i)] = Outputs[i].content
    BY <1>1, <1>2, <2>1, OutputsApart, WholeIfApart
  <2>3. ASSUME NoneExtends, outcome = "Ok", NEW name \in DOMAIN disk \ DOMAIN Before,
               disk[name].kind = "master"
        PROVE  {disk[Path(file)].of : file \in disk[name].refers} = definitions[disk[name].of].parts
    <3>1. PICK n \in Nat : n = Len(plans) /\ n = Len(definitions)
      BY <2>1, DefinitionsSequence, <1>1 DEF Progress
    <3>2. PICK place : Placed(place)
      BY <1>1, OutputPlaces
    <3>3. at - 1 = Len(Outputs) /\ \A k \in 1..Len(Outputs) : disk[FileOf(k)] = Outputs[k].content
      <4>1. at - 1 = Len(Outputs)
        BY <1>2, <2>1, <2>3 DEF Progress
      <4> QED
        BY <2>2, <2>3, <4>1
    <3>4. PICK k \in 1..Len(Outputs) : name = FileOf(k)
      <4>1. IsAsLeft(name) /\ name \notin DOMAIN Before /\ ~(at <= Len(Outputs))
        BY <1>1, <1>2, <2>1, <2>3, <3>3 DEF Progress
      <4> QED
        BY <3>3, <4>1 DEF IsAsLeft, IsLastTo, FileOf
    <3>5. PICK d \in 1..n : \E i \in 1..Len(Targets(d)) : Outputs[k] = OutputsOf(d)[i]
      BY <3>1, <3>2 DEF Placed
    <3>6. PICK i \in 1..Len(Targets(d)) : Outputs[k] = OutputsOf(d)[i]
      BY <3>5
    <3>7. disk[name] = Content(d) /\ Content(d).kind = "master"
      <4>1. disk[name] = OutputsOf(d)[i].content
        BY <3>3, <3>4, <3>6
      <4>2. i = 1 /\ OutputsOf(d)[1].content = Content(d)
        BY <1>1, <2>3, <3>1, <4>1, OutputsOfTargets
      <4> QED
        BY <2>3, <4>1, <4>2
    <3>8. /\ disk[name].of = d
          /\ disk[name].refers = {plans[part] : part \in definitions[d].parts}
      BY <3>7 DEF Content
    <3>9. ASSUME NEW part \in definitions[d].parts
          PROVE  disk[Path(plans[part])].of = part
      <4>1. part \in 1..n
        BY <1>1, <3>1, DefinitionsSequence
      <4>2. /\ 1 \in 1..Len(Targets(part)) /\ Targets(part)[1] = plans[part]
            /\ OutputsOf(part)[1].file = plans[part]
            /\ OutputsOf(part)[1].content = Content(part)
        BY <1>1, <3>1, <4>1, OutputsOfTargets
      <4>3. PICK q \in 1..Len(Outputs) : Outputs[q] = OutputsOf(part)[1]
        BY <1>4, <3>1, <3>2, <4>1, <4>2 DEF Placed
      <4>4. disk[Path(plans[part])] = Content(part)
        BY <3>3, <4>2, <4>3 DEF FileOf
      <4> QED
        BY <4>4 DEF Content
    <3> QED
      BY <3>8, <3>9
  <2>4. outcome = "Ok" => at > Len(Outputs)
    BY <1>2, <2>1 DEF Progress
  <2> QED
    BY <2>1, <2>2, <2>3, <2>4 DEF WrittenInOrder, Progress, FileOf
<1> QED
  BY <1>3, <1>4

LEMMA SplitAllInv == Spec => [](SplitInv /\ NamesInv /\ DiskInv)
<1>1. Init => SplitInv /\ NamesInv /\ DiskInv
  <2> SUFFICES ASSUME Init
               PROVE  SplitInv /\ NamesInv /\ DiskInv
    OBVIOUS
  <2>1. PlansFit /\ Len(plans) = 0
    BY DefinitionsSequence DEF Init, PlansFit, IsSequence
  <2>2. SplitInv
    BY <2>1 DEF Init, SplitInv, AllNew
  <2>3. NamesInv
    BY <2>1 DEF Init, NamesInv
  <2>4. DiskInv
    BY DEF Init, DiskInv
  <2> QED
    BY <2>2, <2>3, <2>4
<1>2. SplitInv /\ NamesInv /\ DiskInv /\ [Next]_vars => (SplitInv /\ NamesInv /\ DiskInv)'
  BY SplitInvStep, NamesInvStep, DiskInvStep
<1> QED
  BY <1>1, <1>2, PTL DEF Spec

(* Unless one stem begins another, extensions and the case of letters aside,  *)
(* no two outputs share a file, on a disk with cases or without: what two of *)
(* their names have in common is then the whole of two stems, so both are   *)
(* named by one rule, and the second plain name of a stem is never taken.   *)
THEOREM SplitKeepsApart == Spec => []ApartIfNoneExtends
<1>1. SplitInv /\ NamesInv /\ DiskInv => ApartIfNoneExtends
  BY OutputsApart DEF ApartIfNoneExtends
<1> QED
  BY <1>1, SplitAllInv, PTL

(* Whatever the labels and wherever writing fails, every file is as the      *)
(* outputs so far have left it, the last one counting where two go to one    *)
(* file.  Unless one stem begins another, none is lost in this way: every    *)
(* output before the one that failed is whole, and the masters of a finished *)
(* split refer to files that hold just their components (the loops of split  *)
(* and write_bodies in src/src/bin/stepq.rs).                               *)
THEOREM SplitWritesInOrder == Spec => []WrittenInOrder
<1>1. SplitInv /\ NamesInv /\ DiskInv => WrittenInOrder
  BY DiskInOrder
<1> QED
  BY <1>1, SplitAllInv, PTL
=============================================================================
