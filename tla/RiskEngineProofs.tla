-------------------------- MODULE RiskEngineProofs ---------------------------
(***************************************************************************)
(* Theorems about RiskEngine, for any limits, attempts and bounds.         *)
(*                                                                         *)
(* The stream works on one record, the one after the committed offset.     *)
(* Every safety property follows from that, from what is already written   *)
(* when the stream comes to a step, and from the faults counted so far.    *)
(***************************************************************************)
EXTENDS RiskEngine, FiniteSetTheorems, TLAPS

\* The record in progress is the one after the committed offset.
OneRecord ==
  /\ pc = "idle" => position = committed
  /\ pc \notin {"down", "idle"} => position = committed + 1

\* What is written about the record in progress when the stream gets there.
WorkDone ==
  /\ pc = "breach" => decisions[position] > 0
  /\ pc = "commit" => decisions[position] > 0 \/ position \in dropped
  /\ pc = "recommit" => position \in dead \cup dropped

\* Every error that is counted apart was a fault.
FaultsCounted == unacked + uncommitted <= faults

\* A record may have a decision without a fault once it is committed, or when
\* the decision of this evaluation is out.
Entitled(i) ==
  i <= committed \/ (i = position /\ pc \in {"breach", "commit", "dlq", "recommit"})

DecisionsHaveCauses ==
  \A i \in Offsets : decisions[i] <= crashes + unacked + (IF Entitled(i) THEN 1 ELSE 0)

DeadSignals == {i \in dead : topic[i] = "signal"}

\* A signal on its way to the dead letters has paid for its place among them.
DeadSignalsHaveCauses ==
  /\ dead \subseteq 1..Len(topic)
  /\ Cardinality(DeadSignals) <= uncommitted
  /\ pc = "dlq" /\ topic[position] = "signal"
       => Cardinality(DeadSignals \ {position}) + 1 <= uncommitted

-----------------------------------------------------------------------------
IInv == TypeOK /\ OneRecord /\ FaultsCounted

LEMMA InitIInv == Init => IInv
<1> SUFFICES ASSUME Init PROVE IInv
  OBVIOUS
<1>1. topic \in Seq({"signal", "garbage"}) /\ Len(topic) = 0
  BY DEF Init
<1>2. byCheck \in BOOLEAN /\ halted \in BOOLEAN
  BY DEF Init
<1>3. /\ committed = 0 /\ position = 0 /\ pc = "down" /\ attempt = 0
      /\ decisions \in [Offsets -> Nat] /\ breaches \in [Offsets -> Nat]
      /\ dead \subseteq Offsets /\ dropped \subseteq Offsets
      /\ unacked = 0 /\ uncommitted = 0 /\ faults = 0 /\ crashes = 0
  BY DEF Init
<1> QED
  BY <1>1, <1>2, <1>3, BoundsAssumption DEF IInv, TypeOK, OneRecord, FaultsCounted

\* What is on the topic stays, and a step that does not publish leaves it alone.
LEMMA TopicGrows ==
  ASSUME TypeOK, NEW kind \in {"signal", "garbage"}, Publish(kind)
  PROVE  /\ topic' \in Seq({"signal", "garbage"})
         /\ Len(topic') = Len(topic) + 1
         /\ \A i \in 1..Len(topic) : topic'[i] = topic[i]
BY DEF TypeOK, Publish

\* The record in progress is on the topic.
LEMMA InProgressIsOnTopic ==
  ASSUME IInv, pc \notin {"down", "idle"}
  PROVE  position \in 1..Len(topic) /\ position \in Offsets
<1>1. Len(topic) \in Nat
  BY DEF IInv, TypeOK
<1> QED BY <1>1, BoundsAssumption DEF IInv, TypeOK, OneRecord, Offsets

\* A message counts for the record in progress: a breach, or else a decision.
LEMMA WriteEffect ==
  ASSUME TypeOK, position \in Offsets, NEW n \in Nat, Write(n)
  PROVE  /\ decisions' \in [Offsets -> Nat] /\ breaches' \in [Offsets -> Nat]
         /\ pc = "breach" => decisions' = decisions
         /\ pc # "breach" => breaches' = breaches
         /\ pc # "breach" => decisions'[position] = decisions[position] + n
         /\ \A i \in Offsets \ {position} :
               decisions'[i] = decisions[i] /\ breaches'[i] = breaches[i]
<1>1. decisions[position] + n \in Nat /\ breaches[position] + n \in Nat
  BY DEF TypeOK
<1>2. CASE pc = "breach"
  BY <1>1, <1>2 DEF TypeOK, Write, Counted
<1>3. CASE pc # "breach"
  BY <1>1, <1>3 DEF TypeOK, Write, Counted
<1> QED BY <1>2, <1>3

LEMMA NextIInv == IInv /\ [Next]_vars => IInv'
<1> SUFFICES ASSUME IInv, [Next]_vars PROVE IInv'
  OBVIOUS
<1> USE BoundsAssumption DEF IInv, TypeOK, OneRecord, FaultsCounted, stream, outcome, tallies
<1>0. Len(topic) \in Nat
  OBVIOUS
<1>a. pc \notin {"down", "idle"} => position \in 1..Len(topic) /\ position \in Offsets
  BY InProgressIsOnTopic
<1>1. ASSUME NEW kind \in {"signal", "garbage"}, Publish(kind) PROVE IInv'
  BY <1>0, <1>1, TopicGrows DEF Publish
<1>2. CASE Start
  BY <1>0, <1>a, <1>2 DEF Start
<1>3. CASE Take
  BY <1>0, <1>a, <1>3 DEF Take
<1>4. CASE Commit
  BY <1>0, <1>a, <1>4 DEF Commit
<1>5. CASE CommitFails
  BY <1>0, <1>a, <1>5 DEF CommitFails, Fault
<1>6. CASE SendToDlq
  BY <1>0, <1>a, <1>6 DEF SendToDlq, Fault, NoFault
<1>7. CASE RecommitFails
  BY <1>0, <1>a, <1>7 DEF RecommitFails, Fall, Fault
<1>8. CASE ReadBreaker
  <2>1. byCheck' \in BOOLEAN /\ halted' \in BOOLEAN
    BY <1>8 DEF ReadBreaker, Raises, Fault, NoFault
  <2>2. /\ pc' \in {"rejection", "approval", "checks", "commit"} /\ attempt' \in {attempt, 0}
        /\ dropped' \in {dropped, dropped \cup {position}}
        /\ faults' \in {faults, faults + 1} /\ faults' <= MaxFaults
        /\ pc \notin {"down", "idle"}
        /\ UNCHANGED <<stream, decisions, breaches, dead, tallies>>
    BY <1>8 DEF ReadBreaker, Raises, Fault, NoFault
  <2> QED
    BY <1>0, <1>a, <2>1, <2>2
<1>9. CASE RunChecks
  <2>1. byCheck' \in BOOLEAN /\ halted' \in BOOLEAN
    BY <1>9 DEF RunChecks, Raises, Fault, NoFault
  <2>2. /\ pc' \in {"rejection", "approval", "checks", "commit"} /\ attempt' \in {attempt, 0}
        /\ dropped' \in {dropped, dropped \cup {position}}
        /\ faults' \in {faults, faults + 1} /\ faults' <= MaxFaults
        /\ pc \notin {"down", "idle"}
        /\ UNCHANGED <<stream, decisions, breaches, dead, tallies>>
    BY <1>9 DEF RunChecks, Raises, Fault, NoFault
  <2> QED
    BY <1>0, <1>a, <2>1, <2>2
<1>10. CASE Sent
  <2>1. decisions' \in [Offsets -> Nat] /\ breaches' \in [Offsets -> Nat]
    <3>1. Write(1) /\ pc \notin {"down", "idle"}
      BY <1>10 DEF Sent, Sending
    <3> QED BY <1>a, <3>1, WriteEffect
  <2>2. /\ pc' \in {"breach", "commit"} /\ attempt' = 0
        /\ pc \notin {"down", "idle"}
    BY <1>10 DEF Sent, Sending
  <2>3. UNCHANGED <<stream, byCheck, halted, dead, dropped, tallies, faults>>
    BY <1>10 DEF Sent
  <2> QED
    BY <1>0, <1>a, <2>1, <2>2, <2>3
<1>11. CASE SendFails
  <2>1. PICK written \in {0, 1} : Write(written) /\ unacked' = unacked + written
    BY <1>11 DEF SendFails
  <2>2. decisions' \in [Offsets -> Nat] /\ breaches' \in [Offsets -> Nat]
    <3>1. pc \notin {"down", "idle"}
      BY <1>11 DEF SendFails, Sending
    <3> QED BY <1>a, <2>1, <3>1, WriteEffect
  <2>3. /\ pc' \in {pc, "commit"} /\ attempt' \in 0..MaxAttempts - 1
        /\ dropped' \in {dropped, dropped \cup {position}}
        /\ faults' = faults + 1 /\ faults' <= MaxFaults
        /\ pc \notin {"down", "idle"}
        /\ UNCHANGED <<stream, byCheck, halted, dead, uncommitted>>
    BY <1>11 DEF SendFails, Sending, Raises, Fault
  <2> QED
    BY <1>0, <1>a, <2>1, <2>2, <2>3
<1>12. CASE Crash
  BY <1>0, <1>a, <1>12 DEF Crash, Fall, NoFault
<1>13. CASE Halt
  BY <1>0, <1>a, <1>13 DEF Halt
<1>14. CASE UNCHANGED vars
  BY <1>0, <1>a, <1>14 DEF vars
<1> QED
  BY <1>1, <1>2, <1>3, <1>4, <1>5, <1>6, <1>7, <1>8, <1>9, <1>10, <1>11, <1>12, <1>13,
     <1>14 DEF Next, RunStep

LEMMA IInvHolds == Spec => []IInv
BY InitIInv, NextIInv, PTL DEF Spec

\* TypeOK: the committed offset never passes the position, the position never
\* passes the end of the topic, and send() keeps to its attempts.
THEOREM TypeCorrect == Spec => []TypeOK
<1>1. IInv => TypeOK
  BY DEF IInv
<1> QED BY <1>1, IInvHolds, PTL

-----------------------------------------------------------------------------
\* Nothing that was written is taken back, and only a commit moves the offset.
LEMMA NothingIsTakenBack ==
  ASSUME IInv, [Next]_vars
  PROVE  /\ \A i \in Offsets : decisions'[i] >= decisions[i]
         /\ dead \subseteq dead' /\ dropped \subseteq dropped'
         /\ committed' = committed \/ Commit
<1> USE DEF stream, outcome, tallies
<1>a. pc \notin {"down", "idle"} => position \in Offsets
  BY InProgressIsOnTopic
<1>b. decisions \in [Offsets -> Nat]
  BY DEF IInv, TypeOK
<1> DEFINE Grows == /\ \A i \in Offsets : decisions'[i] >= decisions[i]
                    /\ dead \subseteq dead' /\ dropped \subseteq dropped'
                    /\ committed' = committed \/ Commit
<1>1. ASSUME NEW kind \in {"signal", "garbage"}, Publish(kind) PROVE Grows
  BY <1>1, <1>b DEF Publish
<1>2. CASE Start \/ Take \/ Commit \/ CommitFails \/ Halt \/ UNCHANGED vars
  BY <1>2, <1>b DEF Start, Take, Commit, CommitFails, Halt, vars
<1>3. CASE SendToDlq
  BY <1>3, <1>b DEF SendToDlq
<1>4. CASE RecommitFails \/ Crash
  BY <1>4, <1>b DEF RecommitFails, Crash, Fall
<1>5. CASE ReadBreaker \/ RunChecks
  BY <1>5, <1>b DEF ReadBreaker, RunChecks, Raises
<1>6. CASE Sent
  <2>1. Write(1) /\ pc \notin {"down", "idle"} /\ UNCHANGED <<committed, dead, dropped>>
    BY <1>6 DEF Sent, Sending
  <2> QED BY <1>a, <1>b, <2>1, WriteEffect DEF IInv
<1>7. CASE SendFails
  <2>1. PICK n \in {0, 1} : Write(n)
    BY <1>7 DEF SendFails
  <2>2. pc \notin {"down", "idle"} /\ UNCHANGED <<committed, dead>> /\ dropped \subseteq dropped'
    BY <1>7 DEF SendFails, Sending, Raises
  <2> QED BY <1>a, <1>b, <2>1, <2>2, WriteEffect DEF IInv
<1> QED BY <1>1, <1>2, <1>3, <1>4, <1>5, <1>6, <1>7 DEF Next, RunStep

\* WorkDone holds when the stream comes to a step, whatever it did before.
LEMMA NextWorkDone == IInv /\ WorkDone /\ [Next]_vars => WorkDone'
<1> SUFFICES ASSUME IInv, WorkDone, [Next]_vars PROVE WorkDone'
  OBVIOUS
<1> USE DEF WorkDone, stream, outcome, tallies
<1>a. pc \notin {"down", "idle"} => position \in Offsets
  BY InProgressIsOnTopic
<1>1. ASSUME NEW kind \in {"signal", "garbage"}, Publish(kind) PROVE WorkDone'
  BY <1>1 DEF Publish
<1>2. CASE Start \/ Take \/ Commit \/ CommitFails \/ Halt \/ UNCHANGED vars
  BY <1>2 DEF Start, Take, Commit, CommitFails, Halt, vars
<1>3. CASE SendToDlq
  BY <1>3 DEF SendToDlq
<1>4. CASE RecommitFails \/ Crash
  BY <1>4 DEF RecommitFails, Crash, Fall
<1>5. CASE ReadBreaker
  BY <1>5 DEF ReadBreaker, Raises
<1>6. CASE RunChecks
  BY <1>6 DEF RunChecks, Raises
<1>7. CASE Sent
  <2>1. /\ Write(1) /\ pc \notin {"down", "idle"} /\ pc' \in {"breach", "commit"}
        /\ position' = position
    BY <1>7 DEF Sent, Sending
  <2>2. decisions[position] \in Nat /\ position \in Offsets
    BY <1>a, <2>1 DEF IInv, TypeOK
  <2>3. decisions'[position] > 0
    BY <2>1, <2>2, WriteEffect DEF IInv
  <2> QED BY <2>1, <2>3
<1>8. CASE SendFails
  <2>1. PICK n \in {0, 1} : Write(n)
    BY <1>8 DEF SendFails
  <2>2. /\ pc \in Sending /\ position' = position
        /\ pc' = pc \/ (pc' = "commit" /\ position \in dropped')
    BY <1>8 DEF SendFails, Raises
  <2>3. position \in Offsets
    BY <1>a, <2>2 DEF Sending
  <2>4. pc = "breach" => decisions' = decisions
    BY <2>1, <2>3, WriteEffect DEF IInv
  <2> QED BY <2>2, <2>4 DEF Sending
<1> QED BY <1>1, <1>2, <1>3, <1>4, <1>5, <1>6, <1>7, <1>8 DEF Next, RunStep

\* CommittedWasHandled: the stream commits after the work, also when the commit
\* is the one after a dead letter.
THEOREM CommittedRecordsWereHandled == Spec => []CommittedWasHandled
<1> DEFINE Inv == WorkDone /\ CommittedWasHandled
<1>1. Init => Inv
  BY DEF Init, WorkDone, CommittedWasHandled
<1>2. IInv /\ IInv' /\ Inv /\ [Next]_vars => Inv'
  <2> SUFFICES ASSUME IInv, IInv', Inv, [Next]_vars PROVE CommittedWasHandled'
    BY NextWorkDone
  <2>1. SUFFICES ASSUME NEW i \in 1..committed'
                 PROVE  decisions'[i] > 0 \/ i \in dead' \cup dropped'
    BY DEF CommittedWasHandled
  <2>2. i \in Offsets /\ decisions[i] \in Nat /\ decisions'[i] \in Nat
    <3>1. Len(topic') \in Nat
      BY DEF IInv, TypeOK
    <3>2. i \in Offsets
      BY <3>1, BoundsAssumption DEF IInv, TypeOK, Offsets
    <3> QED BY <3>2 DEF IInv, TypeOK
  <2>3. decisions[i] > 0 \/ i \in dead \cup dropped
    <3>1. CASE i \in 1..committed
      BY <3>1 DEF CommittedWasHandled
    <3>2. CASE i \notin 1..committed
      <4>1. Commit
        BY <3>2, NothingIsTakenBack
      <4>2. i = position
        <5>1. committed' = position /\ position = committed + 1
          BY <4>1 DEF Commit, IInv, OneRecord
        <5>2. committed \in Nat
          BY DEF IInv, TypeOK
        <5> QED BY <3>2, <5>1, <5>2
      <4> QED BY <4>1, <4>2 DEF Commit, WorkDone
    <3> QED BY <3>1, <3>2
  <2> QED BY <2>2, <2>3, NothingIsTakenBack
<1> QED BY <1>1, <1>2, IInvHolds, PTL DEF Spec

-----------------------------------------------------------------------------
\* BreachHasDecision: the rejection is written before its breach is tried, and
\* an attempt of the breach that failed may have written it too.
THEOREM BreachesFollowDecisions == Spec => []BreachHasDecision
<1> DEFINE Inv == WorkDone /\ BreachHasDecision
<1>1. Init => Inv
  BY DEF Init, WorkDone, BreachHasDecision, Offsets
<1>2. IInv /\ Inv /\ [Next]_vars => Inv'
  <2> SUFFICES ASSUME IInv, Inv, [Next]_vars PROVE BreachHasDecision'
    BY NextWorkDone
  <2> SUFFICES ASSUME NEW i \in Offsets, breaches'[i] > 0 PROVE decisions'[i] > 0
    BY DEF BreachHasDecision
  <2>1. decisions[i] \in Nat /\ decisions'[i] >= decisions[i] /\ decisions'[i] \in Nat
    BY NothingIsTakenBack, NextIInv DEF IInv, TypeOK
  <2>2. CASE breaches' = breaches
    BY <2>1, <2>2 DEF BreachHasDecision
  <2>3. ASSUME NEW n \in Nat, pc \in Sending, Write(n) PROVE decisions'[i] > 0
    <3>1. position \in Offsets
      BY <2>3, InProgressIsOnTopic DEF Sending
    <3>2. CASE pc = "breach" /\ i = position
      BY <2>1, <3>2 DEF WorkDone
    <3>3. CASE pc # "breach" \/ i # position
      <4>1. breaches'[i] = breaches[i]
        BY <2>3, <3>1, <3>3, WriteEffect DEF IInv
      <4> QED BY <2>1, <4>1 DEF BreachHasDecision
    <3> QED BY <3>2, <3>3
  <2>4. breaches' = breaches \/ (pc \in Sending /\ \E n \in Nat : Write(n))
    <3>1. CASE Sent
      BY <3>1 DEF Sent
    <3>2. CASE SendFails
      BY <3>2 DEF SendFails
    <3>3. CASE ~Sent /\ ~SendFails
      BY <3>3 DEF Next, RunStep, vars, outcome, Publish, Start, Take, Commit, CommitFails,
         SendToDlq, RecommitFails, Crash, Fall, ReadBreaker, RunChecks, Halt
    <3> QED BY <3>1, <3>2, <3>3
  <2> QED BY <2>2, <2>3, <2>4
<1> QED BY <1>1, <1>2, IInvHolds, PTL DEF Spec

-----------------------------------------------------------------------------
\* Every decision but one per record is paid for by a crash or by an attempt
\* that was written and failed.
LEMMA NextDecisionsHaveCauses ==
  ASSUME IInv, IInv', DecisionsHaveCauses, [Next]_vars
  PROVE  DecisionsHaveCauses'
<1> USE DEF DecisionsHaveCauses, Entitled, stream, outcome, tallies
<1>0. /\ committed \in Int /\ position \in Int /\ crashes \in Int /\ unacked \in Int
      /\ decisions \in [Offsets -> Nat] /\ Offsets \subseteq Int
  BY BoundsAssumption DEF IInv, TypeOK, Offsets
<1>1. ASSUME NEW kind \in {"signal", "garbage"}, Publish(kind) PROVE DecisionsHaveCauses'
  <2>1. UNCHANGED <<committed, position, pc, crashes, unacked, decisions>>
    BY <1>1 DEF Publish
  <2> QED BY <2>1
<1>2. CASE Start
  BY <1>0, <1>2 DEF Start
<1>3. CASE Take
  BY <1>0, <1>3 DEF Take, IInv, OneRecord
<1>4. CASE Commit
  BY <1>0, <1>4 DEF Commit, IInv, OneRecord
<1>5. CASE CommitFails
  BY <1>0, <1>5 DEF CommitFails
<1>6. CASE SendToDlq
  BY <1>0, <1>6 DEF SendToDlq
<1>7. CASE RecommitFails \/ Crash
  BY <1>0, <1>7 DEF RecommitFails, Crash, Fall
<1>8. CASE ReadBreaker
  BY <1>0, <1>8 DEF ReadBreaker, Raises
<1>9. CASE RunChecks
  BY <1>0, <1>9 DEF RunChecks, Raises
<1>10. ASSUME pc \in Sending, NEW n \in {0, 1}, Write(n),
              crashes' = crashes, committed' = committed, position' = position,
              \/ n = 1 /\ unacked' = unacked /\ pc' \in {"breach", "commit"}
              \/ unacked' = unacked + n /\ pc' \in {pc, "commit"}
       PROVE  DecisionsHaveCauses'
  <2>1. position \in Offsets /\ position = committed + 1
    BY <1>10, InProgressIsOnTopic DEF Sending, IInv, OneRecord
  <2>2. /\ pc = "breach" => decisions' = decisions
        /\ pc # "breach" => decisions'[position] = decisions[position] + n
        /\ \A i \in Offsets \ {position} : decisions'[i] = decisions[i]
    BY <1>10, <2>1, WriteEffect DEF IInv
  <2>3. SUFFICES ASSUME NEW i \in Offsets
                 PROVE  decisions'[i] <= crashes' + unacked' + (IF Entitled(i)' THEN 1 ELSE 0)
    OBVIOUS
  <2>4. decisions[i] \in Int /\ i \in Int
    BY <1>0
  <2>5. CASE i = position
    BY <1>0, <1>10, <2>1, <2>2, <2>4, <2>5 DEF Sending
  <2>6. CASE i # position
    BY <1>0, <1>10, <2>1, <2>2, <2>4, <2>6 DEF Sending
  <2> QED BY <2>5, <2>6
<1>11. CASE Sent
  BY <1>10, <1>11 DEF Sent
<1>12. CASE SendFails
  BY <1>10, <1>12 DEF SendFails, Raises
<1>13. CASE Halt \/ UNCHANGED vars
  BY <1>0, <1>13 DEF Halt, vars
<1> QED
  BY <1>1, <1>2, <1>3, <1>4, <1>5, <1>6, <1>7, <1>8, <1>9, <1>11, <1>12, <1>13
  DEF Next, RunStep

\* DecidedAgainOnlyAfterFailure: the stream takes a record again only after a
\* crash, and send() writes again only after an attempt it thought had failed.
THEOREM DecisionsAreBounded == Spec => []DecidedAgainOnlyAfterFailure
<1>1. Init => DecisionsHaveCauses
  BY DEF Init, DecisionsHaveCauses, Entitled
<1>2. IInv /\ DecisionsHaveCauses => DecidedAgainOnlyAfterFailure
  <2> SUFFICES ASSUME IInv, DecisionsHaveCauses, NEW i \in Offsets
               PROVE  decisions[i] <= 1 + crashes + unacked
    BY DEF DecidedAgainOnlyAfterFailure
  <2>1. decisions[i] \in Int /\ crashes \in Int /\ unacked \in Int
    BY DEF IInv, TypeOK
  <2> QED BY <2>1 DEF DecisionsHaveCauses
<1> QED BY <1>1, <1>2, NextDecisionsHaveCauses, IInvHolds, PTL DEF Spec

-----------------------------------------------------------------------------
\* The dead letters that parse are finitely many, with or without the record in
\* progress.
LEMMA DeadSignalsAreFinite ==
  ASSUME IInv
  PROVE  /\ IsFiniteSet(DeadSignals)
         /\ Cardinality(DeadSignals) \in Nat
         /\ Cardinality(DeadSignals \ {position}) \in Nat
         /\ Cardinality(DeadSignals \ {position}) <= Cardinality(DeadSignals)
         /\ Cardinality(DeadSignals \cup {position})
              = Cardinality(DeadSignals \ {position}) + 1
<1>1. IsFiniteSet(Offsets)
  BY BoundsAssumption, FS_Interval DEF Offsets
<1>2. IsFiniteSet(DeadSignals)
  BY <1>1, FS_Subset DEF DeadSignals, IInv, TypeOK
<1>3. /\ IsFiniteSet(DeadSignals \ {position})
      /\ Cardinality(DeadSignals \ {position}) <= Cardinality(DeadSignals)
  BY <1>2, FS_Subset
<1>4. DeadSignals \cup {position} = (DeadSignals \ {position}) \cup {position}
  OBVIOUS
<1>5. Cardinality((DeadSignals \ {position}) \cup {position})
        = Cardinality(DeadSignals \ {position}) + 1
  BY <1>3, FS_AddElement
<1> QED BY <1>2, <1>3, <1>4, <1>5, FS_CardinalityType

LEMMA NextDeadSignalsHaveCauses ==
  ASSUME IInv, DeadSignalsHaveCauses, [Next]_vars
  PROVE  DeadSignalsHaveCauses'
<1> USE DEF DeadSignalsHaveCauses, stream, outcome, tallies
<1>0. uncommitted \in Int /\ Len(topic) \in Nat
  BY DEF IInv, TypeOK
<1>1. ASSUME NEW kind \in {"signal", "garbage"}, Publish(kind)
      PROVE  DeadSignalsHaveCauses'
  <2>1. UNCHANGED <<pc, position, dead, uncommitted>>
    BY <1>1 DEF Publish
  <2>2. /\ \A i \in 1..Len(topic) : topic'[i] = topic[i]
        /\ Len(topic') = Len(topic) + 1
    BY <1>1, TopicGrows DEF IInv
  <2>3. dead' \subseteq 1..Len(topic')
    BY <1>0, <2>1, <2>2
  <2>4. DeadSignals' = DeadSignals
    BY <2>1, <2>2 DEF DeadSignals
  <2>5. pc = "dlq" => topic'[position] = topic[position]
    BY <2>2, InProgressIsOnTopic
  <2> QED BY <2>1, <2>3, <2>4, <2>5
<1>2. ASSUME UNCHANGED <<topic, position, dead, uncommitted>>, pc' # "dlq" \/ pc' = pc
      PROVE  DeadSignalsHaveCauses'
  <2>1. DeadSignals' = DeadSignals
    BY <1>2 DEF DeadSignals
  <2> QED BY <1>2, <2>1
<1>3. CASE Start
  <2>1. DeadSignals' = DeadSignals /\ pc' # "dlq" /\ UNCHANGED <<topic, dead, uncommitted>>
    BY <1>3 DEF Start, DeadSignals
  <2> QED BY <2>1
<1>4. CASE Take
  <2>1. /\ DeadSignals' = DeadSignals /\ UNCHANGED <<topic, dead, uncommitted>>
        /\ pc' = "dlq" => topic'[position'] = "garbage"
    BY <1>4 DEF Take, DeadSignals
  <2> QED BY <2>1
<1>5. CASE CommitFails
  <2>1. /\ DeadSignals' = DeadSignals /\ UNCHANGED <<topic, position, dead>>
        /\ uncommitted' = uncommitted + 1
    BY <1>5 DEF CommitFails, DeadSignals
  <2>2. /\ Cardinality(DeadSignals) \in Nat /\ Cardinality(DeadSignals \ {position}) \in Nat
        /\ Cardinality(DeadSignals \ {position}) <= Cardinality(DeadSignals)
    BY DeadSignalsAreFinite
  <2> QED BY <1>0, <2>1, <2>2
<1>6. CASE SendToDlq
  <2>1. /\ UNCHANGED <<topic, position, uncommitted>> /\ pc = "dlq" /\ pc' = "recommit"
        /\ dead' = dead \/ dead' = dead \cup {position}
    BY <1>6 DEF SendToDlq
  <2>2. CASE dead' = dead \/ topic[position] # "signal"
    <3>1. DeadSignals' = DeadSignals
      BY <2>1, <2>2 DEF DeadSignals
    <3>2. dead' \subseteq 1..Len(topic')
      BY <2>1, InProgressIsOnTopic
    <3> QED BY <2>1, <3>1, <3>2
  <2>3. CASE dead' = dead \cup {position} /\ topic[position] = "signal"
    <3>1. DeadSignals' = DeadSignals \cup {position}
      BY <2>1, <2>3 DEF DeadSignals
    <3>2. dead' \subseteq 1..Len(topic')
      BY <2>1, InProgressIsOnTopic
    <3>3. Cardinality(DeadSignals') <= uncommitted'
      BY <2>1, <2>3, <3>1, DeadSignalsAreFinite
    <3> QED BY <2>1, <3>2, <3>3
  <2> QED BY <2>1, <2>2, <2>3
<1>7. CASE Commit
  BY <1>2, <1>7 DEF Commit
<1>8. CASE RecommitFails \/ Crash
  BY <1>2, <1>8 DEF RecommitFails, Crash, Fall
<1>9. CASE ReadBreaker
  BY <1>2, <1>9 DEF ReadBreaker, Raises
<1>10. CASE RunChecks
  BY <1>2, <1>10 DEF RunChecks, Raises
<1>11. CASE Sent
  <2>1. UNCHANGED <<topic, position, dead, uncommitted>> /\ pc' # "dlq"
    BY <1>11 DEF Sent
  <2> QED BY <1>2, <2>1
<1>12. CASE SendFails
  <2>1. UNCHANGED <<topic, position, dead, uncommitted>> /\ (pc' = pc \/ pc' = "commit")
    BY <1>12 DEF SendFails, Raises
  <2> QED BY <1>2, <2>1
<1>13. CASE Halt \/ UNCHANGED vars
  BY <1>2, <1>13 DEF Halt, vars
<1> QED
  BY <1>1, <1>3, <1>4, <1>5, <1>6, <1>7, <1>8, <1>9, <1>10, <1>11, <1>12, <1>13
  DEF Next, RunStep

\* DeadSignalsHadACommitFailure: a signal that parses is sent to the dead letters
\* by a commit that raised, so there are no more of them than such commits.
THEOREM DeadSignalsAreBounded == Spec => []DeadSignalsHadACommitFailure
<1>1. Init => DeadSignalsHaveCauses
  <2> SUFFICES ASSUME Init PROVE DeadSignalsHaveCauses
    OBVIOUS
  <2>1. DeadSignals = {} /\ dead = {} /\ uncommitted = 0 /\ pc = "down"
    BY DEF Init, DeadSignals
  <2> QED BY <2>1, FS_EmptySet DEF DeadSignalsHaveCauses
<1>2. DeadSignalsHaveCauses => DeadSignalsHadACommitFailure
  BY DEF DeadSignalsHaveCauses, DeadSignals, DeadSignalsHadACommitFailure
<1> QED BY <1>1, <1>2, NextDeadSignalsHaveCauses, IInvHolds, PTL DEF Spec
=============================================================================
