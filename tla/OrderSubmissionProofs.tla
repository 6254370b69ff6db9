------------------------- MODULE OrderSubmissionProofs -----------------------
(***************************************************************************)
(* Theorems about OrderSubmission, for any keys, any calls and any number  *)
(* of exceptions, lost processes and lost answers.                         *)
(***************************************************************************)
EXTENDS OrderSubmission, TLAPS

\* A call past its insert has a row, and so has a key the broker accepted.
Inserted ==
  /\ \A c \in Calls : call[c].pc \in PastInsert => row[KeyOf[c]] # Absent
  /\ \A k \in Keys : acceptances[k] > 0 \/ broker[k] = "live" => row[k] # Absent

\* A key is accepted once, and not while a call has yet to submit it.
SubmittedOnce ==
  /\ AcceptedOnce
  /\ \A c \in Calls :
       call[c].pc \in {"persisted", "approved"} => acceptances[KeyOf[c]] = 0

\* What the call that works on a row knows of it.
RowOfOwner ==
  \A c \in Calls :
    /\ call[c].pc = "persisted" => row[KeyOf[c]] = "PENDING_RISK"
    /\ call[c].pc \in {"approved", "accepted"} => row[KeyOf[c]] = "RISK_APPROVED"
    /\ call[c].pc = "recorded" => row[KeyOf[c]] \in {"SUBMITTED", "ACKNOWLEDGED"}
    /\ errors = 0 /\ call[c].pc \in {"refusing", "rejecting"} =>
         row[KeyOf[c]] = "RISK_APPROVED" /\ broker[KeyOf[c]] = "refused"
    /\ errors = 0 /\ call[c].pc = "rejecting" => call[c].seen = "RISK_APPROVED"

\* With the Redis key set, only calls that had passed it are under way.
RacingWhenSet == halt.on => InFlight \subseteq halt.racing

IInv ==
  /\ TypeOK
  /\ Inserted
  /\ OneOwner
  /\ SubmittedOnce
  /\ RowOfOwner
  /\ LiveIsOnRecord
  /\ RacingWhenSet
  /\ OnlyRacingOrdersAppear

-----------------------------------------------------------------------------
CallRecord == [pc : Points, seen : Statuses \cup {Absent}, outcome : Outcomes]

\* A step of call c that may change where it is, what it has seen and its outcome.
Moves(c) ==
  /\ call' \in [Calls -> CallRecord]
  /\ \A d \in Calls \ {c} : call'[d] = call[d]

LEMMA GotoMoves ==
  ASSUME TypeOK, NEW c \in Calls, NEW p \in Points, Goto(c, p)
  PROVE  Moves(c) /\ call'[c].pc = p /\ call'[c].seen = call[c].seen
<1>1. call \in [Calls -> CallRecord]
  BY DEF TypeOK, CallRecord
<1>2. /\ call' = [call EXCEPT ![c].pc = p]
      /\ call'[c] = [call[c] EXCEPT !.pc = p]
  BY <1>1 DEF Goto
<1>3. call'[c] \in CallRecord
  BY <1>1, <1>2 DEF CallRecord
<1>4. call'[c].pc = p /\ call'[c].seen = call[c].seen
  BY <1>1, <1>2 DEF CallRecord
<1>5. call' = [call EXCEPT ![c] = call'[c]]
  BY <1>1, <1>2
<1> QED BY <1>1, <1>3, <1>4, <1>5 DEF Moves

LEMMA EndMoves ==
  ASSUME TypeOK, NEW c \in Calls, NEW outcome \in Outcomes, End(c, outcome)
  PROVE  Moves(c) /\ call'[c].pc = "done"
<1>1. call \in [Calls -> CallRecord]
  BY DEF TypeOK, CallRecord
<1>2. /\ call' = [call EXCEPT ![c].pc = "done", ![c].outcome = outcome]
      /\ call'[c] = [call[c] EXCEPT !.pc = "done", !.outcome = outcome]
  BY <1>1 DEF End
<1>3. call'[c] \in CallRecord /\ call'[c].pc = "done"
  <2>1. "done" \in Points /\ call[c] \in CallRecord
    BY <1>1 DEF Points
  <2> QED BY <1>2, <2>1 DEF CallRecord
<1>4. call' = [call EXCEPT ![c] = call'[c]]
  BY <1>1, <1>2
<1> QED BY <1>1, <1>3, <1>4 DEF Moves

\* Writing a row changes that row only.
LEMMA WriteRow ==
  ASSUME TypeOK, NEW k \in Keys, NEW t \in Statuses, Write(k, t)
  PROVE  /\ row' \in [Keys -> Statuses \cup {Absent}]
         /\ row'[k] = t
         /\ \A j \in Keys \ {k} : row'[j] = row[j]
BY DEF TypeOK, Write

\* The statuses are not the value that stands for no row.
LEMMA StatusIsNotAbsent == Absent \notin Statuses
BY DEF Absent, Statuses

-----------------------------------------------------------------------------
\* A call that does not get past the insert, or that ends, disturbs nothing.
LEMMA QuietStep ==
  ASSUME IInv, NEW c \in Calls, Moves(c), call'[c].pc \notin PastInsert,
         UNCHANGED <<row, broker, acceptances, halt>>,
         breaker' \in BOOLEAN, errors' \in 0..MaxErrors, faults' \in 0..MaxFaults,
         errors' = 0 => errors = 0,
         call[c].pc \in {"start", "done"} /\ call'[c].pc # "done" =>
           call[c].pc = "start" /\ ~halt.on
  PROVE  IInv'
<1>0. \A d \in Calls \ {c} : call'[d] = call[d]
  BY DEF Moves
<1>1. TypeOK'
  <2>1. call' \in [Calls -> CallRecord]
    BY DEF Moves
  <2> QED BY <2>1 DEF IInv, TypeOK, CallRecord
<1>2. Inserted'
  BY <1>0 DEF IInv, Inserted
<1>3. OneOwner'
  BY <1>0 DEF IInv, OneOwner
<1>4. SubmittedOnce'
  BY <1>0 DEF IInv, SubmittedOnce, AcceptedOnce, PastInsert
<1>5. RowOfOwner'
  BY <1>0 DEF IInv, RowOfOwner, PastInsert
<1>6. LiveIsOnRecord'
  BY DEF IInv, LiveIsOnRecord
<1>7. RacingWhenSet'
  <2>1. SUFFICES ASSUME halt.on, NEW d \in InFlight' PROVE d \in halt.racing
    BY DEF RacingWhenSet
  <2>2. d \in InFlight
    BY <1>0, <2>1 DEF InFlight, At
  <2> QED BY <2>1, <2>2 DEF IInv, RacingWhenSet
<1>8. OnlyRacingOrdersAppear'
  BY DEF IInv, OnlyRacingOrdersAppear
<1> QED BY <1>1, <1>2, <1>3, <1>4, <1>5, <1>6, <1>7, <1>8 DEF IInv

\* In particular a call that ends without writing anything.
LEMMA QuietEnd ==
  ASSUME IInv, NEW c \in Calls, NEW outcome \in Outcomes, End(c, outcome),
         UNCHANGED <<row, broker, acceptances, halt, breaker>>,
         errors' \in 0..MaxErrors, faults' \in 0..MaxFaults, errors' = 0 => errors = 0
  PROVE  IInv'
<1>1. Moves(c) /\ call'[c].pc = "done"
  BY EndMoves DEF IInv
<1>2. breaker' \in BOOLEAN
  BY DEF IInv, TypeOK
<1> QED BY <1>1, <1>2, QuietStep DEF PastInsert

\* Steps 0 to 4, and what ends a call later.
LEMMA GatesKeep ==
  ASSUME IInv, NEW c \in Calls,
         CheckKillSwitch(c) \/ CheckBreaker(c) \/ Lookup(c) \/ Validate(c)
  PROVE  IInv'
<1>0. /\ UNCHANGED <<row, broker, acceptances, halt, breaker, errors, faults>>
      /\ breaker \in BOOLEAN /\ errors \in 0..MaxErrors /\ faults \in 0..MaxFaults
  BY DEF IInv, TypeOK, CheckKillSwitch, CheckBreaker, Lookup, Validate, switches, counters
<1>1. CASE \E o \in Outcomes : End(c, o)
  BY <1>0, <1>1, QuietEnd
<1>2. CASE \E p \in {"gated", "checked", "valid"} :
             /\ Goto(c, p) /\ call[c].pc # "done"
             /\ call[c].pc = "start" => ~halt.on
  <2>1. PICK p \in {"gated", "checked", "valid"} :
          /\ Goto(c, p) /\ call[c].pc # "done"
          /\ call[c].pc = "start" => ~halt.on
    BY <1>2
  <2>2. p \in Points /\ p \notin PastInsert
    BY DEF Points, PastInsert
  <2>3. Moves(c) /\ call'[c].pc = p
    BY <2>1, <2>2, GotoMoves DEF IInv
  <2> QED BY <1>0, <2>1, <2>2, <2>3, QuietStep
<1>3. CASE Lookup(c)
  <2> DEFINE r == row[KeyOf[c]]
             next == IF r \in Resubmittable \cup {Absent}
                     THEN [pc |-> "fresh", seen |-> r, outcome |-> "none"]
                     ELSE [pc |-> "done", seen |-> r, outcome |-> "existing"]
  <2>1. call' = [call EXCEPT ![c] = next] /\ call[c].pc = "checked"
    BY <1>3 DEF Lookup, At
  <2>2. r \in Statuses \cup {Absent}
    BY CallsAssumption DEF IInv, TypeOK
  <2>3. next \in CallRecord /\ next.pc \in {"fresh", "done"}
    BY <2>2 DEF CallRecord, Points, Outcomes
  <2>4. call \in [Calls -> CallRecord]
    BY DEF IInv, TypeOK, CallRecord
  <2> HIDE DEF next
  <2>5. Moves(c) /\ call'[c].pc \in {"fresh", "done"}
    BY <2>1, <2>3, <2>4 DEF Moves
  <2> QED BY <1>0, <2>1, <2>5, QuietStep DEF PastInsert
<1>4. CASE CheckKillSwitch(c)
  BY <1>1, <1>2, <1>4 DEF CheckKillSwitch, Outcomes, At
<1>5. CASE CheckBreaker(c)
  BY <1>1, <1>2, <1>5 DEF CheckBreaker, Outcomes, At
<1>6. CASE Validate(c)
  BY <1>1, <1>2, <1>6 DEF Validate, Outcomes, At
<1> QED BY <1>3, <1>4, <1>5, <1>6

-----------------------------------------------------------------------------
\* From its insert on, a call has the row of its key to itself; and a key without
\* a row has no call past its insert.
LEMMA Alone ==
  ASSUME IInv, NEW c \in Calls, call[c].pc \in PastInsert \/ row[KeyOf[c]] = Absent,
         NEW d \in Calls \ {c}, call[d].pc \in PastInsert
  PROVE  KeyOf[d] # KeyOf[c]
BY DEF IInv, OneOwner, Inserted

LEMMA OwnerKeeps ==
  ASSUME IInv, NEW c \in Calls, Moves(c), call[c].pc \notin {"start", "done"},
         call[c].pc \in PastInsert \/ row[KeyOf[c]] = Absent, UNCHANGED halt
  PROVE  OneOwner' /\ RacingWhenSet'
<1>0. \A d \in Calls \ {c} : call'[d] = call[d]
  BY DEF Moves
<1>1. OneOwner'
  BY <1>0, Alone DEF IInv, OneOwner
<1>2. RacingWhenSet'
  <2>1. SUFFICES ASSUME halt.on, NEW d \in InFlight' PROVE d \in halt.racing
    BY DEF RacingWhenSet
  <2>2. d \in InFlight
    BY <1>0, <2>1 DEF InFlight, At
  <2> QED BY <2>1, <2>2 DEF IInv, RacingWhenSet
<1> QED BY <1>1, <1>2

\* Steps 5, 6 and 8: a call goes from p to q and writes the status t.  The broker
\* is left alone.
LEMMA WriteKeeps ==
  ASSUME IInv, NEW c \in Calls, NEW t \in Statuses, NEW q \in Points,
         Write(KeyOf[c], t), Goto(c, q),
         \/ /\ call[c].pc = "valid" /\ row[KeyOf[c]] = Absent
            /\ q = "persisted" /\ t = "PENDING_RISK"
         \/ call[c].pc = "persisted" /\ q = "approved" /\ t = "RISK_APPROVED"
         \/ call[c].pc = "accepted" /\ q = "recorded" /\ t = "SUBMITTED",
         UNCHANGED <<broker, acceptances, halt, breaker, errors, faults>>
  PROVE  IInv'
<1> DEFINE k == KeyOf[c]
<1>1. k \in Keys
  BY CallsAssumption
<1>2. Moves(c) /\ call'[c].pc = q
  BY GotoMoves DEF IInv
<1>3. \A d \in Calls \ {c} : call'[d] = call[d]
  BY <1>2 DEF Moves
<1>4. /\ row' \in [Keys -> Statuses \cup {Absent}] /\ row'[k] = t /\ t # Absent
      /\ \A j \in Keys \ {k} : row'[j] = row[j]
  BY <1>1, WriteRow, StatusIsNotAbsent DEF IInv
<1>5. call[c].pc \in PastInsert \/ row[k] = Absent
  BY DEF PastInsert
<1>6. \A d \in Calls \ {c} : call[d].pc \in PastInsert => KeyOf[d] # k
  BY <1>5, Alone
<1>7. TypeOK'
  <2>1. call' \in [Calls -> CallRecord]
    BY <1>2 DEF Moves
  <2> QED BY <2>1, <1>4 DEF IInv, TypeOK, CallRecord
<1>8. Inserted'
  BY <1>3, <1>4, CallsAssumption DEF IInv, Inserted
<1>9. OneOwner' /\ RacingWhenSet'
  BY <1>2, <1>5, OwnerKeeps
<1>10. SubmittedOnce'
  <2>1. call'[c].pc \in {"persisted", "approved"} => acceptances[k] = 0
    <3>1. CASE q = "persisted"
      BY <1>1, <3>1 DEF IInv, Inserted, TypeOK
    <3>2. CASE q # "persisted"
      BY <1>2, <3>2 DEF IInv, SubmittedOnce
    <3> QED BY <3>1, <3>2
  <2> QED BY <2>1, <1>3 DEF IInv, SubmittedOnce, AcceptedOnce
<1>11. RowOfOwner'
  <2>1. SUFFICES ASSUME NEW d \in Calls \ {c}, call[d].pc \in PastInsert
                 PROVE  row'[KeyOf[d]] = row[KeyOf[d]]
    BY <1>2, <1>3, <1>4 DEF IInv, RowOfOwner, PastInsert
  <2> QED BY <1>4, <1>6, <2>1, CallsAssumption
<1>12. LiveIsOnRecord'
  <2>1. SUFFICES ASSUME errors = 0, NEW j \in Keys, broker[j] = "live"
                 PROVE  row'[j] \in {"RISK_APPROVED", "SUBMITTED", "ACKNOWLEDGED"}
    BY DEF LiveIsOnRecord
  <2>2. row[j] # Absent /\ row[j] \in {"RISK_APPROVED", "SUBMITTED", "ACKNOWLEDGED"}
    BY <2>1 DEF IInv, LiveIsOnRecord, Inserted
  <2> QED BY <1>4, <2>2
<1>13. OnlyRacingOrdersAppear'
  BY DEF IInv, OnlyRacingOrdersAppear
<1> QED BY <1>7, <1>8, <1>9, <1>10, <1>11, <1>12, <1>13 DEF IInv

LEMMA PersistKeeps ==
  ASSUME IInv, NEW c \in Calls, Persist(c) PROVE IInv'
<1>1. /\ call[c].pc = "valid" /\ errors \in 0..MaxErrors /\ faults \in 0..MaxFaults
      /\ UNCHANGED <<broker, acceptances, halt, breaker, errors, faults>>
  BY DEF Persist, At, switches, counters, IInv, TypeOK
<1>2. CASE row[KeyOf[c]] = Absent
  BY <1>1, <1>2, WriteKeeps DEF Persist, Statuses, Points
<1>3. CASE row[KeyOf[c]] # Absent
  BY <1>1, <1>3, QuietEnd DEF Persist, Outcomes
<1> QED BY <1>2, <1>3

LEMMA ApproveKeeps ==
  ASSUME IInv, NEW c \in Calls, Approve(c) PROVE IInv'
<1>1. /\ call[c].pc = "persisted" /\ errors \in 0..MaxErrors /\ faults \in 0..MaxFaults
      /\ UNCHANGED <<broker, acceptances, halt, breaker, errors, faults>>
  BY DEF Approve, At, switches, counters, IInv, TypeOK
<1>2. \/ Write(KeyOf[c], "RISK_APPROVED") /\ Goto(c, "approved")
      \/ UNCHANGED row /\ End(c, "error")
  BY DEF Approve, Transition
<1> QED BY <1>1, <1>2, WriteKeeps, QuietEnd DEF Statuses, Points, Outcomes

LEMMA RecordKeeps ==
  ASSUME IInv, NEW c \in Calls, Record(c) PROVE IInv'
<1>1. /\ call[c].pc = "accepted" /\ errors \in 0..MaxErrors /\ faults \in 0..MaxFaults
      /\ UNCHANGED <<broker, acceptances, halt, breaker, errors, faults>>
  BY DEF Record, At, switches, counters, IInv, TypeOK
<1>2. \/ Write(KeyOf[c], "SUBMITTED") /\ Goto(c, "recorded")
      \/ UNCHANGED row /\ End(c, "error")
  BY DEF Record, Transition
<1> QED BY <1>1, <1>2, WriteKeeps, QuietEnd DEF Statuses, Points, Outcomes

-----------------------------------------------------------------------------
\* Step 7: the broker takes the order, whether its answer arrives or not.
LEMMA TakenKeeps ==
  ASSUME IInv, NEW c \in Calls, Moves(c),
         call[c].pc = "approved", call'[c].pc \in {"accepted", "done"},
         broker' = [broker EXCEPT ![KeyOf[c]] = "live"],
         acceptances' = [acceptances EXCEPT ![KeyOf[c]] = @ + 1],
         UNCHANGED <<row, halt, breaker, errors>>, faults' \in 0..MaxFaults
  PROVE  IInv'
<1> DEFINE k == KeyOf[c]
<1>1. k \in Keys
  BY CallsAssumption
<1>2. \A d \in Calls \ {c} : call'[d] = call[d]
  BY DEF Moves
<1>3. /\ broker' \in [Keys -> BrokerStates] /\ broker'[k] = "live"
      /\ \A j \in Keys \ {k} : broker'[j] = broker[j]
  BY <1>1 DEF IInv, TypeOK, BrokerStates
<1>4. /\ acceptances' \in [Keys -> Nat] /\ acceptances'[k] = acceptances[k] + 1
      /\ \A j \in Keys \ {k} : acceptances'[j] = acceptances[j]
  BY <1>1 DEF IInv, TypeOK
<1>5. acceptances[k] = 0 /\ row[k] = "RISK_APPROVED"
  BY DEF IInv, SubmittedOnce, RowOfOwner
<1>6. \A d \in Calls \ {c} : call[d].pc \in PastInsert => KeyOf[d] # k
  BY Alone DEF PastInsert
<1>7. TypeOK'
  <2>1. call' \in [Calls -> CallRecord]
    BY DEF Moves
  <2> QED BY <2>1, <1>3, <1>4 DEF IInv, TypeOK, CallRecord
<1>8. Inserted'
  <2>1. row[k] # Absent
    BY <1>5 DEF Absent
  <2> QED BY <2>1, <1>2, <1>3, <1>4 DEF IInv, Inserted
<1>9. OneOwner' /\ RacingWhenSet'
  BY OwnerKeeps DEF PastInsert
<1>10. SubmittedOnce'
  <2>1. AcceptedOnce'
    BY <1>4, <1>5 DEF IInv, SubmittedOnce, AcceptedOnce
  <2>2. ASSUME NEW d \in Calls, call'[d].pc \in {"persisted", "approved"}
        PROVE  acceptances'[KeyOf[d]] = 0
    <3>1. d # c /\ call[d].pc \in {"persisted", "approved"}
      BY <1>2, <2>2
    <3>2. KeyOf[d] \in Keys \ {k}
      BY <1>6, <3>1, CallsAssumption DEF PastInsert
    <3> QED BY <1>4, <3>1, <3>2 DEF IInv, SubmittedOnce
  <2> QED BY <2>1, <2>2 DEF SubmittedOnce
<1>11. RowOfOwner'
  <2>1. SUFFICES ASSUME NEW d \in Calls \ {c}, call[d].pc \in PastInsert
                 PROVE  broker'[KeyOf[d]] = broker[KeyOf[d]]
    BY <1>2, <1>5 DEF IInv, RowOfOwner, PastInsert
  <2> QED BY <1>3, <1>6, <2>1, CallsAssumption
<1>12. LiveIsOnRecord'
  BY <1>3, <1>5 DEF IInv, LiveIsOnRecord
<1>13. OnlyRacingOrdersAppear'
  <2>1. halt.on => c \in halt.racing
    BY DEF IInv, RacingWhenSet, InFlight, At
  <2> QED BY <1>3, <2>1 DEF IInv, OnlyRacingOrdersAppear
<1> QED BY <1>7, <1>8, <1>9, <1>10, <1>11, <1>12, <1>13 DEF IInv

LEMMA BrokerTakesKeeps ==
  ASSUME IInv, NEW c \in Calls, BrokerAccepts(c) \/ BrokerTimesOut(c) PROVE IInv'
<1>1. CASE BrokerAccepts(c)
  <2>1. Moves(c) /\ call'[c].pc = "accepted"
    BY <1>1, GotoMoves DEF BrokerAccepts, IInv, Points
  <2>2. faults' \in 0..MaxFaults
    BY <1>1 DEF BrokerAccepts, counters, IInv, TypeOK
  <2> QED BY <1>1, <2>1, <2>2, TakenKeeps DEF BrokerAccepts, At, switches, counters
<1>2. CASE BrokerTimesOut(c)
  <2>1. Moves(c) /\ call'[c].pc = "done"
    BY <1>2, EndMoves DEF BrokerTimesOut, IInv, Outcomes
  <2>2. faults' \in 0..MaxFaults
    BY <1>2, BoundsAssumption DEF BrokerTimesOut, IInv, TypeOK
  <2> QED BY <1>2, <2>1, <2>2, TakenKeeps DEF BrokerTimesOut, At, switches
<1> QED BY <1>1, <1>2

\* A call on its way to have its row rejected: the broker refused the order, or
\* something else went wrong.  Nothing is written yet.
LEMMA TurnKeeps ==
  ASSUME IInv, NEW c \in Calls, Moves(c),
         call[c].pc \in PastInsert, call'[c].pc \in {"refusing", "rejecting"},
         UNCHANGED <<row, acceptances, halt, breaker, faults>>,
         errors' \in 0..MaxErrors, errors' = 0 => errors = 0,
         \/ broker' = broker
         \/ call[c].pc = "approved" /\ broker' = [broker EXCEPT ![KeyOf[c]] = "refused"],
         errors' = 0 => row[KeyOf[c]] = "RISK_APPROVED" /\ broker'[KeyOf[c]] = "refused",
         errors' = 0 /\ call'[c].pc = "rejecting" => call'[c].seen = "RISK_APPROVED"
  PROVE  IInv'
<1> DEFINE k == KeyOf[c]
<1>1. k \in Keys
  BY CallsAssumption
<1>2. \A d \in Calls \ {c} : call'[d] = call[d]
  BY DEF Moves
<1>3. /\ broker' \in [Keys -> BrokerStates]
      /\ \A j \in Keys \ {k} : broker'[j] = broker[j]
      /\ \A j \in Keys : broker'[j] = "live" => broker[j] = "live"
  BY <1>1 DEF IInv, TypeOK, BrokerStates
<1>4. \A d \in Calls \ {c} : call[d].pc \in PastInsert => KeyOf[d] # k
  BY Alone
<1>5. TypeOK'
  <2>1. call' \in [Calls -> CallRecord]
    BY DEF Moves
  <2> QED BY <2>1, <1>3 DEF IInv, TypeOK, CallRecord
<1>6. Inserted'
  BY <1>2, <1>3 DEF IInv, Inserted
<1>7. OneOwner' /\ RacingWhenSet'
  BY OwnerKeeps DEF PastInsert
<1>8. SubmittedOnce'
  BY <1>2 DEF IInv, SubmittedOnce, AcceptedOnce
<1>9. RowOfOwner'
  <2>1. SUFFICES ASSUME NEW d \in Calls \ {c}, call[d].pc \in PastInsert
                 PROVE  broker'[KeyOf[d]] = broker[KeyOf[d]]
    BY <1>2 DEF IInv, RowOfOwner, PastInsert
  <2> QED BY <1>3, <1>4, <2>1, CallsAssumption
<1>10. LiveIsOnRecord'
  BY <1>3 DEF IInv, LiveIsOnRecord
<1>11. OnlyRacingOrdersAppear'
  BY <1>3 DEF IInv, OnlyRacingOrdersAppear
<1> QED BY <1>5, <1>6, <1>7, <1>8, <1>9, <1>10, <1>11 DEF IInv

LEMMA BrokerRefusesKeeps ==
  ASSUME IInv, NEW c \in Calls, BrokerRefuses(c) PROVE IInv'
<1>1. /\ call[c].pc = "approved" /\ Goto(c, "refusing")
      /\ broker' = [broker EXCEPT ![KeyOf[c]] = "refused"]
      /\ UNCHANGED <<row, acceptances, halt, breaker, errors, faults>>
  BY DEF BrokerRefuses, At, switches, counters
<1>2. Moves(c) /\ call'[c].pc = "refusing"
  BY <1>1, GotoMoves DEF IInv, Points
<1>3. row[KeyOf[c]] = "RISK_APPROVED"
  BY <1>1 DEF IInv, RowOfOwner
<1>4. broker'[KeyOf[c]] = "refused" /\ errors \in 0..MaxErrors
  BY <1>1, CallsAssumption DEF IInv, TypeOK
<1> QED BY <1>1, <1>2, <1>3, <1>4, TurnKeeps DEF PastInsert

LEMMA LoadForRejectKeeps ==
  ASSUME IInv, NEW c \in Calls, LoadForReject(c) PROVE IInv'
<1>1. /\ call[c].pc = "refusing"
      /\ call' = [call EXCEPT ![c].pc = "rejecting", ![c].seen = row[KeyOf[c]]]
      /\ UNCHANGED <<row, broker, acceptances, halt, breaker, errors, faults>>
  BY DEF LoadForReject, At, switches, counters
<1>2. call \in [Calls -> CallRecord] /\ row[KeyOf[c]] \in Statuses \cup {Absent}
  BY CallsAssumption DEF IInv, TypeOK, CallRecord
<1>3. call'[c] = [call[c] EXCEPT !.pc = "rejecting", !.seen = row[KeyOf[c]]]
  BY <1>1, <1>2
<1>4. call'[c] \in CallRecord /\ call'[c].pc = "rejecting" /\ call'[c].seen = row[KeyOf[c]]
  <2>1. "rejecting" \in Points /\ call[c] \in CallRecord
    BY <1>2 DEF Points
  <2>2. call'[c] \in CallRecord
    BY <1>2, <1>3, <2>1 DEF CallRecord
  <2>3. call'[c].pc = "rejecting" /\ call'[c].seen = row[KeyOf[c]]
    BY <1>3, <2>1 DEF CallRecord
  <2> QED BY <2>2, <2>3
<1>5. call' = [call EXCEPT ![c] = call'[c]]
  BY <1>1, <1>2
<1>6. Moves(c)
  BY <1>2, <1>4, <1>5 DEF Moves
<1>7. errors = 0 => row[KeyOf[c]] = "RISK_APPROVED" /\ broker[KeyOf[c]] = "refused"
  BY <1>1 DEF IInv, RowOfOwner
<1>8. errors \in 0..MaxErrors
  BY DEF IInv, TypeOK
<1> QED BY <1>1, <1>4, <1>6, <1>7, <1>8, TurnKeeps DEF PastInsert

LEMMA RejectKeeps ==
  ASSUME IInv, NEW c \in Calls, Reject(c) PROVE IInv'
<1> DEFINE k == KeyOf[c]
<1>1. /\ call[c].pc = "rejecting" /\ errors \in 0..MaxErrors /\ faults \in 0..MaxFaults
      /\ UNCHANGED <<broker, acceptances, halt, breaker, errors, faults>>
  BY DEF Reject, At, switches, counters, IInv, TypeOK
<1>2. CASE UNCHANGED row /\ End(c, "error")
  BY <1>1, <1>2, QuietEnd DEF Outcomes
<1>3. CASE Write(k, "REJECTED") /\ End(c, "rejected")
  <2>1. k \in Keys /\ row[k] # Absent
    BY <1>1, CallsAssumption DEF IInv, Inserted, PastInsert
  <2>2. Moves(c) /\ call'[c].pc = "done"
    BY <1>3, EndMoves DEF IInv, Outcomes
  <2>3. \A d \in Calls \ {c} : call'[d] = call[d]
    BY <2>2 DEF Moves
  <2>4. /\ row' \in [Keys -> Statuses \cup {Absent}] /\ row'[k] # Absent
        /\ \A j \in Keys \ {k} : row'[j] = row[j]
    BY <1>3, <2>1, WriteRow, StatusIsNotAbsent DEF IInv, Statuses
  <2>5. \A d \in Calls \ {c} : call[d].pc \in PastInsert => KeyOf[d] # k
    BY <1>1, Alone DEF PastInsert
  <2>6. TypeOK'
    <3>1. call' \in [Calls -> CallRecord]
      BY <2>2 DEF Moves
    <3> QED BY <1>1, <3>1, <2>4 DEF IInv, TypeOK, CallRecord
  <2>7. Inserted'
    BY <1>1, <2>2, <2>3, <2>4, CallsAssumption DEF IInv, Inserted
  <2>8. OneOwner' /\ RacingWhenSet'
    BY <1>1, <2>2, OwnerKeeps DEF PastInsert
  <2>9. SubmittedOnce'
    BY <1>1, <2>2, <2>3 DEF IInv, SubmittedOnce, AcceptedOnce
  <2>10. RowOfOwner'
    <3>1. SUFFICES ASSUME NEW d \in Calls \ {c}, call[d].pc \in PastInsert
                   PROVE  row'[KeyOf[d]] = row[KeyOf[d]]
      BY <1>1, <2>2, <2>3 DEF IInv, RowOfOwner, PastInsert
    <3> QED BY <2>4, <2>5, <3>1, CallsAssumption
  <2>11. LiveIsOnRecord'
    BY <1>1, <2>4 DEF IInv, LiveIsOnRecord, RowOfOwner
  <2>12. OnlyRacingOrdersAppear'
    BY <1>1 DEF IInv, OnlyRacingOrdersAppear
  <2> QED BY <2>6, <2>7, <2>8, <2>9, <2>10, <2>11, <2>12 DEF IInv
<1> QED BY <1>2, <1>3 DEF Reject

LEMMA FailuresKeep ==
  ASSUME IInv, NEW c \in Calls,
         BrokerUnreachable(c) \/ Return(c) \/ RaiseError(c) \/ Crash(c)
  PROVE  IInv'
<1>1. errors \in 0..MaxErrors /\ faults \in 0..MaxFaults /\ MaxErrors \in Nat /\ MaxFaults \in Nat
  BY BoundsAssumption DEF IInv, TypeOK
<1>2. CASE BrokerUnreachable(c) \/ Return(c)
  <2>1. \E o \in Outcomes : End(c, o)
    BY <1>2 DEF BrokerUnreachable, Return, Outcomes
  <2>2. UNCHANGED <<row, broker, acceptances, halt, breaker, errors, faults>>
    BY <1>2 DEF BrokerUnreachable, Return, switches, counters
  <2> QED BY <1>1, <2>1, <2>2, QuietEnd
<1>3. CASE Crash(c)
  <2>1. /\ End(c, "error") /\ faults' \in 0..MaxFaults
        /\ UNCHANGED <<row, broker, acceptances, halt, breaker, errors>>
    BY <1>1, <1>3 DEF Crash, switches
  <2> QED BY <1>1, <2>1, QuietEnd DEF Outcomes
<1>4. CASE RaiseError(c)
  <2>1. /\ errors' \in 0..MaxErrors /\ errors' # 0
        /\ UNCHANGED <<row, broker, acceptances, halt, breaker, faults>>
    BY <1>1, <1>4 DEF RaiseError, switches
  <2>2. CASE End(c, "error")
    BY <1>1, <2>1, <2>2, QuietEnd DEF Outcomes
  <2>3. CASE call[c].pc \in {"accepted", "recorded"} /\ Goto(c, "refusing")
    <3>1. Moves(c) /\ call'[c].pc = "refusing"
      BY <2>3, GotoMoves DEF IInv, Points
    <3> QED BY <2>1, <2>3, <3>1, TurnKeeps DEF PastInsert
  <2> QED BY <1>4, <2>2, <2>3 DEF RaiseError
<1> QED BY <1>2, <1>3, <1>4

-----------------------------------------------------------------------------
LEMMA AcknowledgeKeeps ==
  ASSUME IInv, NEW k \in Keys, Acknowledge(k) PROVE IInv'
<1>1. /\ row[k] = "SUBMITTED"
      /\ UNCHANGED <<call, broker, acceptances, halt, breaker, errors, faults>>
  BY DEF Acknowledge, switches, counters
<1>2. /\ row' \in [Keys -> Statuses \cup {Absent}] /\ row'[k] = "ACKNOWLEDGED"
      /\ \A j \in Keys \ {k} : row'[j] = row[j]
  BY WriteRow DEF Acknowledge, IInv, Statuses
<1>3. TypeOK'
  BY <1>1, <1>2 DEF IInv, TypeOK
<1>4. Inserted'
  BY <1>1, <1>2, CallsAssumption DEF IInv, Inserted, Absent
<1>5. OneOwner' /\ SubmittedOnce'
  BY <1>1 DEF IInv, OneOwner, SubmittedOnce, AcceptedOnce
<1>6. RowOfOwner'
  BY <1>1, <1>2, CallsAssumption DEF IInv, RowOfOwner
<1>7. LiveIsOnRecord'
  BY <1>1, <1>2 DEF IInv, LiveIsOnRecord
<1>8. RacingWhenSet' /\ OnlyRacingOrdersAppear'
  BY <1>1 DEF IInv, RacingWhenSet, OnlyRacingOrdersAppear, InFlight, At
<1> QED BY <1>3, <1>4, <1>5, <1>6, <1>7, <1>8 DEF IInv

LEMMA SwitchesKeep ==
  ASSUME IInv,
         \/ Trigger \/ CancelFails \/ Reset
         \/ \E open \in BOOLEAN : SetBreaker(open)
  PROVE  IInv'
<1> DEFINE Halts == [on : BOOLEAN, cancelling : BOOLEAN, racing : SUBSET Calls, before : SUBSET Keys]
<1>1. halt \in Halts /\ InFlight \subseteq Calls
  BY DEF IInv, TypeOK, InFlight
<1>2. /\ UNCHANGED <<row, call, acceptances, errors, faults>>
      /\ breaker' \in BOOLEAN
      /\ InFlight' = InFlight
  BY DEF Trigger, CancelFails, Reset, SetBreaker, counters, IInv, TypeOK,
         InFlight, At
<1>3. broker' = broker
  BY DEF Trigger, CancelFails, Reset, SetBreaker
<1>4. halt' \in Halts /\ RacingWhenSet' /\ OnlyRacingOrdersAppear'
  <2>1. CASE Trigger
    <3>1. halt' = [on |-> TRUE, cancelling |-> TRUE, racing |-> InFlight,
                   before |-> {k \in Keys : broker[k] = "live"}]
      BY <2>1 DEF Trigger
    <3> QED BY <1>1, <1>2, <1>3, <3>1 DEF RacingWhenSet, OnlyRacingOrdersAppear
  <2>2. CASE CancelFails
    <3>1. halt' = [halt EXCEPT !.cancelling = FALSE]
      BY <2>2 DEF CancelFails
    <3>2. /\ halt' \in Halts /\ halt'.on = halt.on /\ halt'.racing = halt.racing
          /\ halt'.before = halt.before
      BY <1>1, <3>1
    <3> QED BY <1>2, <1>3, <3>2 DEF IInv, RacingWhenSet, OnlyRacingOrdersAppear
  <2>3. CASE Reset
    <3>1. halt' = [halt EXCEPT !.on = FALSE]
      BY <2>3 DEF Reset
    <3>2. halt' \in Halts /\ ~halt'.on
      BY <1>1, <3>1
    <3> QED BY <3>2 DEF RacingWhenSet, OnlyRacingOrdersAppear
  <2>4. CASE \E open \in BOOLEAN : SetBreaker(open)
    BY <1>1, <1>2, <1>3, <2>4 DEF SetBreaker, IInv, RacingWhenSet, OnlyRacingOrdersAppear
  <2> QED BY <2>1, <2>2, <2>3, <2>4
<1>5. TypeOK'
  BY <1>2, <1>3, <1>4 DEF IInv, TypeOK
<1>6. Inserted' /\ OneOwner' /\ SubmittedOnce'
  BY <1>2, <1>3 DEF IInv, Inserted, OneOwner, SubmittedOnce, AcceptedOnce
<1>7. RowOfOwner'
  BY <1>2, <1>3, CallsAssumption DEF IInv, RowOfOwner
<1>8. LiveIsOnRecord'
  BY <1>2, <1>3 DEF IInv, LiveIsOnRecord
<1> QED BY <1>4, <1>5, <1>6, <1>7, <1>8 DEF IInv

LEMMA InitIInv == Init => IInv
<1> SUFFICES ASSUME Init PROVE IInv
  OBVIOUS
<1>1. TypeOK
  <2>1. [pc |-> "start", seen |-> Absent, outcome |-> "none"] \in CallRecord
    BY DEF CallRecord, Points, Outcomes
  <2>2. call \in [Calls -> CallRecord]
    BY <2>1 DEF Init
  <2>3. "none" \in BrokerStates
    BY DEF BrokerStates
  <2>4. errors \in 0..MaxErrors /\ faults \in 0..MaxFaults
    BY BoundsAssumption DEF Init
  <2> QED BY <2>2, <2>3, <2>4 DEF Init, TypeOK, CallRecord
<1>2. Inserted /\ OneOwner /\ RowOfOwner
  BY DEF Init, Inserted, OneOwner, RowOfOwner, PastInsert
<1>3. SubmittedOnce /\ LiveIsOnRecord
  BY DEF Init, SubmittedOnce, AcceptedOnce, LiveIsOnRecord
<1>4. RacingWhenSet /\ OnlyRacingOrdersAppear
  BY DEF Init, RacingWhenSet, OnlyRacingOrdersAppear
<1> QED BY <1>1, <1>2, <1>3, <1>4 DEF IInv

LEMMA NextIInv == IInv /\ [Next]_vars => IInv'
<1> SUFFICES ASSUME IInv, [Next]_vars PROVE IInv'
  OBVIOUS
<1>1. ASSUME NEW c \in Calls,
             CheckKillSwitch(c) \/ CheckBreaker(c) \/ Lookup(c) \/ Validate(c)
      PROVE  IInv'
  BY <1>1, GatesKeep
<1>2. ASSUME NEW c \in Calls, Persist(c) PROVE IInv'
  BY <1>2, PersistKeeps
<1>3. ASSUME NEW c \in Calls, Approve(c) PROVE IInv'
  BY <1>3, ApproveKeeps
<1>4. ASSUME NEW c \in Calls, BrokerAccepts(c) \/ BrokerTimesOut(c) PROVE IInv'
  BY <1>4, BrokerTakesKeeps
<1>5. ASSUME NEW c \in Calls, BrokerRefuses(c) PROVE IInv'
  BY <1>5, BrokerRefusesKeeps
<1>6. ASSUME NEW c \in Calls, Record(c) PROVE IInv'
  BY <1>6, RecordKeeps
<1>7. ASSUME NEW c \in Calls, LoadForReject(c) PROVE IInv'
  BY <1>7, LoadForRejectKeeps
<1>8. ASSUME NEW c \in Calls, Reject(c) PROVE IInv'
  BY <1>8, RejectKeeps
<1>9. ASSUME NEW c \in Calls,
             BrokerUnreachable(c) \/ Return(c) \/ RaiseError(c) \/ Crash(c)
      PROVE  IInv'
  BY <1>9, FailuresKeep
<1>10. ASSUME NEW k \in Keys, Acknowledge(k) PROVE IInv'
  BY <1>10, AcknowledgeKeeps
<1>11. CASE \/ Trigger \/ CancelFails \/ Reset
            \/ \E open \in BOOLEAN : SetBreaker(open)
  BY <1>11, SwitchesKeep
<1>12. CASE UNCHANGED vars
  BY <1>12 DEF vars, IInv, TypeOK, Inserted, OneOwner, SubmittedOnce, AcceptedOnce, RowOfOwner,
               LiveIsOnRecord, RacingWhenSet, OnlyRacingOrdersAppear, InFlight, At
<1> QED BY <1>1, <1>2, <1>3, <1>4, <1>5, <1>6, <1>7, <1>8, <1>9, <1>10, <1>11, <1>12
        DEF Next, Step

LEMMA Inductive == Spec => []IInv
BY InitIInv, NextIInv, PTL DEF Spec

-----------------------------------------------------------------------------
\* Rows, calls, broker orders, switches and counters stay well-formed through
\* every interleaving of submit_order calls; no row is ever without a status.
THEOREM TypeCorrect == Spec => []TypeOK
BY Inductive, PTL DEF IInv

\* The idempotency of submit_order: however many calls use a key, at once or one
\* after the other, and wherever they stop, the broker accepts it at most once.
THEOREM KeysAreAcceptedOnce == Spec => []AcceptedOnce
BY Inductive, PTL DEF IInv, SubmittedOnce

\* Between the INSERT and its end, a call is alone on its row, so what its blind
\* UPDATEs overwrite is what the call itself wrote (or the acknowledgement).
THEOREM CallsOwnTheirRow == Spec => []OneOwner
BY Inductive, PTL DEF IInv

\* Without unexpected exceptions submit_order never leaves an order live at the
\* broker behind a row that does not admit it, a lost answer or process included.
THEOREM LiveOrdersAreOnRecord == Spec => []LiveIsOnRecord
BY Inductive, PTL DEF IInv

\* KillSwitch.trigger: the orders that are live under a halt were live before it or
\* are those of calls that had passed Step 0a before the Redis key was set.
THEOREM TriggerStopsTheRest == Spec => []OnlyRacingOrdersAppear
BY Inductive, PTL DEF IInv

-----------------------------------------------------------------------------
\* The lifecycle has the statuses and the table of this module.
LEMMA SameTable == Lifecycle!Statuses = Statuses /\ Lifecycle!VALID_TRANSITIONS = VALID_TRANSITIONS
BY DEF Lifecycle!Statuses, Lifecycle!VALID_TRANSITIONS, Statuses, VALID_TRANSITIONS

\* A write of a status that the table allows is a move of the order's lifecycle.
LEMMA WriteIsMove ==
  ASSUME TypeOK, NEW k \in Keys, NEW t \in Statuses, Write(k, t), row[k] # Absent,
         t \in VALID_TRANSITIONS[row[k]]
  PROVE  Lifecycle!Next
<1>1. /\ row' \in [Keys -> Statuses \cup {Absent}] /\ row'[k] = t /\ t # Absent
      /\ \A j \in Keys \ {k} : row'[j] = row[j]
  BY WriteRow, StatusIsNotAbsent
<1>2. RowStatus' = [RowStatus EXCEPT ![k] = t]
  BY <1>1 DEF RowStatus
<1>3. RowStatus[k] = row[k]
  BY DEF RowStatus
<1>4. Lifecycle!Move(k, t)
  BY <1>2, <1>3, SameTable DEF Lifecycle!Move
<1> QED BY <1>4, SameTable DEF Lifecycle!Next

\* The INSERT is not a move: an order without a row counts as PENDING_RISK.
LEMMA InsertIsStutter ==
  ASSUME TypeOK, NEW k \in Keys, Write(k, "PENDING_RISK"), row[k] = Absent
  PROVE  RowStatus' = RowStatus
<1>1. /\ row'[k] = "PENDING_RISK" /\ \A j \in Keys \ {k} : row'[j] = row[j]
  BY WriteRow DEF Statuses
<1>2. \A j \in Keys : (IF row'[j] = Absent THEN "PENDING_RISK" ELSE row'[j])
                     = (IF row[j] = Absent THEN "PENDING_RISK" ELSE row[j])
  BY <1>1 DEF Absent
<1> QED BY <1>2 DEF RowStatus

\* The count of unexpected exceptions never goes down.
LEMMA ErrorsStay == ASSUME TypeOK, Next PROVE errors' = 0 => errors = 0
<1>1. ASSUME NEW c \in Calls, RaiseError(c) PROVE errors' = 0 => errors = 0
  BY <1>1 DEF RaiseError, TypeOK
<1>2. (\A c \in Calls : ~RaiseError(c)) => errors' = errors
  BY Zenon DEF Next, Step, CheckKillSwitch, CheckBreaker, Lookup, Validate, Persist, Approve,
     BrokerAccepts, BrokerRefuses, BrokerUnreachable, BrokerTimesOut, Record, Return,
     LoadForReject, Reject, Crash, Acknowledge, Trigger, CancelFails, Reset,
     SetBreaker, counters
<1> QED BY <1>1, <1>2

\* Before the first exception that no handler expects, the status a call has
\* validated against is the one its UPDATE overwrites.
LEMMA NextFollowsLifecycle ==
  IInv /\ [Next]_vars => (errors' = 0 => [Lifecycle!Next]_RowStatus)
<1>1. SUFFICES ASSUME IInv, Next, row' # row, errors' = 0
               PROVE  Lifecycle!Next \/ UNCHANGED RowStatus
  BY DEF vars, RowStatus
<1>2. errors = 0 /\ TypeOK
  BY <1>1, ErrorsStay DEF IInv
<1>3. ASSUME NEW c \in Calls, Persist(c)
      PROVE  Lifecycle!Next \/ UNCHANGED RowStatus
  <2>1. KeyOf[c] \in Keys /\ row[KeyOf[c]] = Absent /\ Write(KeyOf[c], "PENDING_RISK")
    BY <1>1, <1>3, CallsAssumption DEF Persist
  <2> QED BY <1>2, <2>1, InsertIsStutter
<1>4. ASSUME NEW c \in Calls, Approve(c) \/ Record(c)
      PROVE  Lifecycle!Next \/ UNCHANGED RowStatus
  <2>1. PICK t \in Statuses : Write(KeyOf[c], t) /\ t \in VALID_TRANSITIONS[row[KeyOf[c]]]
    BY <1>1, <1>4 DEF Approve, Record, Transition, Statuses
  <2>2. KeyOf[c] \in Keys /\ row[KeyOf[c]] # Absent
    BY <1>1, <1>4, CallsAssumption DEF Approve, Record, At, IInv, Inserted, PastInsert
  <2> QED BY <1>2, <2>1, <2>2, WriteIsMove
<1>5. ASSUME NEW c \in Calls, Reject(c)
      PROVE  Lifecycle!Next \/ UNCHANGED RowStatus
  <2>1. /\ call[c].pc = "rejecting" /\ Write(KeyOf[c], "REJECTED")
        /\ "REJECTED" \in VALID_TRANSITIONS[call[c].seen]
    BY <1>1, <1>5 DEF Reject, At
  <2>2. KeyOf[c] \in Keys /\ row[KeyOf[c]] # Absent /\ call[c].seen = row[KeyOf[c]]
    BY <1>1, <1>2, <2>1, CallsAssumption DEF IInv, Inserted, PastInsert, RowOfOwner
  <2> QED BY <1>2, <2>1, <2>2, WriteIsMove DEF Statuses
<1>6. ASSUME NEW k \in Keys, Acknowledge(k)
      PROVE  Lifecycle!Next \/ UNCHANGED RowStatus
  <2>1. "ACKNOWLEDGED" \in VALID_TRANSITIONS["SUBMITTED"]
    BY DEF VALID_TRANSITIONS, Statuses
  <2> QED BY <1>2, <1>6, <2>1, WriteIsMove DEF Acknowledge, Statuses, Absent
<1>7. \/ \E c \in Calls : Persist(c) \/ Approve(c) \/ Record(c) \/ Reject(c)
      \/ \E k \in Keys : Acknowledge(k)
  BY <1>1, Zenon DEF Next, Step, CheckKillSwitch, CheckBreaker, Lookup, Validate,
     BrokerAccepts, BrokerRefuses, BrokerUnreachable, BrokerTimesOut, Return, LoadForReject,
     RaiseError, Crash, Trigger, CancelFails, Reset, SetBreaker
<1> QED BY <1>3, <1>4, <1>5, <1>6, <1>7

\* FollowsLifecycle: whatever calls race, as long as no handler has met an
\* exception it does not expect, every UPDATE of submit_order is a legal move.
THEOREM RowsFollowLifecycle == Spec => FollowsLifecycle
BY NextFollowsLifecycle, Inductive, PTL DEF Spec, FollowsLifecycle

\* Without such exceptions the rows of submit_order implement the abstract
\* lifecycle.
THEOREM SubmissionImplementsLifecycle ==
  ASSUME MaxErrors = 0 PROVE Spec => ImplementsLifecycle
<1>1. Init => Lifecycle!Init
  <2>1. SUFFICES ASSUME Init PROVE RowStatus \in [Keys -> Statuses]
    BY SameTable DEF Lifecycle!Init
  <2> QED BY <2>1 DEF Init, RowStatus, Statuses
<1>2. IInv /\ IInv' /\ [Next]_vars => [Lifecycle!Next]_RowStatus
  <2>1. IInv' => errors' = 0
    BY DEF IInv, TypeOK
  <2> QED BY <2>1, NextFollowsLifecycle
<1> QED BY <1>1, <1>2, Inductive, PTL DEF Spec, ImplementsLifecycle, Lifecycle!Spec
=============================================================================
