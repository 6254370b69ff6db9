------------------------ MODULE OrderTransitionsProofs -----------------------
(***************************************************************************)
(* Theorems about the order rows: how OrderTransitions moves them and how  *)
(* PositionReconciliation compares them with the broker's positions, for   *)
(* any orders, callers, exchanges and bounds.                              *)
(*                                                                         *)
(* transition() does not look at the stored status again when it writes,   *)
(* and nothing keeps two callers from one order.  What it keeps all the    *)
(* same is stated over the statuses the row has had.                       *)
(*                                                                         *)
(* The two sides of the reconciliation are sums over the orders of a       *)
(* symbol, counted as sets of single shares: where every order has the     *)
(* same quantity on both sides, the sets are the same.                     *)
(***************************************************************************)
EXTENDS OrderTransitions, PositionReconciliation, FiniteSetTheorems, TLAPS

\* The table leads from statuses to statuses.
LEMMA TableLeadsToStatuses ==
  \A s \in Statuses : VALID_TRANSITIONS[s] \subseteq Statuses
BY DEF VALID_TRANSITIONS, Statuses

\* TypeOK: the rows, the events and the histories carry statuses whatever the
\* callers do, transition() writes no other value.
THEOREM TypeCorrect == Spec => []TypeOK
<1>1. Init => TypeOK
  BY MaxFailuresAssumption DEF Init, TypeOK, Statuses
<1>2. TypeOK /\ [Next]_vars => TypeOK'
  <2> SUFFICES ASSUME TypeOK, [Next]_vars PROVE TypeOK'
    OBVIOUS
  <2> USE DEF TypeOK, Calls
  <2>1. ASSUME NEW c \in Callers, NEW o \in Orders, NEW t \in Targets[c], Load(c, o, t)
        PROVE  TypeOK'
    <3>1. t \in Statuses
      BY TargetsAssumption
    <3>2. [pc |-> "loaded", order |-> o, seen |-> status[o], target |-> t] \in Calls
      BY <3>1
    <3> QED BY <2>1, <3>2 DEF Load
  <2>2. ASSUME NEW c \in Callers, Refuse(c) PROVE TypeOK'
    BY <2>2 DEF Refuse
  <2>3. ASSUME NEW c \in Callers, Commit(c) PROVE TypeOK'
    <3>1. caller[c] \in Calls
      BY <2>3 DEF Commit, Idle
    <3>2. [caller[c] EXCEPT !.pc = "committed"] \in Calls
      BY <3>1
    <3>3. status' \in [Orders -> Statuses] /\ past' \in [Orders -> SUBSET Statuses]
      BY <2>3, <3>1 DEF Commit, Write
    <3> QED BY <2>3, <3>2, <3>3 DEF Commit
  <2>4. ASSUME NEW c \in Callers, Publish(c) PROVE TypeOK'
    <3>1. caller[c] \in Calls
      BY <2>4 DEF Publish, Idle
    <3> QED BY <2>4, <3>1 DEF Publish
  <2>5. ASSUME NEW c \in Callers, Fail(c) PROVE TypeOK'
    BY <2>5, MaxFailuresAssumption DEF Fail
  <2>6. CASE UNCHANGED vars
    BY <2>6 DEF vars
  <2> QED BY <2>1, <2>2, <2>3, <2>4, <2>5, <2>6 DEF Next
<1> QED BY <1>1, <1>2, PTL DEF Spec

-----------------------------------------------------------------------------
\* What a caller saw or wrote, and what was sent, the row has had.
SeenIsPast ==
  \A c \in Callers :
    /\ caller[c].pc = "loaded" => caller[c].seen \in past[caller[c].order]
    /\ caller[c].pc = "committed" => caller[c].target \in past[caller[c].order]

KeepsThePast == \A o \in Orders : status[o] \in past[o] /\ heard[o] \subseteq past[o]

IInv == TypeOK /\ SeenIsPast /\ KeepsThePast

LEMMA InitIInv == Init => IInv
<1> SUFFICES ASSUME Init PROVE IInv
  OBVIOUS
<1>1. TypeOK
  BY MaxFailuresAssumption DEF Init, TypeOK, Statuses
<1>2. SeenIsPast /\ KeepsThePast
  BY DEF Init, SeenIsPast, KeepsThePast, Idle
<1> QED BY <1>1, <1>2 DEF IInv

LEMMA NextIInv ==
  ASSUME TypeOK, SeenIsPast, KeepsThePast, [Next]_vars
  PROVE  SeenIsPast' /\ KeepsThePast'
<1> USE DEF TypeOK, Calls, SeenIsPast, KeepsThePast
<1>1. ASSUME NEW c \in Callers, NEW o \in Orders, NEW t \in Targets[c], Load(c, o, t)
      PROVE  SeenIsPast' /\ KeepsThePast'
  BY <1>1 DEF Load, Idle
<1>2. ASSUME NEW c \in Callers, Refuse(c) PROVE SeenIsPast' /\ KeepsThePast'
  BY <1>2 DEF Refuse, Idle
<1>3. ASSUME NEW c \in Callers, Commit(c) PROVE SeenIsPast' /\ KeepsThePast'
  <2>1. caller[c] \in Calls
    BY <1>3 DEF Commit, Idle
  <2>2. caller' = [caller EXCEPT ![c] = [caller[c] EXCEPT !.pc = "committed"]]
    BY <1>3 DEF Commit
  <2>3. \A o \in Orders : past[o] \subseteq past'[o]
    BY <1>3, <2>1 DEF Commit, Write
  <2>4. caller[c].target \in past'[caller[c].order]
    BY <1>3, <2>1 DEF Commit, Write
  <2>5. SeenIsPast'
    <3> SUFFICES ASSUME NEW d \in Callers
                 PROVE  /\ caller'[d].pc = "loaded" => caller'[d].seen \in past'[caller'[d].order]
                        /\ caller'[d].pc = "committed" => caller'[d].target \in past'[caller'[d].order]
      OBVIOUS
    <3>1. CASE d = c
      BY <2>1, <2>2, <2>4, <3>1
    <3>2. CASE d # c
      <4>1. caller'[d] = caller[d] /\ caller[d] \in Calls \cup {Idle}
        BY <2>2, <3>2
      <4> QED BY <2>3, <4>1 DEF Idle
    <3> QED BY <3>1, <3>2
  <2>6. KeepsThePast'
    BY <1>3, <2>1 DEF Commit, Write
  <2> QED BY <2>5, <2>6
<1>4. ASSUME NEW c \in Callers, Publish(c) PROVE SeenIsPast' /\ KeepsThePast'
  <2>1. caller[c] \in Calls
    BY <1>4 DEF Publish, Idle
  <2> QED BY <1>4, <2>1 DEF Publish, Idle
<1>5. ASSUME NEW c \in Callers, Fail(c) PROVE SeenIsPast' /\ KeepsThePast'
  BY <1>5 DEF Fail, Idle
<1>6. CASE UNCHANGED vars
  BY <1>6 DEF vars
<1> QED BY <1>1, <1>2, <1>3, <1>4, <1>5, <1>6 DEF Next

LEMMA IInvHolds == Spec => []IInv
<1>1. Spec => []TypeOK
  BY TypeCorrect
<1>2. Init => IInv
  BY InitIInv
<1>3. IInv /\ TypeOK' /\ [Next]_vars => IInv'
  BY NextIInv DEF IInv
<1> QED BY <1>1, <1>2, <1>3, PTL DEF Spec

-----------------------------------------------------------------------------
\* FollowsItsPast: with any number of callers on an order, an UPDATE of
\* transition() is a move of the table from a status the row has had, the one its
\* caller read, though not always from the one it has.
THEOREM RowsFollowTheirPast == Spec => FollowsItsPast
<1>1. Init => History!Init
  BY DEF Init, History!Init, Statuses
<1>2. IInv /\ [Next]_vars => [History!Next]_<<status, past>>
  <2> SUFFICES ASSUME IInv, [Next]_vars PROVE [History!Next]_<<status, past>>
    OBVIOUS
  <2>1. ASSUME NEW c \in Callers, Commit(c) PROVE History!Next
    <3> DEFINE o == caller[c].order
               s == caller[c].seen
               t == caller[c].target
    <3>1. caller[c] \in Calls
      BY <2>1 DEF Commit, Idle, IInv, TypeOK
    <3>2. o \in Orders /\ s \in Statuses /\ t \in Statuses
      BY <3>1 DEF Calls
    <3>3. t \in VALID_TRANSITIONS[s] /\ s \in past[o]
      BY <2>1 DEF Commit, IInv, SeenIsPast
    <3>4. <<s, t>> \in TableMoves
      BY <3>2, <3>3 DEF TableMoves
    <3>5. History!Move(o, s, t)
      BY <2>1, <3>3, <3>4 DEF Commit, Write, History!Move
    <3> QED BY <3>2, <3>5 DEF History!Next
  <2> QED BY <2>1 DEF Next, Load, Refuse, Publish, Fail, vars
<1>3. Spec => []IInv
  BY IInvHolds
<1> QED BY <1>1, <1>2, <1>3, PTL DEF Spec, FollowsItsPast, History!Spec

LEMMA FinitelyManyStatuses == IsFiniteSet(Statuses)
<1> DEFINE f == <<"PENDING_RISK", "RISK_APPROVED", "RISK_REJECTED", "SUBMITTED",
                  "ACKNOWLEDGED", "PARTIAL_FILL", "FILLED", "CANCELLED",
                  "REJECTED", "EXPIRED">>
<1>1. f \in Surjection(1..10, Statuses)
  BY DEF Surjection, Statuses
<1> HIDE DEF f
<1>2. ExistsSurjection(1..10, Statuses) /\ 10 \in Nat
  BY <1>1 DEF ExistsSurjection
<1> QED BY <1>2, FS_NatSurjection

\* The statuses missing on the topic are finitely many.
LEMMA UnheardIsFinite == IsFiniteSet(Unheard)
<1>1. IsFiniteSet(Orders \X Statuses)
  BY OrdersAssumption, FinitelyManyStatuses, FS_Product
<1>2. Unheard \subseteq Orders \X Statuses
  BY DEF Unheard
<1> QED BY <1>1, <1>2, FS_Subset

\* A step makes no status unheard unless it is a failure, which makes one.
LEMMA StepsLoseLittle ==
  ASSUME TypeOK, [Next]_vars
  PROVE  \/ Unheard' \subseteq Unheard /\ failures' = failures
         \/ /\ \E m : Unheard' \subseteq Unheard \cup {m}
            /\ failures' = failures + 1
<1> USE DEF TypeOK, Calls, Unheard
<1>1. ASSUME NEW c \in Callers, NEW o \in Orders, NEW t \in Targets[c], Load(c, o, t)
      PROVE  Unheard' \subseteq Unheard /\ failures' = failures
  BY <1>1 DEF Load, Idle
<1>2. ASSUME NEW c \in Callers, Refuse(c)
      PROVE  Unheard' \subseteq Unheard /\ failures' = failures
  BY <1>2 DEF Refuse, Idle
<1>3. ASSUME NEW c \in Callers, Commit(c)
      PROVE  Unheard' \subseteq Unheard /\ failures' = failures
  <2>1. caller[c] \in Calls /\ caller[c].pc = "loaded"
    BY <1>3 DEF Commit, Idle
  <2> DEFINE o == caller[c].order
             t == caller[c].target
  <2>2. caller' = [caller EXCEPT ![c] = [caller[c] EXCEPT !.pc = "committed"]]
    BY <1>3 DEF Commit
  <2>3. past' = [past EXCEPT ![o] = @ \cup {t}] /\ heard' = heard
    BY <1>3 DEF Commit, Write
  <2>4. ASSUME NEW m \in Unheard' PROVE m \in Unheard
    <3>1. m # <<o, t>>
      BY <2>1, <2>2
    <3>2. m \in Orders \X Statuses /\ m[2] \in past[m[1]] \ heard[m[1]]
      BY <2>1, <2>3, <3>1
    <3>3. \A d \in Callers : caller[d].pc = "committed" => <<caller[d].order, caller[d].target>> # m
      BY <2>1, <2>2
    <3> QED BY <3>2, <3>3
  <2> QED BY <1>3, <2>4 DEF Commit
<1>4. ASSUME NEW c \in Callers, Publish(c)
      PROVE  Unheard' \subseteq Unheard /\ failures' = failures
  <2>1. caller[c] \in Calls
    BY <1>4 DEF Publish, Idle
  <2> DEFINE o == caller[c].order
             t == caller[c].target
  <2>2. caller' = [caller EXCEPT ![c] = Idle] /\ past' = past
        /\ heard' = [heard EXCEPT ![o] = @ \cup {t}]
    BY <1>4 DEF Publish
  <2>3. ASSUME NEW m \in Unheard' PROVE m \in Unheard
    <3>1. m \in Orders \X Statuses /\ m[2] \in past[m[1]] \ heard[m[1]] /\ m # <<o, t>>
      BY <2>1, <2>2
    <3>2. \A d \in Callers : caller[d].pc = "committed" => <<caller[d].order, caller[d].target>> # m
      BY <2>2, <3>1
    <3> QED BY <3>1, <3>2
  <2> QED BY <1>4, <2>3 DEF Publish
<1>5. ASSUME NEW c \in Callers, Fail(c)
      PROVE  Unheard' \subseteq Unheard \cup {<<caller[c].order, caller[c].target>>}
             /\ failures' = failures + 1
  BY <1>5 DEF Fail, Idle
<1>6. CASE UNCHANGED vars
  BY <1>6 DEF vars
<1> QED BY <1>1, <1>2, <1>3, <1>4, <1>5, <1>6 DEF Next

\* EventsMatchCommits: with any number of callers on an order, no event tells what
\* was not committed, and the topic lacks at most one status for each failure.
THEOREM TopicLosesOnlyToFailures == Spec => []EventsMatchCommits
<1> DEFINE Few == Cardinality(Unheard) <= failures
<1>1. Init => Few
  <2> SUFFICES ASSUME Init PROVE Few
    OBVIOUS
  <2>1. Unheard = {}
    BY DEF Init, Unheard
  <2> QED BY <2>1, FS_EmptySet DEF Init
<1>2. TypeOK /\ Few /\ [Next]_vars => Few'
  <2> SUFFICES ASSUME TypeOK, Few, [Next]_vars PROVE Few'
    OBVIOUS
  <2>1. IsFiniteSet(Unheard) /\ Cardinality(Unheard) \in Nat /\ failures \in Nat
    BY UnheardIsFinite, FS_CardinalityType, MaxFailuresAssumption DEF TypeOK
  <2>2. ASSUME Unheard' \subseteq Unheard, failures' = failures PROVE Few'
    <3>1. Cardinality(Unheard') \in Nat /\ Cardinality(Unheard') <= Cardinality(Unheard)
      BY <2>1, <2>2, FS_Subset, FS_CardinalityType
    <3> HIDE DEF Unheard
    <3> QED BY <2>1, <2>2, <3>1
  <2>3. ASSUME NEW m, Unheard' \subseteq Unheard \cup {m}, failures' = failures + 1 PROVE Few'
    <3>1. IsFiniteSet(Unheard \cup {m})
          /\ Cardinality(Unheard \cup {m}) <= Cardinality(Unheard) + 1
          /\ Cardinality(Unheard \cup {m}) \in Nat
      <4> HIDE DEF Unheard
      <4>1. IsFiniteSet(Unheard \cup {m})
            /\ \/ Cardinality(Unheard \cup {m}) = Cardinality(Unheard)
               \/ Cardinality(Unheard \cup {m}) = Cardinality(Unheard) + 1
        BY <2>1, FS_AddElement
      <4> QED BY <2>1, <4>1
    <3>2. Cardinality(Unheard') \in Nat
          /\ Cardinality(Unheard') <= Cardinality(Unheard \cup {m})
      BY <2>3, <3>1, FS_Subset, FS_CardinalityType
    <3> QED BY <2>1, <2>3, <3>1, <3>2
  <2> QED BY <2>2, <2>3, StepsLoseLittle
<1>3. IInv /\ Few => EventsMatchCommits
  BY DEF IInv, KeepsThePast, EventsMatchCommits
<1>4. Spec => []IInv
  BY IInvHolds
<1>5. Spec => []TypeOK
  BY TypeCorrect
<1> HIDE DEF Few
<1> QED BY <1>1, <1>2, <1>3, <1>4, <1>5, PTL DEF Spec

-----------------------------------------------------------------------------
(***************************************************************************)
(* PositionReconciliation                                                  *)
(***************************************************************************)
\* Finitely many orders hold finitely many shares.
LEMMA SharesAreFinite ==
  ASSUME NEW S \in SUBSET OrderIds, NEW q, \A o \in OrderIds : q[o] \in Nat
  PROVE  Cardinality(Shares(q, S)) \in Nat
<1> DEFINE held(o) == {o} \X (1..q[o])
           f == [o \in S |-> held(o)]
           sets == {held(o) : o \in S}
<1>1. IsFiniteSet(S)
  BY FS_Subset, OrderIdsAssumption
<1>2. f \in Surjection(S, sets)
  BY DEF Surjection
<1>3. IsFiniteSet(sets)
  BY <1>1, <1>2, FS_Surjection
<1>4. ASSUME NEW o \in S PROVE IsFiniteSet(held(o))
  <2>1. IsFiniteSet({o})
    BY FS_Singleton
  <2>2. q[o] \in Int /\ 1 \in Int
    OBVIOUS
  <2>3. IsFiniteSet(1..q[o])
    BY <2>2, FS_Interval
  <2> QED BY <2>1, <2>3, FS_Product
<1>5. \A T \in sets : IsFiniteSet(T)
  BY <1>4
<1>6. IsFiniteSet(UNION sets)
  <2> HIDE DEF sets
  <2> QED BY <1>3, <1>5, FS_UNION
<1> QED BY <1>6, FS_CardinalityType DEF Shares

\* A net position is an integer.
LEMMA NetIsAnInteger ==
  ASSUME NEW s, NEW q, \A o \in OrderIds : q[o] \in Nat
  PROVE  Net(q, s) \in Int
<1>1. Cardinality(Shares(q, OrdersIn(s) \cap BuyOrders)) \in Nat
  BY SharesAreFinite DEF OrdersIn
<1>2. Cardinality(Shares(q, OrdersIn(s) \ BuyOrders)) \in Nat
  BY SharesAreFinite DEF OrdersIn
<1> HIDE DEF Shares
<1> QED BY <1>1, <1>2 DEF Net

\* Quantities that agree on the orders of a symbol net to the same position.
LEMMA EqualQuantitiesNetAlike ==
  ASSUME NEW s, NEW p, NEW q, \A o \in OrdersIn(s) : p[o] = q[o]
  PROVE  Net(p, s) = Net(q, s)
<1>1. ASSUME NEW S \in SUBSET OrdersIn(s) PROVE Shares(p, S) = Shares(q, S)
  BY <1>1 DEF Shares
<1>2. Shares(p, OrdersIn(s) \cap BuyOrders) = Shares(q, OrdersIn(s) \cap BuyOrders)
  BY <1>1
<1>3. Shares(p, OrdersIn(s) \ BuyOrders) = Shares(q, OrdersIn(s) \ BuyOrders)
  BY <1>1
<1> QED BY <1>2, <1>3 DEF Net

\* What the monitor's program counter ranges over.
MonitorStates ==
  {Sleeping, Between}
    \cup [pc : {"rows"}, exchange : Exchanges, snapshot : [Symbols -> Int]]
    \cup [pc : {"handle", "set"}, exchange : Exchanges, bad : SUBSET Symbols]

RowsOK ==
  /\ row \in [OrderIds -> [status : Statuses, filled : Nat]]
  /\ executed \in [OrderIds -> Nat] /\ inFlight \in [OrderIds -> Nat]
  /\ live \subseteq OrderIds

CycleOK ==
  /\ breaker \in [Exchanges -> 0..TTL]
  /\ todo \subseteq Exchanges
  /\ monitor \in MonitorStates
  /\ exceptions \in 0..MaxExceptions

NightsOK ==
  open \in BOOLEAN /\ resumes \in 0..MaxResumes

LEMMA TypeParts == MonitorTypeOK <=> RowsOK /\ CycleOK /\ NightsOK
BY DEF MonitorTypeOK, MonitorStates, RowsOK, CycleOK, NightsOK

\* Orders, broker and fills: the rows keep their types, the cycle is not touched.
LEMMA OrderStepTypes ==
  ASSUME RowsOK, NEW o \in OrderIds,
         \/ Acknowledge(o) \/ Execute(o) \/ CountFill(o)
         \/ RefuseFill(o) \/ CancelRest(o) \/ Expire(o)
  PROVE  RowsOK' /\ UNCHANGED unmoved
<1> USE DEF RowsOK
<1>1. CASE Acknowledge(o)
  BY <1>1 DEF Acknowledge, Statuses
<1>2. CASE Execute(o)
  BY <1>2 DEF Execute
<1>3. CASE CountFill(o)
  <2> DEFINE n == row[o].filled + 1
  <2>1. n \in Nat /\ inFlight[o] - 1 \in Nat
    BY <1>3 DEF CountFill
  <2>2. \E st \in Statuses : row' = [row EXCEPT ![o] = [status |-> st, filled |-> n]]
    BY <1>3 DEF CountFill, Statuses
  <2>3. inFlight' = [inFlight EXCEPT ![o] = @ - 1]
        /\ UNCHANGED <<executed, live, unmoved>>
    BY <1>3 DEF CountFill
  <2> HIDE DEF n
  <2> QED BY <2>1, <2>2, <2>3
<1>4. CASE RefuseFill(o)
  BY <1>4 DEF RefuseFill
<1>5. CASE CancelRest(o)
  BY <1>5 DEF CancelRest, Statuses
<1>6. CASE Expire(o)
  BY <1>6 DEF Expire, Statuses
<1> QED BY <1>1, <1>2, <1>3, <1>4, <1>5, <1>6

\* A step of the cycle keeps the program counter in its range.
LEMMA CycleStepTypes ==
  ASSUME RowsOK, CycleOK, Tick \/ CycleStep
  PROVE  CycleOK' /\ UNCHANGED <<world, resumes>>
<1> USE DEF CycleOK, MonitorStates, Sleeping, Between
<1>1. ASSUME NoFault \/ Fault PROVE exceptions' \in 0..MaxExceptions
  BY <1>1, BoundsAssumption DEF NoFault, Fault
<1>2. CASE Tick
  BY <1>2, BoundsAssumption DEF Tick
<1>3. ASSUME NEW x \in Exchanges, ReadBroker(x) PROVE CycleOK' /\ UNCHANGED <<world, resumes>>
  <2>1. \A s : BrokerNet(s) \in Int
    BY NetIsAnInteger DEF BrokerNet, RowsOK
  <2>2. [pc |-> "rows", exchange |-> x, snapshot |-> [s \in Symbols |-> BrokerNet(s)]]
          \in [pc : {"rows"}, exchange : Exchanges, snapshot : [Symbols -> Int]]
    BY <2>1
  <2>3. monitor' \in MonitorStates
    BY <1>3, <2>2 DEF ReadBroker
  <2>4. exceptions' \in 0..MaxExceptions
    BY <1>1, <1>3 DEF ReadBroker
  <2> QED BY <1>3, <2>3, <2>4 DEF ReadBroker
<1>4. CASE ReadRows
  <2>1. monitor.exchange \in Exchanges
    BY <1>4 DEF ReadRows
  <2> DEFINE found == {s \in On(monitor.exchange) : monitor.snapshot[s] # InternalNet(s)}
  <2>2. found \subseteq Symbols
    BY DEF On
  <2>3. monitor' = [pc |-> "handle", exchange |-> monitor.exchange, bad |-> found]
        \/ monitor' = Between
    BY <1>4 DEF ReadRows
  <2>4. monitor' \in MonitorStates
    <3> HIDE DEF found
    <3> QED BY <2>1, <2>2, <2>3
  <2>5. exceptions' \in 0..MaxExceptions
    BY <1>1, <1>4 DEF ReadRows
  <2> QED BY <1>4, <2>4, <2>5 DEF ReadRows
<1>5. ASSUME NEW s \in Symbols, PublishBreach(s) PROVE CycleOK' /\ UNCHANGED <<world, resumes>>
  <2>1. monitor \in [pc : {"handle", "set"}, exchange : Exchanges, bad : SUBSET Symbols]
    BY <1>5 DEF PublishBreach
  <2> DEFINE sets == [monitor EXCEPT !.pc = "set", !.bad = @ \ {s}]
  <2>2. sets \in [pc : {"handle", "set"}, exchange : Exchanges, bad : SUBSET Symbols]
    BY <2>1
  <2>3. monitor' = sets \/ monitor' = Between
    BY <1>5 DEF PublishBreach
  <2>4. monitor' \in MonitorStates
    BY <2>2, <2>3
  <2>5. exceptions' \in 0..MaxExceptions
    BY <1>1, <1>5 DEF PublishBreach
  <2> QED BY <1>5, <2>4, <2>5 DEF PublishBreach
<1>6. CASE SetBreaker
  <2>1. monitor \in [pc : {"handle", "set"}, exchange : Exchanges, bad : SUBSET Symbols]
    BY <1>6 DEF SetBreaker
  <2>2. monitor' \in MonitorStates
    BY <1>6, <2>1 DEF SetBreaker
  <2>3. exceptions' \in 0..MaxExceptions
    BY <1>1, <1>6 DEF SetBreaker
  <2>4. TTL \in 0..TTL
    BY BoundsAssumption
  <2>5. breaker' \in [Exchanges -> 0..TTL]
    BY <1>6, <2>4 DEF SetBreaker
  <2> QED BY <1>6, <2>2, <2>3, <2>5 DEF SetBreaker
<1>7. CASE ExchangeDone
  BY <1>7 DEF ExchangeDone
<1>8. CASE CycleDone
  BY <1>8 DEF CycleDone
<1> QED BY <1>2, <1>3, <1>4, <1>5, <1>6, <1>7, <1>8 DEF CycleStep

\* MonitorTypeOK: the rows, the broker's shares, the keys and the cycle stay
\* well-formed, and a snapshot of the broker's positions holds integers, however
\* many orders net against each other.
THEOREM MonitorTypeCorrect == MonitorSpec => []MonitorTypeOK
<1>1. MonitorInit => MonitorTypeOK
  BY BoundsAssumption DEF MonitorInit, MonitorTypeOK, Sleeping, Statuses
<1>2. MonitorTypeOK /\ [MonitorNext]_monitorVars => MonitorTypeOK'
  <2> SUFFICES ASSUME RowsOK, CycleOK, NightsOK, [MonitorNext]_monitorVars
               PROVE  RowsOK' /\ CycleOK' /\ NightsOK'
    BY TypeParts, PTL
  <2>1. ASSUME NEW o \in OrderIds,
               \/ Acknowledge(o) \/ Execute(o) \/ CountFill(o)
               \/ RefuseFill(o) \/ CancelRest(o) \/ Expire(o)
        PROVE  RowsOK' /\ CycleOK' /\ NightsOK'
    <3>1. RowsOK' /\ UNCHANGED unmoved
      BY <2>1, OrderStepTypes
    <3> QED BY <3>1 DEF unmoved, CycleOK, NightsOK
  <2>2. CASE Tick \/ CycleStep
    <3>1. CycleOK' /\ UNCHANGED <<world, resumes>>
      BY <2>2, CycleStepTypes
    <3> QED BY <3>1 DEF world, orders, RowsOK, NightsOK
  <2>3. ASSUME NEW x \in Exchanges, Resume(x) PROVE RowsOK' /\ CycleOK' /\ NightsOK'
    BY <2>3, BoundsAssumption DEF Resume, world, orders, RowsOK, CycleOK, NightsOK
  <2>4. CASE Close \/ Open
    <3>1. open' \in BOOLEAN
      BY <2>4 DEF Close, Open
    <3>2. UNCHANGED <<orders, breaker, todo, monitor, exceptions, resumes>>
      BY <2>4 DEF Close, Open
    <3> QED BY <3>1, <3>2 DEF orders, RowsOK, CycleOK, NightsOK
  <2>5. CASE UNCHANGED monitorVars
    BY <2>5 DEF monitorVars, world, orders, RowsOK, CycleOK, NightsOK
  <2> QED BY <2>1, <2>2, <2>3, <2>4, <2>5 DEF MonitorNext
<1> QED BY <1>1, <1>2, PTL DEF MonitorSpec

-----------------------------------------------------------------------------
\* A row with a fill has accepted one: it is in a status that counts, or it ended
\* CANCELLED or EXPIRED later.
FilledRowsMovedOn ==
  \A o \in OrderIds :
    row[o].filled > 0 => row[o].status \in {"PARTIAL_FILL", "FILLED", "CANCELLED", "EXPIRED"}

LEMMA FilledRowsMoveOn ==
  ASSUME RowsOK, FilledRowsMovedOn, [MonitorNext]_monitorVars
  PROVE  FilledRowsMovedOn'
<1> USE DEF RowsOK, FilledRowsMovedOn
<1>1. ASSUME NEW o \in OrderIds, Acknowledge(o) PROVE FilledRowsMovedOn'
  BY <1>1 DEF Acknowledge
<1>2. ASSUME NEW o \in OrderIds, CountFill(o) PROVE FilledRowsMovedOn'
  <2> DEFINE n == row[o].filled + 1
             st == IF n >= Quantity[o] THEN "FILLED" ELSE "PARTIAL_FILL"
  <2>1. row' = [row EXCEPT ![o] = [status |-> st, filled |-> n]]
    BY <1>2 DEF CountFill
  <2>2. st \in {"PARTIAL_FILL", "FILLED"}
    OBVIOUS
  <2> HIDE DEF n, st
  <2> QED BY <2>1, <2>2
<1>3. ASSUME NEW o \in OrderIds, CancelRest(o) PROVE FilledRowsMovedOn'
  BY <1>3 DEF CancelRest
<1>4. ASSUME NEW o \in OrderIds, Expire(o) PROVE FilledRowsMovedOn'
  BY <1>4 DEF Expire
<1>5. ASSUME NEW o \in OrderIds, Execute(o) \/ RefuseFill(o) PROVE FilledRowsMovedOn'
  BY <1>5 DEF Execute, RefuseFill
<1>6. CASE Tick \/ CycleStep
  <2>1. UNCHANGED world
    BY <1>6 DEF Tick, CycleStep, ReadBroker, ReadRows, PublishBreach, SetBreaker,
                ExchangeDone, CycleDone
  <2> QED BY <2>1 DEF world, orders
<1>7. ASSUME NEW x \in Exchanges, Resume(x) PROVE FilledRowsMovedOn'
  BY <1>7 DEF Resume, world, orders
<1>8. CASE Close \/ Open
  BY <1>8 DEF Close, Open, orders
<1>9. CASE UNCHANGED monitorVars
  BY <1>9 DEF monitorVars, world, orders
<1> QED BY <1>1, <1>2, <1>3, <1>4, <1>5, <1>6, <1>7, <1>8, <1>9 DEF MonitorNext

\* Only the selection of the rows leads from "rows" to "handle".
LEMMA OnlyReadRowsCompares ==
  ASSUME [MonitorNext]_monitorVars, monitor.pc = "rows", monitor'.pc = "handle"
  PROVE  ReadRows
<1>1. monitor' # monitor
  OBVIOUS
<1>2. monitor # Sleeping /\ monitor # Between /\ monitor' # Sleeping /\ monitor' # Between
  BY DEF Sleeping, Between
<1>3. CASE Tick \/ CycleStep
  BY <1>1, <1>2, <1>3 DEF Tick, CycleStep, ReadBroker, PublishBreach, SetBreaker,
                          ExchangeDone, CycleDone
<1>4. ~ UNCHANGED monitorVars
  BY <1>1 DEF monitorVars
<1>5. ASSUME UNCHANGED unmoved PROVE FALSE
  BY <1>1, <1>5 DEF unmoved
<1>6. ASSUME NEW o \in OrderIds,
             \/ Acknowledge(o) \/ Execute(o) \/ CountFill(o)
             \/ RefuseFill(o) \/ CancelRest(o) \/ Expire(o)
      PROVE  FALSE
  BY <1>5, <1>6 DEF Acknowledge, Execute, CountFill, RefuseFill, CancelRest, Expire
<1>7. ASSUME NEW x \in Exchanges, Resume(x) PROVE FALSE
  BY <1>1, <1>7 DEF Resume
<1>8. CASE Close \/ Open
  BY <1>1, <1>8 DEF Close, Open
<1> QED BY <1>3, <1>4, <1>6, <1>7, <1>8 DEF MonitorNext

\* An order that is the same on both sides of the comparison: its shares are
\* counted, and none is on its way or was refused.
LEMMA CountedInFull ==
  ASSUME RowsOK, FilledRowsMovedOn, NEW o \in OrderIds,
         ~Moving(o), ~Refused(o), ~LeftOut(o)
  PROVE  executed[o] = IF row[o].status \in CountedStatuses THEN row[o].filled ELSE 0
<1>1. row[o].filled \in Nat /\ executed[o] \in Nat /\ inFlight[o] \in Nat
  BY DEF RowsOK
<1>2. executed[o] = row[o].filled
  BY <1>1 DEF Moving, Refused
<1>3. row[o].filled > 0 => row[o].status \in CountedStatuses
  BY DEF FilledRowsMovedOn, LeftOut, CountedStatuses
<1> QED BY <1>1, <1>2, <1>3

\* DifferencesAreExplained: whatever the cycle read and in whatever order the
\* fills came, a symbol is found to differ only with a share under way, refused
\* or left out, or after the broker went on executing.
THEOREM DifferencesHaveAReason == MonitorSpec => DifferencesAreExplained
<1> DEFINE Found == monitor.pc = "rows" /\ monitor'.pc = "handle"
                      => \A s \in monitor'.bad : Explained(s)
<1>1. MonitorInit => FilledRowsMovedOn
  BY DEF MonitorInit, FilledRowsMovedOn
<1>2. MonitorTypeOK /\ FilledRowsMovedOn /\ [MonitorNext]_monitorVars => FilledRowsMovedOn'
  BY FilledRowsMoveOn, TypeParts
<1>3. ASSUME MonitorTypeOK, FilledRowsMovedOn, [MonitorNext]_monitorVars PROVE Found
  <2> SUFFICES ASSUME monitor.pc = "rows", monitor'.pc = "handle",
                      NEW s \in monitor'.bad, monitor.snapshot[s] = BrokerNet(s),
                      \A o \in OrdersIn(s) : ~Moving(o) /\ ~Refused(o) /\ ~LeftOut(o)
               PROVE  FALSE
    BY DEF Explained, OrdersIn
  <2>1. ReadRows
    BY <1>3, OnlyReadRowsCompares
  <2>2. monitor' = [pc |-> "handle", exchange |-> monitor.exchange,
                    bad |-> {t \in On(monitor.exchange) :
                               monitor.snapshot[t] # InternalNet(t)}]
    BY <2>1 DEF ReadRows, Between
  <2>3. BrokerNet(s) # InternalNet(s)
    BY <2>2
  <2> DEFINE counted ==
        [o \in OrderIds |-> IF row[o].status \in CountedStatuses THEN row[o].filled ELSE 0]
  <2>4. RowsOK
    BY <1>3, TypeParts
  <2>5. \A o \in OrdersIn(s) : executed[o] = counted[o]
    BY <1>3, <2>4, CountedInFull DEF OrdersIn
  <2>6. Net(executed, s) = Net(counted, s)
    <3> HIDE DEF counted
    <3> QED BY <2>5, EqualQuantitiesNetAlike
  <2> QED BY <2>3, <2>6 DEF BrokerNet, InternalNet
<1>4. MonitorSpec => []MonitorTypeOK
  BY MonitorTypeCorrect
<1> HIDE DEF Found
<1>5. MonitorTypeOK /\ FilledRowsMovedOn /\ [MonitorNext]_monitorVars => [Found]_monitorVars
  BY <1>3
<1>6. MonitorSpec => [][Found]_monitorVars
  BY <1>1, <1>2, <1>4, <1>5, PTL DEF MonitorSpec
<1> QED BY <1>6 DEF DifferencesAreExplained, Found
=============================================================================
