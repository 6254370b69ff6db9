------------------------- MODULE FillProcessingProofs ------------------------
(***************************************************************************)
(* Theorems about FillProcessing, for any orders, fills, workers,          *)
(* positions and bounds.                                                   *)
(*                                                                         *)
(* The first two hold however the fills are spread over the workers.  The  *)
(* others rest on Disjoint: process_fill lets go of the row lock before it *)
(* writes what it computed under it, and only a partition of the orders    *)
(* among the workers keeps what a worker read true until it writes.        *)
(***************************************************************************)
EXTENDS FillProcessing, FiniteSetTheorems, TLAPS

\* The order row a job is about.
LEMMA JobTypes ==
  ASSUME TypeOK, NEW w \in Workers, worker[w] # Idle
  PROVE  /\ worker[w] \in Jobs
         /\ worker[w].fill \in Fills
         /\ worker[w].seen \in OrderRows
         /\ OrderOf[worker[w].fill] \in Orders
         /\ FillQty[worker[w].fill] \in Nat \ {0}
<1>1. worker[w] \in Jobs
  BY DEF TypeOK
<1> QED BY <1>1, FillsAssumption DEF Jobs

LEMMA InitTypes == Init => TypeOK
BY BoundsAssumption, PositionsAssumption DEF Init, TypeOK, OrderRows, Statuses

\* TypeOK: no step writes a status the database does not know or a negative
\* quantity, not even a sale larger than the position.
THEOREM TypeCorrect == Spec => []TypeOK
<1>1. Init => TypeOK
  BY InitTypes
<1>2. TypeOK /\ [Next]_vars => TypeOK'
  <2> SUFFICES ASSUME TypeOK, [Next]_vars PROVE TypeOK'
    OBVIOUS
  <2> USE DEF TypeOK
  <2>1. ASSUME NEW o \in Orders, NEW t \in Statuses, Report(o, t) PROVE TypeOK'
    <3>1. row' \in [Orders -> OrderRows]
      BY <2>1 DEF Report, OrderRows
    <3> QED BY <2>1, <3>1 DEF Report
  <2>2. ASSUME NEW o \in Orders, Age(o) PROVE TypeOK'
    BY <2>2, OrdersAssumption DEF Age
  <2>3. ASSUME NEW f \in Fills, Deliver(f) PROVE TypeOK'
    BY <2>3, BoundsAssumption DEF Deliver
  <2>4. ASSUME NEW w \in Workers, NEW f \in Fills, BeginFill(w, f) PROVE TypeOK'
    <3>1. [pc |-> "transition", fill |-> f, seen |-> row[OrderOf[f]]] \in Jobs
      BY FillsAssumption DEF Jobs
    <3> QED BY <2>4, <3>1 DEF BeginFill, Take
  <2>5. ASSUME NEW w \in Workers, NEW f \in Fills, SkipFill(w, f) PROVE TypeOK'
    BY <2>5 DEF SkipFill, Take
  <2>6. ASSUME NEW w \in Workers, ApplyTransition(w) PROVE TypeOK'
    <3> DEFINE j == worker[w]
    <3>1. j \in Jobs /\ j.seen \in OrderRows /\ FillQty[j.fill] \in Nat
      BY <2>6, JobTypes DEF ApplyTransition
    <3>2. TargetStatus(j) \in Statuses /\ Cumulative(j) \in Nat
      BY <3>1 DEF TargetStatus, Cumulative, Statuses, OrderRows
    <3>3. [status |-> TargetStatus(j), filled |-> Cumulative(j)] \in OrderRows
      BY <3>2 DEF OrderRows
    <3>4. [j EXCEPT !.pc = "log"] \in Jobs
      BY <3>1 DEF Jobs
    <3> QED BY <2>6, <3>3, <3>4 DEF ApplyTransition
  <2>7. ASSUME NEW w \in Workers, RaiseTransition(w) PROVE TypeOK'
    BY <2>7 DEF RaiseTransition
  <2>8. ASSUME NEW w \in Workers, WriteTradeLog(w) PROVE TypeOK'
    <3> DEFINE j == worker[w]
    <3>1. j \in Jobs /\ j.fill \in Fills /\ OrderOf[j.fill] \in Orders /\ FillQty[j.fill] \in Nat
      BY <2>8, JobTypes DEF WriteTradeLog
    <3>2. [j EXCEPT !.pc = "position"] \in Jobs
      BY <3>1 DEF Jobs
    <3>3. rows' \in [Fills -> Nat] /\ logged' \in [Orders -> Nat]
      BY <2>8, <3>1 DEF WriteTradeLog
    <3> QED BY <2>8, <3>2, <3>3 DEF WriteTradeLog
  <2>9. ASSUME NEW w \in Workers, UpdatePosition(w) PROVE TypeOK'
    <3> DEFINE f == worker[w].fill
               k == KeyOfFill(f)
    <3>1. FillQty[f] \in Nat
      BY <2>9, JobTypes DEF UpdatePosition
    <3>2. position[k] # NoRow
      BY <2>9 DEF UpdatePosition
    <3>3. k \in Keys
      BY <2>9, JobTypes, PositionsAssumption DEF UpdatePosition, KeyOfFill
    <3>4. NewQuantity(position[k], f) \in Nat
      BY <3>1, <3>2, <3>3 DEF NewQuantity
    <3>5. position' = [position EXCEPT ![k] = NewQuantity(position[k], f)]
      BY <2>9 DEF UpdatePosition
    <3>6. position' \in [Keys -> Nat \cup {NoRow}]
      BY <3>4, <3>5
    <3> QED BY <2>9, <3>6 DEF UpdatePosition
  <2>10. ASSUME NEW w \in Workers, MissPosition(w) PROVE TypeOK'
    <3>1. worker[w] \in Jobs
      BY <2>10, JobTypes DEF MissPosition
    <3>2. [worker[w] EXCEPT !.pc = "insert"] \in Jobs
      BY <3>1 DEF Jobs
    <3> QED BY <2>10, <3>2 DEF MissPosition
  <2>11. ASSUME NEW w \in Workers, InsertPosition(w) PROVE TypeOK'
    <3> DEFINE f == worker[w].fill
               k == KeyOfFill(f)
    <3>1. FillQty[f] \in Nat
      BY <2>11, JobTypes DEF InsertPosition
    <3>2. NewQuantity(0, f) \in Nat
      BY <3>1 DEF NewQuantity
    <3>3. position' = [position EXCEPT ![k] = NewQuantity(0, f)] \/ position' = position
      BY <2>11 DEF InsertPosition
    <3>4. position' \in [Keys -> Nat \cup {NoRow}]
      BY <3>2, <3>3
    <3> QED BY <2>11, <3>4 DEF InsertPosition
  <2>12. ASSUME NEW w \in Workers, Abandon(w) PROVE TypeOK'
    BY <2>12, BoundsAssumption DEF Abandon
  <2>13. CASE Scan
    BY <2>13 DEF Scan, OrderRows
  <2>14. ASSUME NEW o \in Orders, ExpireOrder(o) PROVE TypeOK'
    <3>1. row' \in [Orders -> OrderRows]
      BY <2>14 DEF ExpireOrder, OrderRows, Statuses
    <3> QED BY <2>14, <3>1 DEF ExpireOrder
  <2>15. ASSUME NEW o \in Orders, ExpiryFails(o) PROVE TypeOK'
    BY <2>15, BoundsAssumption DEF ExpiryFails
  <2>16. CASE UNCHANGED vars
    BY <2>16 DEF vars
  <2>17. "ACKNOWLEDGED" \in Statuses /\ "CANCELLED" \in Statuses
    BY DEF Statuses
  <2> QED
    BY <2>1, <2>2, <2>3, <2>4, <2>5, <2>6, <2>7, <2>8, <2>9, <2>10, <2>11, <2>12,
       <2>13, <2>14, <2>15, <2>16, <2>17
    DEF Next, Acknowledge, Cancel, FillStep, MonitorStep
<1> QED BY <1>1, <1>2, PTL DEF Spec

-----------------------------------------------------------------------------
\* What the steps other than a fill's transition do to the order rows: they leave
\* filled_quantity alone, and never write PARTIAL_FILL or FILLED.
LEMMA OtherStepsKeepFilled ==
  ASSUME TypeOK, [Next]_vars, \A w \in Workers : ~ApplyTransition(w)
  PROVE  \A o \in Orders :
           /\ row'[o].filled = row[o].filled
           /\ row'[o].status \in {"PARTIAL_FILL", "FILLED"} => row'[o].status = row[o].status
<1> SUFFICES ASSUME NEW o \in Orders
             PROVE  /\ row'[o].filled = row[o].filled
                    /\ row'[o].status \in {"PARTIAL_FILL", "FILLED"} => row'[o].status = row[o].status
  OBVIOUS
<1> USE DEF TypeOK, OrderRows
<1>1. ASSUME NEW p \in Orders, Acknowledge(p) \/ Cancel(p)
      PROVE  /\ row'[o].filled = row[o].filled
             /\ row'[o].status \in {"PARTIAL_FILL", "FILLED"} => row'[o].status = row[o].status
  BY <1>1 DEF Acknowledge, Cancel, Report
<1>2. ASSUME NEW p \in Orders, ExpireOrder(p)
      PROVE  /\ row'[o].filled = row[o].filled
             /\ row'[o].status \in {"PARTIAL_FILL", "FILLED"} => row'[o].status = row[o].status
  BY <1>2 DEF ExpireOrder
<1>3. row' = row \/ (\E p \in Orders : Acknowledge(p) \/ Cancel(p) \/ ExpireOrder(p))
  <2>1. ASSUME NEW w \in Workers, FillStep(w) PROVE row' = row
    <3>1. ~ApplyTransition(w)
      OBVIOUS
    <3>2. ASSUME NEW f \in Fills, BeginFill(w, f) \/ SkipFill(w, f) PROVE row' = row
      BY <3>2 DEF BeginFill, SkipFill, Take
    <3>3. CASE RaiseTransition(w) \/ WriteTradeLog(w)
      BY <3>3 DEF RaiseTransition, WriteTradeLog
    <3>4. CASE UpdatePosition(w) \/ MissPosition(w) \/ InsertPosition(w)
      BY <3>4 DEF UpdatePosition, MissPosition, InsertPosition
    <3> QED BY <2>1, <3>1, <3>2, <3>3, <3>4 DEF FillStep
  <2>2. ASSUME NEW w \in Workers, Abandon(w) PROVE row' = row
    BY <2>2 DEF Abandon
  <2>3. ASSUME NEW p \in Orders, Age(p) \/ ExpiryFails(p) PROVE row' = row
    BY <2>3 DEF Age, ExpiryFails
  <2>4. ASSUME NEW f \in Fills, Deliver(f) PROVE row' = row
    BY <2>4 DEF Deliver
  <2>5. CASE Scan \/ UNCHANGED vars
    BY <2>5 DEF Scan, vars
  <2> QED BY <2>1, <2>2, <2>3, <2>4, <2>5 DEF Next, MonitorStep
<1> QED BY <1>1, <1>2, <1>3

\* What a fill's transition writes.
LEMMA TransitionWrites ==
  ASSUME TypeOK, NEW w \in Workers, ApplyTransition(w)
  PROVE  LET j == worker[w]
             o == OrderOf[j.fill]
         IN /\ o \in Orders
            /\ row' = [row EXCEPT ![o] = [status |-> TargetStatus(j), filled |-> Cumulative(j)]]
            /\ Cumulative(j) \in Nat \ {0}
            /\ Cumulative(j) <= Quantity[o]
            /\ TargetStatus(j) = IF Cumulative(j) = Quantity[o] THEN "FILLED" ELSE "PARTIAL_FILL"
<1> DEFINE j == worker[w]
           o == OrderOf[j.fill]
<1>1. o \in Orders /\ FillQty[j.fill] \in Nat \ {0} /\ j.seen \in OrderRows
  BY JobTypes DEF ApplyTransition
<1>2. Cumulative(j) \in Nat \ {0} /\ Quantity[o] \in Nat
  <2>1. j.seen.filled \in Nat
    BY <1>1 DEF OrderRows
  <2>2. Cumulative(j) \in Nat \ {0}
    BY <1>1, <2>1 DEF Cumulative
  <2>3. Quantity[o] \in Nat
    BY <1>1, OrdersAssumption
  <2> QED BY <2>2, <2>3
<1>3. Cumulative(j) <= Quantity[o]
  BY DEF ApplyTransition, TransitionAllowed
<1>4. TargetStatus(j) = IF Cumulative(j) = Quantity[o] THEN "FILLED" ELSE "PARTIAL_FILL"
  BY <1>2, <1>3 DEF TargetStatus
<1> QED BY <1>1, <1>2, <1>3, <1>4 DEF ApplyTransition

\* The status of an order agrees with its filled_quantity, with any number of
\* workers on one order, the monitor's stale objects and the broker's reports:
\* transition() writes both columns in one UPDATE and the check constraint
\* refuses an overfill.
THEOREM StatusMatchesFilled == Spec => []FillMatchesStatus
<1>1. Init => FillMatchesStatus
  BY OrdersAssumption DEF Init, FillMatchesStatus
<1>2. TypeOK /\ FillMatchesStatus /\ [Next]_vars => FillMatchesStatus'
  <2> SUFFICES ASSUME TypeOK, FillMatchesStatus, [Next]_vars, NEW o \in Orders
               PROVE  /\ row'[o].filled <= Quantity[o]
                      /\ row'[o].status = "FILLED" => row'[o].filled = Quantity[o]
                      /\ row'[o].status = "PARTIAL_FILL" => row'[o].filled \in 1..(Quantity[o] - 1)
    BY DEF FillMatchesStatus
  <2>1. CASE \A w \in Workers : ~ApplyTransition(w)
    <3>1. /\ row'[o].filled = row[o].filled
          /\ row'[o].status \in {"PARTIAL_FILL", "FILLED"} => row'[o].status = row[o].status
      BY <2>1, OtherStepsKeepFilled
    <3> QED BY <3>1 DEF FillMatchesStatus
  <2>2. ASSUME NEW w \in Workers, ApplyTransition(w)
        PROVE  /\ row'[o].filled <= Quantity[o]
               /\ row'[o].status = "FILLED" => row'[o].filled = Quantity[o]
               /\ row'[o].status = "PARTIAL_FILL" => row'[o].filled \in 1..(Quantity[o] - 1)
    <3> DEFINE j == worker[w]
               p == OrderOf[j.fill]
    <3>1. /\ row' = [row EXCEPT ![p] = [status |-> TargetStatus(j), filled |-> Cumulative(j)]]
          /\ Cumulative(j) \in Nat \ {0}
          /\ Cumulative(j) <= Quantity[p]
          /\ TargetStatus(j) = IF Cumulative(j) = Quantity[p] THEN "FILLED" ELSE "PARTIAL_FILL"
      BY <2>2, TransitionWrites
    <3>2. CASE o # p
      BY <3>1, <3>2 DEF FillMatchesStatus, TypeOK
    <3>3. CASE o = p
      <4>1. row'[o].status = TargetStatus(j) /\ row'[o].filled = Cumulative(j)
        BY <3>1, <3>3 DEF TypeOK
      <4>2. Quantity[o] \in Nat
        BY OrdersAssumption
      <4> QED BY <3>1, <3>3, <4>1, <4>2
    <3> QED BY <3>2, <3>3
  <2> QED BY <2>1, <2>2
<1> QED BY <1>1, <1>2, TypeCorrect, PTL DEF Spec

-----------------------------------------------------------------------------
(***************************************************************************)
(* One worker for each order.                                              *)
(***************************************************************************)
\* A worker handles fills of orders of its own.
OwnsItsOrder ==
  \A w \in Workers : worker[w] # Idle => OrderOf[worker[w].fill] \in Assigned[w]

\* What a worker read is still true when it writes: filled_quantity until the
\* transition, and the absence of the fill from the trade log until it is logged.
ReadIsCurrent ==
  \A w \in Workers :
    LET j == worker[w]
    IN /\ j # Idle /\ j.pc = "transition" => j.seen.filled = row[OrderOf[j.fill]].filled
       /\ j # Idle /\ j.pc \in {"transition", "log"} /\ j.fill \in Identified => rows[j.fill] = 0

\* A fill that was counted and is not yet logged is room in filled_quantity.
CountedBeforeLogged ==
  \A w \in Workers :
    LET j == worker[w]
        o == OrderOf[j.fill]
    IN j # Idle /\ j.pc = "log" => logged[o] + FillQty[j.fill] <= row[o].filled

\* With TypeOK, the inductive invariant.
Rest == OwnsItsOrder /\ ReadIsCurrent /\ CountedBeforeLogged /\ FilledCoversLog /\ LoggedOnce

LEMMA InitRest == Init => Rest
<1> SUFFICES ASSUME Init PROVE Rest
  OBVIOUS
<1>1. \A w \in Workers : worker[w] = Idle
  BY DEF Init
<1>2. OwnsItsOrder /\ ReadIsCurrent /\ CountedBeforeLogged
  BY <1>1 DEF OwnsItsOrder, ReadIsCurrent, CountedBeforeLogged
<1>3. FilledCoversLog
  BY DEF Init, FilledCoversLog
<1>4. LoggedOnce
  BY FillsAssumption DEF Init, LoggedOnce
<1> QED BY <1>2, <1>3, <1>4 DEF Rest

\* A step that counts and logs nothing, and at most lets a worker go on to its
\* position or back to Idle.
LEMMA QuietStep ==
  ASSUME TypeOK, Rest,
         rows' = rows, logged' = logged,
         \A o \in Orders : row'[o].filled = row[o].filled,
         \A w \in Workers :
           \/ worker'[w] = worker[w]
           \/ worker'[w] = Idle
           \/ /\ worker[w] # Idle
              /\ worker'[w].pc \notin {"transition", "log"}
              /\ worker'[w].fill = worker[w].fill
  PROVE  Rest'
<1> USE DEF Rest
<1>1. OwnsItsOrder'
  BY DEF OwnsItsOrder
<1>2. ASSUME NEW w \in Workers, worker'[w] # Idle, worker'[w].pc \in {"transition", "log"}
      PROVE  /\ worker'[w] = worker[w]
             /\ OrderOf[worker[w].fill] \in Orders
  <2>1. worker'[w] = worker[w]
    BY <1>2
  <2> QED BY <1>2, <2>1, JobTypes
<1>3. ReadIsCurrent'
  BY <1>2 DEF ReadIsCurrent
<1>4. CountedBeforeLogged'
  BY <1>2 DEF CountedBeforeLogged
<1>5. FilledCoversLog' /\ LoggedOnce'
  BY DEF FilledCoversLog, LoggedOnce
<1> QED BY <1>1, <1>3, <1>4, <1>5

\* Two busy workers have different orders.
LEMMA BusyWorkersDiffer ==
  ASSUME Disjoint, OwnsItsOrder,
         NEW v \in Workers, NEW w \in Workers, v # w, worker[v] # Idle, worker[w] # Idle
  PROVE  OrderOf[worker[v].fill] # OrderOf[worker[w].fill]
BY DEF Disjoint, OwnsItsOrder

LEMMA BeginFillRest ==
  ASSUME TypeOK, Rest, NEW w \in Workers, NEW f \in Fills, BeginFill(w, f)
  PROVE  Rest'
<1> DEFINE j == [pc |-> "transition", fill |-> f, seen |-> row[OrderOf[f]]]
<1>1. /\ worker' = [worker EXCEPT ![w] = j]
      /\ UNCHANGED <<row, rows, logged>>
      /\ OrderOf[f] \in Assigned[w]
      /\ f \in Identified => rows[f] = 0
  BY DEF BeginFill, Take, Eligible
<1>2. /\ worker'[w] = j
      /\ j.pc = "transition" /\ j.fill = f /\ j.seen = row[OrderOf[f]]
      /\ \A v \in Workers \ {w} : worker'[v] = worker[v]
  BY <1>1 DEF TypeOK
<1> HIDE DEF j
<1>3. OwnsItsOrder'
  BY <1>1, <1>2 DEF Rest, OwnsItsOrder
<1>4. ReadIsCurrent'
  BY <1>1, <1>2 DEF Rest, ReadIsCurrent
<1>5. CountedBeforeLogged'
  BY <1>1, <1>2 DEF Rest, CountedBeforeLogged
<1>6. FilledCoversLog' /\ LoggedOnce'
  BY <1>1 DEF Rest, FilledCoversLog, LoggedOnce
<1> QED BY <1>3, <1>4, <1>5, <1>6 DEF Rest

LEMMA ApplyTransitionRest ==
  ASSUME Disjoint, TypeOK, Rest, NEW w \in Workers, ApplyTransition(w)
  PROVE  Rest'
<1> DEFINE j == worker[w]
           p == OrderOf[j.fill]
<1>1. /\ j # Idle /\ j \in Jobs /\ j.fill \in Fills /\ p \in Orders
      /\ FillQty[j.fill] \in Nat /\ j.pc = "transition"
  BY JobTypes DEF ApplyTransition
<1>2. row' = [row EXCEPT ![p] = [status |-> TargetStatus(j), filled |-> Cumulative(j)]]
  BY DEF ApplyTransition
<1>3. row'[p].filled = Cumulative(j) /\ \A o \in Orders \ {p} : row'[o] = row[o]
  BY <1>1, <1>2 DEF TypeOK
<1>4. j.seen.filled = row[p].filled
  BY <1>1 DEF Rest, ReadIsCurrent
<1>5. row'[p].filled = row[p].filled + FillQty[j.fill]
  BY <1>3, <1>4 DEF Cumulative
<1>6. /\ worker' = [worker EXCEPT ![w] = [j EXCEPT !.pc = "log"]]
      /\ UNCHANGED <<rows, logged>>
  BY DEF ApplyTransition
<1>7. /\ worker'[w].pc = "log" /\ worker'[w].fill = j.fill
      /\ \A v \in Workers \ {w} : worker'[v] = worker[v]
  BY <1>1, <1>6 DEF TypeOK, Jobs
<1>8. \A o \in Orders : row[o].filled \in Nat /\ logged[o] \in Nat
  BY DEF TypeOK, OrderRows
<1>9. ASSUME NEW v \in Workers \ {w}, worker[v] # Idle
      PROVE  OrderOf[worker[v].fill] \in Orders \ {p}
  <2>1. OrderOf[worker[v].fill] \in Orders
    BY <1>9, JobTypes
  <2>2. OrderOf[worker[v].fill] # p
    BY <1>1, <1>9, BusyWorkersDiffer DEF Rest
  <2> QED BY <2>1, <2>2
<1> HIDE DEF j, p
<1>10. OwnsItsOrder'
  <2>1. p \in Assigned[w]
    BY <1>1 DEF Rest, OwnsItsOrder, j, p
  <2> QED BY <1>1, <1>7, <2>1 DEF Rest, OwnsItsOrder, p
<1>11. ReadIsCurrent'
  <2> SUFFICES ASSUME NEW v \in Workers, worker'[v] # Idle
               PROVE  /\ worker'[v].pc = "transition" =>
                            worker'[v].seen.filled = row'[OrderOf[worker'[v].fill]].filled
                      /\ worker'[v].pc \in {"transition", "log"} /\ worker'[v].fill \in Identified
                            => rows'[worker'[v].fill] = 0
    BY DEF ReadIsCurrent
  <2>1. CASE v = w
    BY <2>1, <1>1, <1>6, <1>7 DEF Rest, ReadIsCurrent, j
  <2>2. CASE v # w
    BY <2>2, <1>3, <1>6, <1>7, <1>9 DEF Rest, ReadIsCurrent
  <2> QED BY <2>1, <2>2
<1>12. CountedBeforeLogged'
  <2> SUFFICES ASSUME NEW v \in Workers, worker'[v] # Idle, worker'[v].pc = "log"
               PROVE  logged'[OrderOf[worker'[v].fill]] + FillQty[worker'[v].fill]
                        <= row'[OrderOf[worker'[v].fill]].filled
    BY DEF CountedBeforeLogged
  <2>1. CASE v = w
    <3>1. logged[p] <= row[p].filled
      BY <1>1 DEF Rest, FilledCoversLog
    <3>2. logged'[p] + FillQty[j.fill] <= row'[p].filled
      BY <3>1, <1>1, <1>5, <1>6, <1>8
    <3> QED BY <2>1, <3>2, <1>7 DEF p
  <2>2. CASE v # w
    BY <2>2, <1>3, <1>6, <1>7, <1>9 DEF Rest, CountedBeforeLogged
  <2> QED BY <2>1, <2>2
<1>13. \A o \in Orders : row'[o].filled >= row[o].filled
  BY <1>1, <1>3, <1>5, <1>8
<1>14. \A o \in Orders : row'[o].filled \in Nat
  BY <1>1, <1>3, <1>5, <1>8
<1>15. FilledCoversLog'
  BY <1>6, <1>8, <1>13, <1>14 DEF Rest, FilledCoversLog
<1>16. LoggedOnce'
  BY <1>6 DEF Rest, LoggedOnce
<1> QED BY <1>10, <1>11, <1>12, <1>15, <1>16 DEF Rest

LEMMA WriteTradeLogRest ==
  ASSUME Disjoint, TypeOK, Rest, NEW w \in Workers, WriteTradeLog(w)
  PROVE  Rest'
<1> DEFINE j == worker[w]
           p == OrderOf[j.fill]
<1>1. /\ j # Idle /\ j \in Jobs /\ j.fill \in Fills /\ p \in Orders
      /\ FillQty[j.fill] \in Nat /\ j.pc = "log"
  BY JobTypes DEF WriteTradeLog
<1>2. /\ rows' = [rows EXCEPT ![j.fill] = rows[j.fill] + 1]
      /\ logged' = [logged EXCEPT ![p] = logged[p] + FillQty[j.fill]]
      /\ worker' = [worker EXCEPT ![w] = [j EXCEPT !.pc = "position"]]
      /\ row' = row
  BY DEF WriteTradeLog
<1>3. /\ worker'[w].pc = "position" /\ worker'[w].fill = j.fill
      /\ \A v \in Workers \ {w} : worker'[v] = worker[v]
  BY <1>1, <1>2 DEF TypeOK, Jobs
<1>4. logged[p] + FillQty[j.fill] <= row[p].filled
  BY <1>1 DEF Rest, CountedBeforeLogged
<1>5. ASSUME NEW v \in Workers \ {w}, worker[v] # Idle
      PROVE  /\ OrderOf[worker[v].fill] \in Orders \ {p}
             /\ worker[v].fill \in Fills \ {j.fill}
  <2>1. OrderOf[worker[v].fill] \in Orders /\ worker[v].fill \in Fills
    BY <1>5, JobTypes
  <2>2. OrderOf[worker[v].fill] # p
    BY <1>1, <1>5, BusyWorkersDiffer DEF Rest
  <2> QED BY <2>1, <2>2
<1>6. /\ logged'[p] = logged[p] + FillQty[j.fill]
      /\ \A o \in Orders \ {p} : logged'[o] = logged[o]
      /\ rows'[j.fill] = rows[j.fill] + 1
      /\ \A f \in Fills \ {j.fill} : rows'[f] = rows[f]
  BY <1>1, <1>2 DEF TypeOK
<1>7. OwnsItsOrder'
  <2>1. p \in Assigned[w]
    BY <1>1 DEF Rest, OwnsItsOrder
  <2> QED BY <1>1, <1>3, <2>1 DEF Rest, OwnsItsOrder
<1>8. ReadIsCurrent'
  <2>1. \A v \in Workers \ {w} : worker[v] # Idle => rows'[worker[v].fill] = rows[worker[v].fill]
    BY <1>5, <1>6
  <2> QED BY <1>2, <1>3, <2>1 DEF Rest, ReadIsCurrent
<1>9. CountedBeforeLogged'
  <2>1. \A v \in Workers \ {w} :
          worker[v] # Idle => logged'[OrderOf[worker[v].fill]] = logged[OrderOf[worker[v].fill]]
    BY <1>5, <1>6
  <2> QED BY <1>2, <1>3, <2>1 DEF Rest, CountedBeforeLogged
<1>10. FilledCoversLog'
  <2>1. logged'[p] <= row'[p].filled
    BY <1>2, <1>4, <1>6
  <2>2. \A o \in Orders \ {p} : logged'[o] = logged[o] /\ row'[o].filled = row[o].filled
    BY <1>2, <1>6
  <2>3. \A o \in Orders : logged[o] <= row[o].filled
    BY DEF Rest, FilledCoversLog
  <2> QED BY <2>1, <2>2, <2>3 DEF FilledCoversLog
<1>11. LoggedOnce'
  <2> SUFFICES ASSUME NEW f \in Identified PROVE rows'[f] <= 1
    BY DEF LoggedOnce
  <2>1. CASE f = j.fill
    <3>1. rows[j.fill] = 0
      BY <2>1, <1>1 DEF Rest, ReadIsCurrent
    <3> QED BY <3>1, <2>1, <1>6
  <2>2. CASE f # j.fill
    BY <2>2, <1>6, FillsAssumption DEF Rest, LoggedOnce
  <2> QED BY <2>1, <2>2
<1> QED BY <1>7, <1>8, <1>9, <1>10, <1>11 DEF Rest

LEMMA NextRest ==
  ASSUME Disjoint, TypeOK, Rest, [Next]_vars
  PROVE  Rest'
<1>1. ASSUME NEW w \in Workers, ApplyTransition(w) PROVE Rest'
  BY <1>1, ApplyTransitionRest
<1>2. CASE \A w \in Workers : ~ApplyTransition(w)
  <2>1. \A o \in Orders : row'[o].filled = row[o].filled
    BY <1>2, OtherStepsKeepFilled
  <2>2. ASSUME rows' = rows, logged' = logged, NEW w \in Workers,
               \/ worker' = worker
               \/ worker' = [worker EXCEPT ![w] = Idle]
        PROVE  Rest'
    <3>1. \A v \in Workers : worker'[v] = worker[v] \/ worker'[v] = Idle
      BY <2>2 DEF TypeOK
    <3> QED BY <2>1, <2>2, <3>1, QuietStep
  <2>3. ASSUME NEW w \in Workers, MissPosition(w) PROVE Rest'
    <3>1. /\ rows' = rows /\ logged' = logged /\ worker[w] \in Jobs /\ worker[w] # Idle
          /\ worker' = [worker EXCEPT ![w] = [worker[w] EXCEPT !.pc = "insert"]]
      BY <2>3, JobTypes DEF MissPosition
    <3>2. /\ worker'[w].pc \notin {"transition", "log"} /\ worker'[w].fill = worker[w].fill
          /\ \A v \in Workers \ {w} : worker'[v] = worker[v]
      BY <3>1 DEF TypeOK, Jobs
    <3> QED BY <2>1, <3>1, <3>2, QuietStep
  <2>4. ASSUME NEW w \in Workers, FillStep(w) PROVE Rest'
    <3>1. ASSUME NEW f \in Fills, BeginFill(w, f) PROVE Rest'
      BY <3>1, BeginFillRest
    <3>2. ASSUME NEW f \in Fills, SkipFill(w, f) PROVE Rest'
      BY <3>2, <2>2 DEF SkipFill, Take
    <3>3. CASE RaiseTransition(w) \/ UpdatePosition(w) \/ InsertPosition(w)
      BY <3>3, <2>2 DEF RaiseTransition, UpdatePosition, InsertPosition
    <3>4. CASE WriteTradeLog(w)
      BY <3>4, WriteTradeLogRest
    <3> QED BY <1>2, <2>3, <2>4, <3>1, <3>2, <3>3, <3>4 DEF FillStep
  <2>5. ASSUME NEW w \in Workers, Abandon(w) PROVE Rest'
    BY <2>5, <2>2 DEF Abandon
  <2>6. ASSUME rows' = rows, logged' = logged, worker' = worker PROVE Rest'
    BY <2>1, <2>6, QuietStep
  <2>7. ASSUME NEW o \in Orders,
               Acknowledge(o) \/ Cancel(o) \/ Age(o) \/ ExpireOrder(o) \/ ExpiryFails(o)
        PROVE  Rest'
    BY <2>6, <2>7 DEF Acknowledge, Cancel, Report, Age, ExpireOrder, ExpiryFails
  <2>8. ASSUME NEW f \in Fills, Deliver(f) PROVE Rest'
    BY <2>6, <2>8 DEF Deliver
  <2>9. ASSUME Scan \/ UNCHANGED vars PROVE Rest'
    BY <2>6, <2>9 DEF Scan, vars
  <2> QED BY <2>4, <2>5, <2>7, <2>8, <2>9 DEF Next, MonitorStep
<1> QED BY <1>1, <1>2

LEMMA RestHolds == Disjoint => (Spec => [](TypeOK /\ Rest))
<1> SUFFICES ASSUME Disjoint PROVE Spec => [](TypeOK /\ Rest)
  OBVIOUS
<1>1. TypeOK /\ Rest /\ [Next]_vars => Rest'
  BY NextRest
<1> QED BY <1>1, InitRest, TypeCorrect, PTL DEF Spec

\* With one worker for each order, filled_quantity covers the trade log, through
\* duplicates, cancellations, expiries, failures and lost processes.
THEOREM FilledCoversTheLog == Disjoint => (Spec => []FilledCoversLog)
<1> SUFFICES ASSUME Disjoint PROVE Spec => []FilledCoversLog
  OBVIOUS
<1>1. Rest => FilledCoversLog
  BY DEF Rest
<1> QED BY <1>1, RestHolds, PTL

\* With one worker for each order, an identified fill is logged at most once,
\* however often it is delivered.
THEOREM FillsAreLoggedOnce == Disjoint => (Spec => []LoggedOnce)
<1> SUFFICES ASSUME Disjoint PROVE Spec => []LoggedOnce
  OBVIOUS
<1>1. Rest => LoggedOnce
  BY DEF Rest
<1> QED BY <1>1, RestHolds, PTL

-----------------------------------------------------------------------------
(***************************************************************************)
(* Sums of quantities, for the positions.                                  *)
(***************************************************************************)
\* The shares of a function on a finite set, and those of one argument.
LEMMA SharesAreFinite ==
  ASSUME NEW S, IsFiniteSet(S), NEW q \in [S -> Nat]
  PROVE  IsFiniteSet(Shares(q)) /\ Total(q) \in Nat
<1> DEFINE held(x) == {x} \X (1..q[x])
           f == [x \in S |-> held(x)]
           sets == {held(x) : x \in S}
<1>1. f \in Surjection(S, sets)
  BY DEF Surjection
<1>2. IsFiniteSet(sets)
  BY <1>1, FS_Surjection
<1>3. ASSUME NEW x \in S PROVE IsFiniteSet(held(x))
  <2>1. IsFiniteSet({x})
    BY FS_Singleton
  <2>2. q[x] \in Int /\ 1 \in Int
    OBVIOUS
  <2>3. IsFiniteSet(1..q[x])
    BY <2>2, FS_Interval
  <2> QED BY <2>1, <2>3, FS_Product
<1>4. \A T \in sets : IsFiniteSet(T)
  BY <1>3
<1>5. IsFiniteSet(UNION sets)
  <2> HIDE DEF sets
  <2> QED BY <1>2, <1>4, FS_UNION
<1>6. Shares(q) = UNION sets
  BY DEF Shares
<1> HIDE DEF sets
<1> QED BY <1>5, <1>6, FS_CardinalityType DEF Total

LEMMA OwnShares ==
  ASSUME NEW x, NEW n \in Nat
  PROVE  IsFiniteSet({x} \X (1..n)) /\ Cardinality({x} \X (1..n)) = n
<1>1. IsFiniteSet({x}) /\ Cardinality({x}) = 1
  BY FS_Singleton
<1>2. n \in Int /\ 1 \in Int
  OBVIOUS
<1>3. IsFiniteSet(1..n) /\ Cardinality(1..n) = (IF 1 > n THEN 0 ELSE n - 1 + 1)
  BY <1>2, FS_Interval
<1>4. Cardinality(1..n) = n
  BY <1>3
<1>5. /\ IsFiniteSet({x} \X (1..n))
      /\ Cardinality({x} \X (1..n)) = Cardinality({x}) * Cardinality(1..n)
  BY <1>1, <1>3, FS_Product
<1> QED BY <1>1, <1>4, <1>5

\* What a function has outside one argument.
Others(q, x) == UNION {{y} \X (1..q[y]) : y \in DOMAIN q \ {x}}

LEMMA TotalSplits ==
  ASSUME NEW S, IsFiniteSet(S), NEW q \in [S -> Nat], NEW x \in S
  PROVE  Cardinality(Others(q, x)) \in Nat /\ Total(q) = Cardinality(Others(q, x)) + q[x]
<1> DEFINE own == {x} \X (1..q[x])
<1>1. Shares(q) = Others(q, x) \cup own
  BY DEF Shares, Others
<1>2. Others(q, x) \cap own = {}
  BY DEF Others
<1>3. IsFiniteSet(own) /\ Cardinality(own) = q[x]
  BY OwnShares
<1> HIDE DEF own
<1>4. IsFiniteSet(Others(q, x))
  <2>1. Others(q, x) \in SUBSET Shares(q)
    BY <1>1
  <2> QED BY <2>1, SharesAreFinite, FS_Subset
<1>5. Cardinality(Others(q, x)) \in Nat
  BY <1>4, FS_CardinalityType
<1>6. Cardinality(Shares(q)) = Cardinality(Others(q, x)) + Cardinality(own) - Cardinality({})
  BY <1>1, <1>2, <1>3, <1>4, FS_Union
<1>7. Cardinality({}) = 0
  BY FS_EmptySet
<1> QED BY <1>3, <1>5, <1>6, <1>7 DEF Total

\* Functions that differ in one argument differ in their sums by as much.
LEMMA TotalFollows ==
  ASSUME NEW S, IsFiniteSet(S), NEW p \in [S -> Nat], NEW q \in [S -> Nat], NEW x \in S,
         \A y \in S \ {x} : q[y] = p[y]
  PROVE  Total(q) = Total(p) - p[x] + q[x]
<1>1. Others(q, x) = Others(p, x)
  BY DEF Others
<1>2. Cardinality(Others(p, x)) \in Nat /\ Total(p) = Cardinality(Others(p, x)) + p[x]
  BY TotalSplits
<1>3. Total(q) = Cardinality(Others(q, x)) + q[x]
  BY TotalSplits
<1> QED BY <1>1, <1>2, <1>3

\* No value exceeds the sum.
LEMMA TotalBounds ==
  ASSUME NEW S, IsFiniteSet(S), NEW q \in [S -> Nat], NEW x \in S
  PROVE  q[x] <= Total(q)
<1>1. Cardinality(Others(q, x)) \in Nat /\ Total(q) = Cardinality(Others(q, x)) + q[x]
  BY TotalSplits
<1> QED BY <1>1

LEMMA TotalIsMonotone ==
  ASSUME NEW S, IsFiniteSet(S), NEW p \in [S -> Nat], NEW q \in [S -> Nat],
         \A y \in S : p[y] <= q[y]
  PROVE  Total(p) <= Total(q)
<1>1. Shares(p) \in SUBSET Shares(q)
  BY DEF Shares
<1>2. IsFiniteSet(Shares(q))
  BY SharesAreFinite
<1> QED BY <1>1, <1>2, FS_Subset DEF Total

LEMMA TotalOfNothing ==
  ASSUME NEW S, NEW q \in [S -> Nat], \A y \in S : q[y] = 0
  PROVE  Total(q) = 0
<1>1. Shares(q) = {}
  BY DEF Shares
<1> QED BY <1>1, FS_EmptySet DEF Total

-----------------------------------------------------------------------------
(***************************************************************************)
(* The positions.  A position row agrees with the trade log when           *)
(*   - no two workers can race to insert it, and                           *)
(*   - the sell orders on it never ask for more than it held at the start: *)
(*     _upsert_position stops at 0 and forgets the rest of a larger sale.  *)
(***************************************************************************)
\* A position that has no row yet belongs to one worker.
NewKeysHaveOneWorker ==
  \A v, w \in Workers : \A o \in Assigned[v], p \in Assigned[w] :
    KeyOf[o] = KeyOf[p] /\ StartPosition[KeyOf[o]] = NoRow => v = w

\* The sell orders on a position ask for at most what it holds at the start.
SalesAreCovered ==
  \A k \in Keys : Total(Of(k, SellOrders, Quantity)) <= Held(StartPosition[k])

\* A position row, once there, stays.
RowsStay == \A k \in Keys : position[k] = NoRow => StartPosition[k] = NoRow

\* A worker that goes on to insert a row still finds none.
InsertsMiss ==
  \A w \in Workers :
    worker[w] # Idle /\ worker[w].pc = "insert" => position[KeyOfFill(worker[w].fill)] = NoRow

\* The clause of PositionAgreesWithLog for one key.
Agrees(k) ==
  Held(position[k]) + Total(Booking(k, BuyOrders)) - Total(Booking(k, SellOrders))
    = Held(StartPosition[k])
        + Total(Of(k, BuyOrders, logged)) - Total(Of(k, SellOrders, logged))

\* The position covers the sales that are about to be booked, and has lost at
\* most the sales that were logged.
CoversSales(k) ==
  Held(StartPosition[k]) + Total(Booking(k, SellOrders))
    <= Held(position[k]) + Total(Of(k, SellOrders, logged))

Ledger == failures = 0 => \A k \in Keys : Agrees(k) /\ CoversSales(k)

\* With TypeOK and Rest, the inductive invariant.
PositionsIInv == RowsStay /\ InsertsMiss /\ Ledger

LEMMA OfIsAFunction ==
  ASSUME NEW k \in Keys, NEW S \in SUBSET Orders, NEW q \in [Orders -> Nat]
  PROVE  Of(k, S, q) \in [Orders -> Nat] /\ Total(Of(k, S, q)) \in Nat
<1>1. Of(k, S, q) \in [Orders -> Nat]
  BY DEF Of
<1> QED BY <1>1, SharesAreFinite, FinitenessAssumption

LEMMA BookingIsAFunction ==
  ASSUME TypeOK, NEW k \in Keys, NEW S \in SUBSET Orders
  PROVE  Booking(k, S) \in [Workers -> Nat] /\ Total(Booking(k, S)) \in Nat
<1>1. ASSUME NEW w \in Workers, Books(w, k, S) PROVE FillQty[worker[w].fill] \in Nat
  BY <1>1, JobTypes DEF Books
<1>2. Booking(k, S) \in [Workers -> Nat]
  BY <1>1 DEF Booking
<1> QED BY <1>2, SharesAreFinite, FinitenessAssumption

\* All the numbers of the ledger are natural.
LEMMA LedgerTypes ==
  ASSUME TypeOK, NEW k \in Keys
  PROVE  /\ Held(position[k]) \in Nat /\ Held(StartPosition[k]) \in Nat
         /\ Total(Of(k, BuyOrders, logged)) \in Nat
         /\ Total(Of(k, SellOrders, logged)) \in Nat
         /\ Total(Booking(k, BuyOrders)) \in Nat
         /\ Total(Booking(k, SellOrders)) \in Nat
<1>1. BuyOrders \in SUBSET Orders /\ SellOrders \in SUBSET Orders
  BY OrdersAssumption DEF SellOrders
<1>2. position[k] \in Nat \cup {NoRow} /\ StartPosition[k] \in Nat \cup {NoRow}
  BY PositionsAssumption DEF TypeOK
<1>3. Held(position[k]) \in Nat /\ Held(StartPosition[k]) \in Nat
  BY <1>2 DEF Held
<1>4. logged \in [Orders -> Nat]
  BY DEF TypeOK
<1> QED BY <1>1, <1>3, <1>4, OfIsAFunction, BookingIsAFunction

\* The shares of a fill that count for the orders of S on k.
Part(f, k, S) == IF OrderOf[f] \in S /\ KeyOfFill(f) = k THEN FillQty[f] ELSE 0

\* Writing the trade log row of a fill adds its shares to those of the log.
LEMMA LogGrows ==
  ASSUME TypeOK, NEW f \in Fills, NEW k \in Keys, NEW S \in SUBSET Orders,
         logged' = [logged EXCEPT ![OrderOf[f]] = @ + FillQty[f]]
  PROVE  Total(Of(k, S, logged'))  = Total(Of(k, S, logged)) + Part(f, k, S)
<1> DEFINE o == OrderOf[f]
           p == Of(k, S, logged)
           q == Of(k, S, logged')
<1>1. o \in Orders /\ FillQty[f] \in Nat
  BY FillsAssumption
<1>2. logged \in [Orders -> Nat] /\ logged' \in [Orders -> Nat]
  BY <1>1 DEF TypeOK
<1>3. p \in [Orders -> Nat] /\ Total(p) \in Nat /\ q \in [Orders -> Nat]
  BY <1>2, OfIsAFunction
<1>4. \A x \in Orders \ {o} : q[x] = p[x]
  BY <1>1 DEF TypeOK, Of
<1>5. q[o] = p[o] + Part(f, k, S)
  BY <1>1, <1>2 DEF Of, Part, KeyOfFill
<1>6. Part(f, k, S) \in Nat
  BY <1>1 DEF Part
<1>7. p[o] \in Nat
  BY <1>1, <1>3
<1> HIDE DEF p, q, o
<1>8. Total(q) = Total(p) - p[o] + q[o]
  BY <1>1, <1>3, <1>4, TotalFollows, FinitenessAssumption
<1> QED BY <1>3, <1>5, <1>6, <1>7, <1>8 DEF p, q

\* A worker is between the trade log and the position.
AtPosition(w) == worker[w] # Idle /\ worker[w].pc \in {"position", "insert"}

\* What worker w contributes to a booking.
Own(w, k, S) == IF AtPosition(w) THEN Part(worker[w].fill, k, S) ELSE 0

LEMMA BookingIsOwn ==
  ASSUME NEW w \in Workers, NEW k, NEW S
  PROVE  Booking(k, S)[w] = Own(w, k, S)
BY DEF Booking, Books, Own, AtPosition, Part

\* The step of one worker changes a booking by what that worker contributes.
LEMMA BookingFollows ==
  ASSUME TypeOK, TypeOK', NEW w \in Workers, NEW k \in Keys, NEW S \in SUBSET Orders,
         \A v \in Workers \ {w} : worker'[v] = worker[v]
  PROVE  Total(Booking(k, S))' = Total(Booking(k, S)) - Own(w, k, S) + Own(w, k, S)'
<1> DEFINE p == Booking(k, S)
           q == Booking(k, S)'
<1>1. p \in [Workers -> Nat]
  BY BookingIsAFunction
<1>2. q \in [Workers -> Nat]
  <2>1. \A v \in Workers : worker'[v] \in Jobs \cup {Idle}
    BY DEF TypeOK
  <2>2. ASSUME NEW v \in Workers, worker'[v] # Idle, OrderOf[worker'[v].fill] \in S
        PROVE  FillQty[worker'[v].fill] \in Nat
    <3>1. worker'[v].fill \in Fills
      BY <2>1, <2>2 DEF Jobs
    <3> QED BY <3>1, FillsAssumption
  <2> QED BY <2>2 DEF Booking, Books
<1>3. \A v \in Workers \ {w} : q[v] = p[v]
  BY DEF Booking, Books
<1>4. p[w] = Own(w, k, S) /\ q[w] = Own(w, k, S)'
  BY DEF Booking, Books, Own, AtPosition, Part
<1>5. Total(Booking(k, S))' = Total(q)
  BY DEF Total, Shares
<1> HIDE DEF p, q
<1>6. Total(q) = Total(p) - p[w] + q[w]
  BY <1>1, <1>2, <1>3, TotalFollows, FinitenessAssumption
<1> QED BY <1>4, <1>5, <1>6 DEF p

\* With the rows as they are and what is written or skipped for the positions
\* the same, the ledger stays as it is.
LEMMA QuietPositions ==
  ASSUME TypeOK, PositionsIInv, failures' = 0 => failures = 0,
         logged' = logged, position' = position,
         \A v \in Workers :
           \/ worker'[v] = worker[v]
           \/ ~AtPosition(v) /\ ~AtPosition(v)'
  PROVE  PositionsIInv'
<1>1. RowsStay'
  BY DEF PositionsIInv, RowsStay
<1>2. InsertsMiss'
  BY DEF PositionsIInv, InsertsMiss, AtPosition
<1>3. Ledger'
  <2> SUFFICES ASSUME failures = 0, NEW k \in Keys PROVE Agrees(k)' /\ CoversSales(k)'
    BY DEF Ledger
  <2>1. Agrees(k) /\ CoversSales(k)
    BY DEF PositionsIInv, Ledger
  <2>2. Booking(k, BuyOrders)' = Booking(k, BuyOrders)
    BY DEF Booking, Books, AtPosition
  <2>3. Booking(k, SellOrders)' = Booking(k, SellOrders)
    BY DEF Booking, Books, AtPosition
  <2> QED BY <2>1, <2>2, <2>3 DEF Agrees, CoversSales, Of, Total, Shares
<1> QED BY <1>1, <1>2, <1>3 DEF PositionsIInv

\* A fill is logged and is about to be booked.
LEMMA WriteTradeLogKeepsPositions ==
  ASSUME TypeOK, TypeOK', PositionsIInv, NEW w \in Workers, WriteTradeLog(w)
  PROVE  PositionsIInv'
<1> DEFINE f == worker[w].fill
<1>1. /\ worker[w] \in Jobs /\ worker[w] # Idle /\ worker[w].pc = "log" /\ f \in Fills
      /\ UNCHANGED <<position, failures>>
      /\ logged' = [logged EXCEPT ![OrderOf[f]] = @ + FillQty[f]]
  BY JobTypes DEF WriteTradeLog
<1>2. worker' = [worker EXCEPT ![w] = [worker[w] EXCEPT !.pc = "position"]]
  BY DEF WriteTradeLog
<1>3. /\ worker'[w].pc = "position" /\ worker'[w].fill = f /\ worker'[w] # Idle
      /\ \A v \in Workers \ {w} : worker'[v] = worker[v]
  BY <1>1, <1>2 DEF TypeOK, Jobs, Idle
<1>4. RowsStay'
  BY <1>1 DEF PositionsIInv, RowsStay
<1>5. InsertsMiss'
  BY <1>1, <1>3 DEF PositionsIInv, InsertsMiss
<1>6. Ledger'
  <2> SUFFICES ASSUME failures = 0, NEW k \in Keys PROVE Agrees(k)' /\ CoversSales(k)'
    BY <1>1 DEF Ledger
  <2>1. Agrees(k) /\ CoversSales(k)
    BY DEF PositionsIInv, Ledger
  <2>2. BuyOrders \in SUBSET Orders /\ SellOrders \in SUBSET Orders
    BY OrdersAssumption DEF SellOrders
  <2>3. ASSUME NEW S \in SUBSET Orders
        PROVE  /\ Total(Of(k, S, logged')) = Total(Of(k, S, logged)) + Part(f, k, S)
               /\ Total(Booking(k, S))' = Total(Booking(k, S)) + Part(f, k, S)
    <3>1. Own(w, k, S) = 0 /\ Own(w, k, S)' = Part(f, k, S)
      BY <1>1, <1>3 DEF Own, AtPosition
    <3>2. Total(Booking(k, S))' = Total(Booking(k, S)) - Own(w, k, S) + Own(w, k, S)'
      BY <1>3, BookingFollows
    <3>3. Total(Booking(k, S)) \in Nat
      BY BookingIsAFunction
    <3>4. Part(f, k, S) \in Nat
      BY <1>1, FillsAssumption DEF Part
    <3>5. Total(Of(k, S, logged')) = Total(Of(k, S, logged)) + Part(f, k, S)
      BY <1>1, LogGrows
    <3> QED BY <3>1, <3>2, <3>3, <3>4, <3>5
  <2>4. Part(f, k, BuyOrders) \in Nat /\ Part(f, k, SellOrders) \in Nat
    BY <1>1, FillsAssumption DEF Part
  <2> DEFINE LB == Total(Of(k, BuyOrders, logged))
             LS == Total(Of(k, SellOrders, logged))
             BB == Total(Booking(k, BuyOrders))
             BS == Total(Booking(k, SellOrders))
  <2>5. /\ LB' = LB + Part(f, k, BuyOrders) /\ BB' = BB + Part(f, k, BuyOrders)
        /\ LS' = LS + Part(f, k, SellOrders) /\ BS' = BS + Part(f, k, SellOrders)
    BY <2>2, <2>3 DEF Of, Total, Shares
  <2>6. /\ LB \in Nat /\ LS \in Nat /\ BB \in Nat /\ BS \in Nat
        /\ Held(position[k]) \in Nat /\ Held(StartPosition[k]) \in Nat
    BY LedgerTypes
  <2>7. /\ Held(position[k]) + BB - BS = Held(StartPosition[k]) + LB - LS
        /\ Held(StartPosition[k]) + BS <= Held(position[k]) + LS
    BY <2>1 DEF Agrees, CoversSales
  <2>8. Held(position[k])' = Held(position[k])
    BY <1>1 DEF Held
  <2> HIDE DEF LB, LS, BB, BS
  <2>9. /\ Held(position[k])' + BB' - BS' = Held(StartPosition[k]) + LB' - LS'
        /\ Held(StartPosition[k]) + BS' <= Held(position[k])' + LS'
    BY <2>4, <2>5, <2>6, <2>7, <2>8
  <2> QED BY <2>9 DEF Agrees, CoversSales, LB, LS, BB, BS
<1> QED BY <1>4, <1>5, <1>6 DEF PositionsIInv

\* What is booked at most: the sales that are about to be booked fit in the
\* position, as long as no failure took a booking away.
LEMMA SalesFit ==
  ASSUME TypeOK, Rest, FillMatchesStatus, SalesAreCovered, PositionsIInv, failures = 0,
         NEW w \in Workers, AtPosition(w), OrderOf[worker[w].fill] \in SellOrders
  PROVE  FillQty[worker[w].fill] <= Held(position[KeyOfFill(worker[w].fill)])
<1> DEFINE f == worker[w].fill
           k == KeyOfFill(f)
           LS == Total(Of(k, SellOrders, logged))
           BS == Total(Booking(k, SellOrders))
<1>1. worker[w] # Idle /\ f \in Fills /\ OrderOf[f] \in Orders /\ FillQty[f] \in Nat
  BY JobTypes DEF AtPosition
<1>2. k \in Keys /\ SellOrders \in SUBSET Orders
  BY <1>1, PositionsAssumption DEF KeyOfFill, SellOrders
<1>3. LS <= Held(StartPosition[k])
  <2> DEFINE p == Of(k, SellOrders, logged)
             q == Of(k, SellOrders, Quantity)
  <2>1. logged \in [Orders -> Nat] /\ Quantity \in [Orders -> Nat]
    BY OrdersAssumption DEF TypeOK
  <2>2. /\ p \in [Orders -> Nat] /\ Total(p) \in Nat
        /\ q \in [Orders -> Nat] /\ Total(q) \in Nat
    BY <1>2, <2>1, OfIsAFunction
  <2>3. ASSUME NEW o \in Orders PROVE logged[o] <= Quantity[o]
    <3>1. logged[o] <= row[o].filled /\ row[o].filled <= Quantity[o]
      BY DEF Rest, FilledCoversLog, FillMatchesStatus
    <3>2. logged[o] \in Nat /\ row[o].filled \in Nat /\ Quantity[o] \in Nat
      BY <2>1 DEF TypeOK, OrderRows
    <3> QED BY <3>1, <3>2
  <2>4. \A o \in Orders : p[o] <= q[o]
    BY <2>3 DEF Of
  <2>5. Total(q) <= Held(StartPosition[k])
    BY <1>2 DEF SalesAreCovered
  <2> HIDE DEF p, q
  <2>6. Total(p) <= Total(q)
    BY <2>2, <2>4, TotalIsMonotone, FinitenessAssumption
  <2>7. Total(p) <= Held(StartPosition[k])
    BY <1>2, <2>2, <2>5, <2>6, LedgerTypes
  <2> QED BY <2>7 DEF p
<1>4. FillQty[f] <= BS
  <2> DEFINE b == Booking(k, SellOrders)
  <2>1. b[w] = FillQty[f]
    BY BookingIsOwn DEF Own, Part
  <2>2. b \in [Workers -> Nat]
    BY <1>2, BookingIsAFunction
  <2> HIDE DEF b
  <2>3. b[w] <= Total(b)
    BY <2>2, TotalBounds, FinitenessAssumption
  <2> QED BY <2>1, <2>3 DEF b
<1>5. Held(StartPosition[k]) + BS <= Held(position[k]) + LS
  BY <1>2 DEF PositionsIInv, Ledger, CoversSales
<1>6. BS \in Nat /\ LS \in Nat /\ Held(StartPosition[k]) \in Nat /\ Held(position[k]) \in Nat
  BY <1>2, LedgerTypes
<1> HIDE DEF BS, LS, k, f
<1>7. FillQty[f] <= Held(position[k])
  BY <1>1, <1>3, <1>4, <1>5, <1>6
<1> QED BY <1>7 DEF f, k

\* A fill is booked: what it takes from the bookings it gives to the position.
LEMMA BookingKeepsLedger ==
  ASSUME TypeOK, TypeOK', Rest, FillMatchesStatus, SalesAreCovered, PositionsIInv, failures = 0,
         NEW w \in Workers, AtPosition(w), ~AtPosition(w)',
         \A v \in Workers \ {w} : worker'[v] = worker[v],
         logged' = logged,
         position' = [position EXCEPT ![KeyOfFill(worker[w].fill)] =
                          NewQuantity(Held(@), worker[w].fill)],
         NEW k \in Keys
  PROVE  Agrees(k)' /\ CoversSales(k)'
<1> DEFINE f == worker[w].fill
           LB == Total(Of(k, BuyOrders, logged))
           LS == Total(Of(k, SellOrders, logged))
           BB == Total(Booking(k, BuyOrders))
           BS == Total(Booking(k, SellOrders))
           pB == Part(f, k, BuyOrders)
           pS == Part(f, k, SellOrders)
<1>1. worker[w] # Idle /\ f \in Fills /\ OrderOf[f] \in Orders /\ FillQty[f] \in Nat \ {0}
  BY JobTypes DEF AtPosition
<1>2. BuyOrders \in SUBSET Orders /\ SellOrders \in SUBSET Orders
  BY OrdersAssumption DEF SellOrders
<1>3. ASSUME NEW S \in SUBSET Orders
      PROVE  Total(Booking(k, S))' = Total(Booking(k, S)) - Part(f, k, S)
  <2>1. Own(w, k, S) = Part(f, k, S) /\ Own(w, k, S)' = 0
    BY DEF Own
  <2>2. Total(Booking(k, S))' = Total(Booking(k, S)) - Own(w, k, S) + Own(w, k, S)'
    BY BookingFollows
  <2>3. Total(Booking(k, S)) \in Nat
    BY BookingIsAFunction
  <2>4. Part(f, k, S) \in Nat
    BY <1>1 DEF Part
  <2> QED BY <2>1, <2>2, <2>3, <2>4
<1>4. BB' = BB - pB /\ BS' = BS - pS
  BY <1>2, <1>3
<1>5. LB' = LB /\ LS' = LS
  BY DEF Of, Total, Shares
<1>6. pB \in Nat /\ pS \in Nat
  BY <1>1 DEF Part
<1>7. /\ LB \in Nat /\ LS \in Nat /\ BB \in Nat /\ BS \in Nat
      /\ Held(position[k]) \in Nat /\ Held(StartPosition[k]) \in Nat
  BY LedgerTypes
<1>8. Held(position[k])' = Held(position[k]) + pB - pS
  <2>1. KeyOfFill(f) \in Keys
    BY <1>1, PositionsAssumption DEF KeyOfFill
  <2>2. position \in [Keys -> Nat \cup {NoRow}]
    BY DEF TypeOK
  <2>3. CASE KeyOfFill(f) # k
    <3>1. position'[k] = position[k]
      BY <2>1, <2>2, <2>3
    <3>2. pB = 0 /\ pS = 0
      BY <2>3 DEF Part
    <3> QED BY <1>7, <3>1, <3>2 DEF Held
  <2>4. CASE KeyOfFill(f) = k
    <3>1. position'[k] = NewQuantity(Held(position[k]), f)
      BY <2>1, <2>2, <2>4
    <3>2. CASE OrderOf[f] \in BuyOrders
      <4>1. pB = FillQty[f] /\ pS = 0
        BY <2>4, <3>2 DEF Part, SellOrders
      <4>2. position'[k] = Held(position[k]) + FillQty[f]
        BY <3>1, <3>2 DEF NewQuantity
      <4>3. position'[k] # NoRow
        BY <1>1, <1>7, <4>2 DEF NoRow
      <4>4. Held(position[k])' = position'[k]
        BY <4>3 DEF Held
      <4> HIDE DEF pB, pS
      <4> QED BY <1>1, <1>7, <4>1, <4>2, <4>4
    <3>3. CASE OrderOf[f] \notin BuyOrders
      <4>1. OrderOf[f] \in SellOrders
        BY <1>1, <3>3 DEF SellOrders
      <4>2. pB = 0 /\ pS = FillQty[f]
        BY <2>4, <3>3, <4>1 DEF Part
      <4>3. FillQty[f] <= Held(position[k])
        BY <2>4, <4>1, SalesFit
      <4>4. position'[k] = Held(position[k]) - FillQty[f]
        BY <1>1, <1>7, <3>1, <3>3, <4>3 DEF NewQuantity
      <4>5. position'[k] # NoRow
        BY <1>1, <1>7, <4>3, <4>4 DEF NoRow
      <4>6. Held(position[k])' = position'[k]
        BY <4>5 DEF Held
      <4> HIDE DEF pB, pS
      <4> QED BY <1>1, <1>7, <4>2, <4>4, <4>6
    <3> QED BY <3>2, <3>3
  <2> QED BY <2>3, <2>4
<1>9. /\ Held(position[k]) + BB - BS = Held(StartPosition[k]) + LB - LS
      /\ Held(StartPosition[k]) + BS <= Held(position[k]) + LS
  BY DEF PositionsIInv, Ledger, Agrees, CoversSales
<1> HIDE DEF LB, LS, BB, BS, pB, pS
<1>10. /\ Held(position[k])' + BB' - BS' = Held(StartPosition[k]) + LB' - LS'
       /\ Held(StartPosition[k]) + BS' <= Held(position[k])' + LS'
  BY <1>4, <1>5, <1>6, <1>7, <1>8, <1>9
<1> QED BY <1>10 DEF Agrees, CoversSales, LB, LS, BB, BS

LEMMA UpdateKeepsPositions ==
  ASSUME TypeOK, TypeOK', Rest, FillMatchesStatus, SalesAreCovered, PositionsIInv,
         NEW w \in Workers, UpdatePosition(w)
  PROVE  PositionsIInv'
<1> DEFINE f == worker[w].fill
           k == KeyOfFill(f)
<1>1. /\ worker[w] # Idle /\ worker[w].pc = "position" /\ position[k] # NoRow
      /\ position' = [position EXCEPT ![k] = NewQuantity(@, f)]
      /\ worker' = [worker EXCEPT ![w] = Idle]
      /\ UNCHANGED <<logged, failures>>
  BY DEF UpdatePosition
<1>2. k \in Keys /\ OrderOf[f] \in Orders /\ FillQty[f] \in Nat
  BY <1>1, JobTypes, PositionsAssumption DEF KeyOfFill
<1>3. worker'[w] = Idle /\ \A v \in Workers \ {w} : worker'[v] = worker[v]
  BY <1>1 DEF TypeOK
<1>4. \A l \in Keys \ {k} : position'[l] = position[l]
  BY <1>2, <1>1 DEF TypeOK
<1>5. AtPosition(w) /\ ~AtPosition(w)'
  BY <1>1, <1>3 DEF AtPosition
<1>6. Held(position[k]) = position[k]
  BY <1>1 DEF Held
<1>7. RowsStay'
  <2>1. \A l \in Keys : position'[l] = NoRow /\ l # k => position[l] = NoRow
    BY <1>4
  <2>2. NewQuantity(position[k], f) # NoRow
    <3>1. position[k] \in Nat
      BY <1>1, <1>2 DEF TypeOK
    <3> QED BY <3>1, <1>2 DEF NewQuantity, NoRow
  <2>3. position'[k] # NoRow
    BY <1>1, <1>2, <2>2 DEF TypeOK
  <2> QED BY <2>1, <2>3 DEF PositionsIInv, RowsStay
<1>8. InsertsMiss'
  <2> SUFFICES ASSUME NEW v \in Workers, worker'[v] # Idle, worker'[v].pc = "insert"
               PROVE  position'[KeyOfFill(worker'[v].fill)] = NoRow
    BY DEF InsertsMiss
  <2>1. v # w /\ worker'[v] = worker[v]
    BY <1>3
  <2>2. position[KeyOfFill(worker[v].fill)] = NoRow
    BY <2>1 DEF PositionsIInv, InsertsMiss
  <2>3. KeyOfFill(worker[v].fill) \in Keys
    BY <2>1, JobTypes, PositionsAssumption DEF KeyOfFill
  <2> QED BY <1>1, <1>4, <2>1, <2>2, <2>3
<1>9. Ledger'
  <2>1. position' = [position EXCEPT ![k] = NewQuantity(Held(@), f)]
    BY <1>1, <1>6
  <2> QED BY <1>1, <1>3, <1>5, <2>1, BookingKeepsLedger DEF Ledger
<1> QED BY <1>7, <1>8, <1>9 DEF PositionsIInv

\* The row a worker inserts is new, and no other worker is about to insert it.
LEMMA InsertKeepsPositions ==
  ASSUME TypeOK, TypeOK', Rest, FillMatchesStatus, SalesAreCovered, NewKeysHaveOneWorker,
         PositionsIInv, NEW w \in Workers, InsertPosition(w)
  PROVE  PositionsIInv'
<1> DEFINE f == worker[w].fill
           k == KeyOfFill(f)
<1>1. /\ worker[w] # Idle /\ worker[w].pc = "insert"
      /\ worker' = [worker EXCEPT ![w] = Idle]
      /\ UNCHANGED <<logged, failures>>
  BY DEF InsertPosition
<1>2. k \in Keys /\ OrderOf[f] \in Orders /\ FillQty[f] \in Nat
  BY <1>1, JobTypes, PositionsAssumption DEF KeyOfFill
<1>3. position[k] = NoRow
  BY <1>1 DEF PositionsIInv, InsertsMiss
<1>4. position' = [position EXCEPT ![k] = NewQuantity(0, f)]
  BY <1>3 DEF InsertPosition
<1>5. worker'[w] = Idle /\ \A v \in Workers \ {w} : worker'[v] = worker[v]
  BY <1>1 DEF TypeOK
<1>6. \A l \in Keys \ {k} : position'[l] = position[l]
  BY <1>2, <1>4 DEF TypeOK
<1>7. AtPosition(w) /\ ~AtPosition(w)'
  BY <1>1, <1>5 DEF AtPosition
<1>8. Held(position[k]) = 0
  BY <1>3 DEF Held
<1>9. StartPosition[k] = NoRow
  BY <1>2, <1>3 DEF PositionsIInv, RowsStay
<1>10. RowsStay'
  BY <1>6, <1>9 DEF PositionsIInv, RowsStay
<1>11. InsertsMiss'
  <2> SUFFICES ASSUME NEW v \in Workers, worker'[v] # Idle, worker'[v].pc = "insert"
               PROVE  position'[KeyOfFill(worker'[v].fill)] = NoRow
    BY DEF InsertsMiss
  <2>1. v # w /\ worker'[v] = worker[v]
    BY <1>5
  <2>2. position[KeyOfFill(worker[v].fill)] = NoRow
    BY <2>1 DEF PositionsIInv, InsertsMiss
  <2>3. KeyOfFill(worker[v].fill) \in Keys
    BY <2>1, JobTypes, PositionsAssumption DEF KeyOfFill
  <2>4. OrderOf[worker[v].fill] \in Assigned[v] /\ OrderOf[f] \in Assigned[w]
    BY <1>1, <2>1 DEF Rest, OwnsItsOrder
  <2>5. KeyOfFill(worker[v].fill) # k
    BY <1>9, <2>1, <2>4 DEF NewKeysHaveOneWorker, KeyOfFill
  <2> QED BY <1>6, <2>1, <2>2, <2>3, <2>5
<1>12. Ledger'
  <2>1. position' = [position EXCEPT ![k] = NewQuantity(Held(@), f)]
    BY <1>4, <1>8
  <2> QED BY <1>1, <1>5, <1>7, <2>1, BookingKeepsLedger DEF Ledger
<1> QED BY <1>10, <1>11, <1>12 DEF PositionsIInv

LEMMA MissKeepsPositions ==
  ASSUME TypeOK, PositionsIInv, NEW w \in Workers, MissPosition(w)
  PROVE  PositionsIInv'
<1> DEFINE f == worker[w].fill
<1>1. /\ worker[w] \in Jobs /\ worker[w] # Idle /\ worker[w].pc = "position"
      /\ position[KeyOfFill(f)] = NoRow
      /\ worker' = [worker EXCEPT ![w] = [worker[w] EXCEPT !.pc = "insert"]]
      /\ UNCHANGED <<logged, position, failures>>
  BY JobTypes DEF MissPosition
<1>2. /\ worker'[w].pc = "insert" /\ worker'[w].fill = f /\ worker'[w] # Idle
      /\ \A v \in Workers \ {w} : worker'[v] = worker[v]
  BY <1>1 DEF TypeOK, Jobs, Idle
<1>3. RowsStay'
  BY <1>1 DEF PositionsIInv, RowsStay
<1>4. InsertsMiss'
  BY <1>1, <1>2 DEF PositionsIInv, InsertsMiss
<1>5. Ledger'
  <2> SUFFICES ASSUME failures = 0, NEW k \in Keys PROVE Agrees(k)' /\ CoversSales(k)'
    BY <1>1 DEF Ledger
  <2>1. Agrees(k) /\ CoversSales(k)
    BY DEF PositionsIInv, Ledger
  <2>2. ASSUME NEW S PROVE Booking(k, S)' = Booking(k, S)
    BY <1>1, <1>2 DEF Booking, Books
  <2>3. Booking(k, BuyOrders)' = Booking(k, BuyOrders)
    BY <2>2
  <2>4. Booking(k, SellOrders)' = Booking(k, SellOrders)
    BY <2>2
  <2> QED BY <1>1, <2>1, <2>3, <2>4 DEF Agrees, CoversSales, Of, Total, Shares
<1> QED BY <1>3, <1>4, <1>5 DEF PositionsIInv

\* A failure ends what the ledger says.
LEMMA AbandonKeepsPositions ==
  ASSUME TypeOK, PositionsIInv, NEW w \in Workers, Abandon(w)
  PROVE  PositionsIInv'
<1>1. /\ worker' = [worker EXCEPT ![w] = Idle]
      /\ failures' = failures + 1
      /\ position' = position
  BY DEF Abandon
<1>2. \A v \in Workers : worker'[v] = worker[v] \/ worker'[v] = Idle
  BY <1>1 DEF TypeOK
<1>3. RowsStay' /\ InsertsMiss'
  BY <1>1, <1>2 DEF PositionsIInv, RowsStay, InsertsMiss
<1>4. Ledger'
  <2>1. failures \in Nat
    BY BoundsAssumption DEF TypeOK
  <2>2. failures' # 0
    BY <1>1, <2>1
  <2> QED BY <2>2 DEF Ledger
<1> QED BY <1>3, <1>4 DEF PositionsIInv

LEMMA InitPositions == Init => PositionsIInv
<1> SUFFICES ASSUME Init PROVE PositionsIInv
  OBVIOUS
<1>1. RowsStay /\ InsertsMiss
  BY DEF Init, RowsStay, InsertsMiss
<1>2. TypeOK
  BY InitTypes
<1>3. ASSUME NEW k \in Keys PROVE Agrees(k) /\ CoversSales(k)
  <2>1. BuyOrders \in SUBSET Orders /\ SellOrders \in SUBSET Orders
    BY OrdersAssumption DEF SellOrders
  <2>2. ASSUME NEW S \in SUBSET Orders
        PROVE  Total(Of(k, S, logged)) = 0 /\ Total(Booking(k, S)) = 0
    <3>1. logged \in [Orders -> Nat] /\ \A o \in Orders : logged[o] = 0
      BY DEF Init
    <3>2. Of(k, S, logged) \in [Orders -> Nat] /\ \A o \in Orders : Of(k, S, logged)[o] = 0
      BY <3>1 DEF Of
    <3>3. Booking(k, S) \in [Workers -> Nat]
      BY <1>2, BookingIsAFunction
    <3>4. \A w \in Workers : Booking(k, S)[w] = 0
      BY DEF Init, Booking, Books
    <3> QED BY <3>2, <3>3, <3>4, TotalOfNothing
  <2>3. position[k] = StartPosition[k] /\ Held(StartPosition[k]) \in Nat
    BY <1>2, LedgerTypes DEF Init
  <2> QED BY <2>1, <2>2, <2>3 DEF Agrees, CoversSales
<1> QED BY <1>1, <1>3 DEF PositionsIInv, Ledger

LEMMA NextPositions ==
  ASSUME TypeOK, TypeOK', Rest, FillMatchesStatus, SalesAreCovered, NewKeysHaveOneWorker,
         PositionsIInv, [Next]_vars
  PROVE  PositionsIInv'
<1>1. ASSUME NEW w \in Workers, NEW j, logged' = logged, position' = position,
             failures' = failures, ~AtPosition(w),
             worker' = [worker EXCEPT ![w] = j], j = Idle \/ j.pc \in {"transition", "log"}
      PROVE  PositionsIInv'
  <2>1. worker'[w] = j /\ \A v \in Workers \ {w} : worker'[v] = worker[v]
    BY <1>1 DEF TypeOK
  <2>2. ~AtPosition(w)'
    BY <1>1, <2>1 DEF AtPosition
  <2> QED BY <1>1, <2>1, <2>2, QuietPositions
<1>2. ASSUME NEW w \in Workers, NEW f \in Fills, BeginFill(w, f) PROVE PositionsIInv'
  <2> DEFINE j == [pc |-> "transition", fill |-> f, seen |-> row[OrderOf[f]]]
  <2>1. worker' = [worker EXCEPT ![w] = j] /\ ~AtPosition(w)
        /\ UNCHANGED <<logged, position, failures>>
    BY <1>2 DEF BeginFill, Take, AtPosition
  <2>2. j.pc = "transition"
    OBVIOUS
  <2> HIDE DEF j
  <2> QED BY <1>1, <2>1, <2>2
<1>3. ASSUME NEW w \in Workers, ApplyTransition(w) PROVE PositionsIInv'
  <2> DEFINE j == [worker[w] EXCEPT !.pc = "log"]
  <2>1. worker' = [worker EXCEPT ![w] = j] /\ ~AtPosition(w)
        /\ UNCHANGED <<logged, position, failures>>
    BY <1>3 DEF ApplyTransition, AtPosition
  <2>2. j.pc = "log"
    BY <1>3, JobTypes DEF ApplyTransition, Jobs
  <2> HIDE DEF j
  <2> QED BY <1>1, <2>1, <2>2
<1>4. ASSUME NEW w \in Workers, RaiseTransition(w) PROVE PositionsIInv'
  <2>1. worker' = [worker EXCEPT ![w] = Idle] /\ ~AtPosition(w)
        /\ UNCHANGED <<logged, position, failures>>
    BY <1>4 DEF RaiseTransition, AtPosition
  <2> QED BY <1>1, <2>1
<1>5. ASSUME NEW w \in Workers, MissPosition(w) PROVE PositionsIInv'
  BY <1>5, MissKeepsPositions
<1>6. ASSUME NEW w \in Workers, Abandon(w) PROVE PositionsIInv'
  BY <1>6, AbandonKeepsPositions
<1>7. ASSUME logged' = logged, position' = position, worker' = worker,
             failures' = 0 => failures = 0
      PROVE  PositionsIInv'
  BY <1>7, QuietPositions
<1>8. ASSUME NEW w \in Workers, NEW f \in Fills, SkipFill(w, f) PROVE PositionsIInv'
  BY <1>7, <1>8 DEF SkipFill, Take
<1>9. ASSUME NEW w \in Workers, FillStep(w) PROVE PositionsIInv'
  <2>1. CASE WriteTradeLog(w)
    BY <2>1, WriteTradeLogKeepsPositions
  <2>2. CASE UpdatePosition(w)
    BY <2>2, UpdateKeepsPositions
  <2>3. CASE InsertPosition(w)
    BY <2>3, InsertKeepsPositions
  <2> QED BY <1>2, <1>3, <1>4, <1>5, <1>8, <1>9, <2>1, <2>2, <2>3 DEF FillStep
<1>10. ASSUME NEW o \in Orders, Acknowledge(o) \/ Cancel(o) \/ Age(o) \/ ExpireOrder(o)
       PROVE  PositionsIInv'
  BY <1>7, <1>10 DEF Acknowledge, Cancel, Report, Age, ExpireOrder
<1>11. ASSUME NEW o \in Orders, ExpiryFails(o) PROVE PositionsIInv'
  <2>1. UNCHANGED <<logged, position, worker>>
    BY <1>11 DEF ExpiryFails
  <2>2. failures' = 0 => failures = 0
    <3>1. failures' = failures \/ failures' = failures + 1
      BY <1>11 DEF ExpiryFails
    <3>2. failures \in Nat
      BY BoundsAssumption DEF TypeOK
    <3> QED BY <3>1, <3>2
  <2> QED BY <1>7, <2>1, <2>2
<1>12. ASSUME NEW f \in Fills, Deliver(f) PROVE PositionsIInv'
  BY <1>7, <1>12 DEF Deliver
<1>13. ASSUME Scan \/ UNCHANGED vars PROVE PositionsIInv'
  BY <1>7, <1>13 DEF Scan, vars
<1> QED BY <1>6, <1>9, <1>10, <1>11, <1>12, <1>13 DEF Next, MonitorStep

\* Every trade log row reaches the position, through duplicates, cancellations,
\* expiries and any interleaving of workers on one position: nothing is booked
\* twice or lost before the first failure.  The hypotheses are the two races
\* and the clamp the code leaves open: process_fill lets go of the row lock, two
\* workers may insert one position, and a sale past 0 is cut off.
THEOREM PositionsAgree ==
  Disjoint /\ NewKeysHaveOneWorker /\ SalesAreCovered => (Spec => []PositionAgreesWithLog)
<1> SUFFICES ASSUME Disjoint, NewKeysHaveOneWorker, SalesAreCovered
             PROVE  Spec => []PositionAgreesWithLog
  OBVIOUS
<1>1. TypeOK /\ TypeOK' /\ Rest /\ FillMatchesStatus /\ PositionsIInv /\ [Next]_vars
        => PositionsIInv'
  BY NextPositions
<1>2. PositionsIInv => PositionAgreesWithLog
  BY DEF PositionsIInv, Ledger, Agrees, PositionAgreesWithLog
<1> QED BY <1>1, <1>2, InitPositions, TypeCorrect, RestHolds, StatusMatchesFilled, PTL DEF Spec
=============================================================================
