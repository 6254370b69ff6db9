---------------------------- MODULE FillProcessing ---------------------------
(***************************************************************************)
(* The part of the order management system that follows an order after its *)
(* submission: OrderFillEventProcessor.process_fill, run by any number of  *)
(* workers, and OrderTimeoutMonitor.scan_and_expire beside them.           *)
(*                                                                         *)
(* process_fill is four database transactions, and the row lock of the     *)
(* first one is released before the second begins:                         *)
(*   1. SELECT the order FOR UPDATE, look fill_id up in the trade log;     *)
(*   2. transition(): UPDATE status and filled_quantity from the values    *)
(*      read in 1, then publish the event;                                 *)
(*   3. INSERT the trade log row;                                          *)
(*   4. SELECT the position FOR UPDATE and update or insert it.            *)
(* A worker holds what it read between them, and an exception or the loss  *)
(* of the process ends it anywhere.  The broker delivers a fill at least   *)
(* once.  Prices, costs and settlement dates are left out.                 *)
(***************************************************************************)
EXTENDS OrderStatuses, Integers, FiniteSets

CONSTANTS
  Orders, Fills, Workers,
  OrderOf,        \* the order a fill belongs to
  FillQty,        \* the shares a fill executes
  Quantity,       \* the shares an order asks for
  Identified,     \* fills that carry a fill_id; the others get a fresh uuid
  Keys, KeyOf,    \* (strategy, symbol) pairs, and the one of each order
  BuyOrders,      \* the orders whose side is BUY
  StartPosition,  \* the position rows at the start, NoRow where there is none
  Assigned,       \* the orders whose fills each worker handles
  MayAge,         \* orders that may outlive their TTL
  Cancellable,    \* orders the broker may report cancelled
  MaxDeliveries,  \* bound on the deliveries of one fill
  MaxFailures     \* bound on lost processes and raised exceptions

NoRow == -1

ASSUME OrdersAssumption ==
  /\ Quantity \in [Orders -> Nat \ {0}]
  /\ BuyOrders \subseteq Orders
  /\ MayAge \subseteq Orders
  /\ Cancellable \subseteq Orders
ASSUME FillsAssumption ==
  /\ OrderOf \in [Fills -> Orders]
  /\ FillQty \in [Fills -> Nat \ {0}]
  /\ Identified \subseteq Fills
ASSUME PositionsAssumption ==
  /\ KeyOf \in [Orders -> Keys]
  /\ StartPosition \in [Keys -> Nat \cup {NoRow}]
ASSUME WorkersAssumption == Assigned \in [Workers -> SUBSET Orders]
ASSUME FinitenessAssumption == IsFiniteSet(Orders) /\ IsFiniteSet(Workers)
ASSUME BoundsAssumption == MaxDeliveries \in Nat /\ MaxFailures \in Nat

VARIABLES
  row,        \* [Orders -> [status, filled]]: order rows
  rows,       \* [Fills -> Nat]: trade log rows whose broker_trade_id is the fill
  logged,     \* [Orders -> Nat]: SUM(quantity) of the order's trade log rows
  position,   \* [Keys -> Nat or NoRow]: quantity of the position row
  sent,       \* [Fills -> Nat]: times the broker delivered the fill
  inbox,      \* [Fills -> Nat]: deliveries no worker has taken
  worker,     \* [Workers -> job]
  aged,       \* orders past their TTL
  scan,       \* [Orders -> Statuses or NotHeld]: the monitor's stale objects
  failures

vars == <<row, rows, logged, position, sent, inbox, worker, aged, scan, failures>>

Idle == [pc |-> "idle"]
NotHeld == "not held"
OrderRows == [status : Statuses, filled : Nat]
Jobs == [pc : {"transition", "log", "position", "insert"},
         fill : Fills, seen : OrderRows]

TypeOK ==
  /\ row \in [Orders -> OrderRows]
  /\ rows \in [Fills -> Nat]
  /\ logged \in [Orders -> Nat]
  /\ position \in [Keys -> Nat \cup {NoRow}]
  /\ sent \in [Fills -> 0..MaxDeliveries]
  /\ inbox \in [Fills -> Nat]
  /\ worker \in [Workers -> Jobs \cup {Idle}]
  /\ aged \subseteq Orders
  /\ scan \in [Orders -> Statuses \cup {NotHeld}]
  /\ failures \in 0..MaxFailures

\* Orders enter this module when submit_order has left them SUBMITTED.
Init ==
  /\ row = [o \in Orders |-> [status |-> "SUBMITTED", filled |-> 0]]
  /\ rows = [f \in Fills |-> 0]
  /\ logged = [o \in Orders |-> 0]
  /\ position = StartPosition
  /\ sent = [f \in Fills |-> 0]
  /\ inbox = [f \in Fills |-> 0]
  /\ worker = [w \in Workers |-> Idle]
  /\ aged = {}
  /\ scan = [o \in Orders |-> NotHeld]
  /\ failures = 0
-----------------------------------------------------------------------------
(***************************************************************************)
(* The broker, and the handler of its acknowledgements and cancellations,  *)
(* which calls transition(); neither is part of this repository.           *)
(***************************************************************************)
Report(o, t) ==
  /\ t \in VALID_TRANSITIONS[row[o].status]
  /\ row' = [row EXCEPT ![o].status = t]
  /\ UNCHANGED <<rows, logged, position, sent, inbox, worker, aged, scan, failures>>

Acknowledge(o) == Report(o, "ACKNOWLEDGED")

Cancel(o) == o \in Cancellable /\ Report(o, "CANCELLED")

\* A fill arrives for the first time or once more.
Deliver(f) ==
  /\ sent[f] < MaxDeliveries
  /\ sent' = [sent EXCEPT ![f] = @ + 1]
  /\ inbox' = [inbox EXCEPT ![f] = @ + 1]
  /\ UNCHANGED <<row, rows, logged, position, worker, aged, scan, failures>>

-----------------------------------------------------------------------------
(***************************************************************************)
(* process_fill                                                            *)
(***************************************************************************)
AcceptsFills == {"ACKNOWLEDGED", "PARTIAL_FILL", "SUBMITTED"}

\* Mutant of Eligible: fill_id is not looked up.
EligibleByStatus(f) == row[OrderOf[f]].status \in AcceptsFills

\* The fill passes the status check and the fill_id lookup.
Eligible(f) ==
  /\ row[OrderOf[f]].status \in AcceptsFills
  /\ f \in Identified => rows[f] = 0

Take(w, f) ==
  /\ worker[w] = Idle
  /\ inbox[f] > 0
  /\ OrderOf[f] \in Assigned[w]
  /\ inbox' = [inbox EXCEPT ![f] = @ - 1]
  /\ UNCHANGED <<row, rows, logged, position, sent, aged, scan, failures>>

BeginFill(w, f) ==
  /\ Take(w, f)
  /\ Eligible(f)
  /\ worker' = [worker EXCEPT ![w] = [pc |-> "transition", fill |-> f,
                                      seen |-> row[OrderOf[f]]]]

\* process_fill returns False: unexpected status or duplicate fill_id.
SkipFill(w, f) ==
  /\ Take(w, f)
  /\ ~Eligible(f)
  /\ UNCHANGED worker

\* What transition() would write, from the values the worker read.
Cumulative(j) == j.seen.filled + FillQty[j.fill]

\* Mutant of TargetStatus: an exact fill does not complete the order.
TargetStatusStrict(j) ==
  IF Cumulative(j) > Quantity[OrderOf[j.fill]] THEN "FILLED" ELSE "PARTIAL_FILL"

TargetStatus(j) ==
  IF Cumulative(j) >= Quantity[OrderOf[j.fill]] THEN "FILLED" ELSE "PARTIAL_FILL"

\* The table allows the move and ck_orders_filled_lte_quantity holds.
TransitionAllowed(j) ==
  /\ TargetStatus(j) \in VALID_TRANSITIONS[j.seen.status]
  /\ Cumulative(j) <= Quantity[OrderOf[j.fill]]

ApplyTransition(w) ==
  /\ worker[w] # Idle
  /\ worker[w].pc = "transition"
  /\ TransitionAllowed(worker[w])
  /\ row' = [row EXCEPT ![OrderOf[worker[w].fill]] =
                 [status |-> TargetStatus(worker[w]), filled |-> Cumulative(worker[w])]]
  /\ worker' = [worker EXCEPT ![w].pc = "log"]
  /\ UNCHANGED <<rows, logged, position, sent, inbox, aged, scan, failures>>

\* InvalidTransitionError or IntegrityError leaves process_fill.
RaiseTransition(w) ==
  /\ worker[w] # Idle
  /\ worker[w].pc = "transition"
  /\ ~TransitionAllowed(worker[w])
  /\ worker' = [worker EXCEPT ![w] = Idle]
  /\ UNCHANGED <<row, rows, logged, position, sent, inbox, aged, scan, failures>>

\* Mutant of WriteTradeLog: the row gets the cumulative quantity.
WriteCumulative(w) ==
  /\ worker[w] # Idle
  /\ worker[w].pc = "log"
  /\ rows' = [rows EXCEPT ![worker[w].fill] = @ + 1]
  /\ logged' = [logged EXCEPT ![OrderOf[worker[w].fill]] = @ + Cumulative(worker[w])]
  /\ worker' = [worker EXCEPT ![w].pc = "position"]
  /\ UNCHANGED <<row, position, sent, inbox, aged, scan, failures>>

WriteTradeLog(w) ==
  /\ worker[w] # Idle
  /\ worker[w].pc = "log"
  /\ rows' = [rows EXCEPT ![worker[w].fill] = @ + 1]
  /\ logged' = [logged EXCEPT ![OrderOf[worker[w].fill]] = @ + FillQty[worker[w].fill]]
  /\ worker' = [worker EXCEPT ![w].pc = "position"]
  /\ UNCHANGED <<row, position, sent, inbox, aged, scan, failures>>

\* Mutant of NewQuantity: the side is ignored.
NewQuantityLong(q, f) == q + FillQty[f]

\* The quantity _upsert_position writes over a quantity q for fill f.
NewQuantity(q, f) ==
  IF OrderOf[f] \in BuyOrders THEN q + FillQty[f]
  ELSE IF q > FillQty[f] THEN q - FillQty[f] ELSE 0

KeyOfFill(f) == KeyOf[OrderOf[f]]

\* The position row exists: it is read and updated under its lock.
UpdatePosition(w) ==
  LET f == worker[w].fill
      k == KeyOfFill(f)
  IN /\ worker[w] # Idle
     /\ worker[w].pc = "position"
     /\ position[k] # NoRow
     /\ position' = [position EXCEPT ![k] = NewQuantity(@, f)]
     /\ worker' = [worker EXCEPT ![w] = Idle]
     /\ UNCHANGED <<row, rows, logged, sent, inbox, aged, scan, failures>>

\* There is no row to lock: the worker goes on to insert one.
MissPosition(w) ==
  /\ worker[w] # Idle
  /\ worker[w].pc = "position"
  /\ position[KeyOfFill(worker[w].fill)] = NoRow
  /\ worker' = [worker EXCEPT ![w].pc = "insert"]
  /\ UNCHANGED <<row, rows, logged, position, sent, inbox, aged, scan, failures>>

\* The INSERT: a row another worker inserted meanwhile violates the unique
\* constraint, and the exception leaves process_fill.
InsertPosition(w) ==
  LET f == worker[w].fill
      k == KeyOfFill(f)
  IN /\ worker[w] # Idle
     /\ worker[w].pc = "insert"
     /\ position' = IF position[k] = NoRow
                    THEN [position EXCEPT ![k] = NewQuantity(0, f)]
                    ELSE position
     /\ worker' = [worker EXCEPT ![w] = Idle]
     /\ UNCHANGED <<row, rows, logged, sent, inbox, aged, scan, failures>>

\* ProducerError from the publication that follows the commit, a database
\* error, or the end of the process: the worker forgets the fill.
Abandon(w) ==
  /\ worker[w] # Idle
  /\ failures < MaxFailures
  /\ failures' = failures + 1
  /\ worker' = [worker EXCEPT ![w] = Idle]
  /\ UNCHANGED <<row, rows, logged, position, sent, inbox, aged, scan>>
-----------------------------------------------------------------------------
(***************************************************************************)
(* OrderTimeoutMonitor                                                     *)
(***************************************************************************)
\* Mutant of EXPIRABLE_STATUSES: the scan leaves acknowledged orders out.
OnlySubmitted == {"SUBMITTED"}

EXPIRABLE_STATUSES == {"SUBMITTED", "ACKNOWLEDGED"}

\* The order's TTL runs out.
Age(o) ==
  /\ o \in MayAge \ aged
  /\ aged' = aged \cup {o}
  /\ UNCHANGED <<row, rows, logged, position, sent, inbox, worker, scan, failures>>

Expirable(o) == o \in aged /\ row[o].status \in EXPIRABLE_STATUSES

\* scan_and_expire loads the rows and keeps the expired ones as objects.
Scan ==
  /\ \A o \in Orders : scan[o] = NotHeld
  /\ \E o \in Orders : Expirable(o)
  /\ scan' = [o \in Orders |-> IF Expirable(o) THEN row[o].status ELSE NotHeld]
  /\ UNCHANGED <<row, rows, logged, position, sent, inbox, worker, aged, failures>>

ExpireOrder(o) ==
  /\ scan[o] # NotHeld
  /\ "EXPIRED" \in VALID_TRANSITIONS[scan[o]]
  /\ row' = [row EXCEPT ![o].status = "EXPIRED"]
  /\ scan' = [scan EXCEPT ![o] = NotHeld]
  /\ UNCHANGED <<rows, logged, position, sent, inbox, worker, aged, failures>>

\* _expire_order raises, the loop logs order_expiry_failed and goes on:
\* InvalidTransitionError, or a database error.
ExpiryFails(o) ==
  /\ scan[o] # NotHeld
  /\ \/ "EXPIRED" \notin VALID_TRANSITIONS[scan[o]] /\ UNCHANGED failures
     \/ failures < MaxFailures /\ failures' = failures + 1
  /\ scan' = [scan EXCEPT ![o] = NotHeld]
  /\ UNCHANGED <<row, rows, logged, position, sent, inbox, worker, aged>>

-----------------------------------------------------------------------------
FillStep(w) ==
  \/ \E f \in Fills : BeginFill(w, f) \/ SkipFill(w, f)
  \/ ApplyTransition(w) \/ RaiseTransition(w)
  \/ WriteTradeLog(w)
  \/ UpdatePosition(w) \/ MissPosition(w) \/ InsertPosition(w)

MonitorStep == Scan \/ \E o \in Orders : ExpireOrder(o) \/ ExpiryFails(o)

Next ==
  \/ \E o \in Orders : Acknowledge(o) \/ Cancel(o) \/ Age(o)
  \/ \E f \in Fills : Deliver(f)
  \/ \E w \in Workers : FillStep(w) \/ Abandon(w)
  \/ MonitorStep

Spec == Init /\ [][Next]_vars

\* Workers and the monitor are loops that take their next step whatever
\* happened in the last one; nothing is assumed of the broker or of time.
Fairness ==
  /\ \A w \in Workers : WF_vars(FillStep(w))
  /\ WF_vars(Scan)
  /\ \A o \in Orders : WF_vars(ExpireOrder(o) \/ ExpiryFails(o))

FairSpec == Spec /\ Fairness

-----------------------------------------------------------------------------
(***************************************************************************)
(* Properties                                                              *)
(***************************************************************************)
\* All fills of an order go to one worker.
Disjoint == \A v, w \in Workers : v # w => Assigned[v] \cap Assigned[w] = {}

\* The status column agrees with filled_quantity whatever races: both come from
\* one UPDATE, and no other writer can put an order back among the filled ones.
FillMatchesStatus ==
  \A o \in Orders :
    /\ row[o].filled <= Quantity[o]
    /\ row[o].status = "FILLED" => row[o].filled = Quantity[o]
    /\ row[o].status = "PARTIAL_FILL" => row[o].filled \in 1..(Quantity[o] - 1)

\* filled_quantity never falls behind the trade log.  With one worker for the
\* fills of an order process_fill counts a fill in the row before it records it,
\* even when it dies in between; its comment asks the same of any two workers
\* ("SELECT FOR UPDATE for concurrency safety").
FilledCoversLog == \A o \in Orders : logged[o] <= row[o].filled

\* The trade log has at most one row per fill_id, however often the fill is
\* delivered and wherever an earlier attempt stopped (Step 2 and Step 7).
LoggedOnce == \A f \in Identified : rows[f] <= 1

\* The sum of a function from a finite set to Nat: a share is an argument and a
\* number up to the value there.
Shares(q) == UNION {{x} \X (1..q[x]) : x \in DOMAIN q}
Total(q) == Cardinality(Shares(q))

SellOrders == Orders \ BuyOrders

\* The quantities q of the orders of S that trade k; 0 for the other orders.
Of(k, S, q) == [o \in Orders |-> IF o \in S /\ KeyOf[o] = k THEN q[o] ELSE 0]

\* Worker w is between the trade log and the position of k, for an order of S.
Books(w, k, S) ==
  /\ worker[w] # Idle
  /\ worker[w].pc \in {"position", "insert"}
  /\ OrderOf[worker[w].fill] \in S
  /\ KeyOfFill(worker[w].fill) = k

\* What the workers are about to book for k.
Booking(k, S) ==
  [w \in Workers |-> IF Books(w, k, S) THEN FillQty[worker[w].fill] ELSE 0]

Held(quantity) == IF quantity = NoRow THEN 0 ELSE quantity

\* Every trade log row has reached its position or is about to: the positions
\* are those of the trade log as long as no process is lost between Step 7 and
\* Step 8.
PositionAgreesWithLog ==
  failures = 0 =>
    \A k \in Keys :
      Held(position[k])
        + Total(Booking(k, BuyOrders)) - Total(Booking(k, SellOrders))
      = Held(StartPosition[k])
        + Total(Of(k, BuyOrders, logged)) - Total(Of(k, SellOrders, logged))

\* filled_quantity never exceeds what the broker executed: a fill counts once
\* ("Idempotent: duplicate fill_ids are detected and skipped").
CountedOnce ==
  \A o \in Orders :
    row[o].filled <= Total([f \in Fills |-> IF OrderOf[f] = o /\ sent[f] > 0
                                            THEN FillQty[f] ELSE 0])

\* An acknowledged order past its TTL does not stay acknowledged.
AcknowledgedExpires ==
  \A o \in Orders :
    (o \in aged /\ row[o].status = "ACKNOWLEDGED") ~> row[o].status # "ACKNOWLEDGED"
=============================================================================
