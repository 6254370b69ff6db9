----------------------- MODULE PositionReconciliation ----------------------
(***************************************************************************)
(* PositionReconciliationMonitor beside the orders it looks at.  A cycle   *)
(* goes from exchange to exchange: read the broker's positions, read the   *)
(* order rows, compare symbol by symbol, and for each symbol that differs  *)
(* publish a breach and then set the exchange's circuit breaker, a Redis   *)
(* key that expires.  Any of these may raise: the exchange is given up     *)
(* until the next cycle.                                                   *)
(*                                                                         *)
(* Between the broker and the rows are the fills on their way.  A fill is  *)
(* refused for good when the row no longer accepts one, and an order that  *)
(* the timeout monitor expired stays live at the broker.  Fill processing  *)
(* is one step here; FillProcessing has its details.  Time is counted in   *)
(* reconciliation intervals.                                               *)
(***************************************************************************)
EXTENDS OrderStatuses, Integers, FiniteSets

CONSTANTS
  OrderIds, Quantity,
  BuyOrders,         \* the orders whose side is BUY
  Symbols, SymbolOf,
  Exchanges, ExchangeOf,  \* ExchangeOf: [Symbols -> Exchanges]
  TTL,               \* CIRCUIT_BREAKER_TTL_SECONDS in intervals
  MaxExceptions,     \* bound on the exceptions a cycle meets
  MaxResumes         \* bound on manual resumes

ASSUME OrderIdsAssumption ==
  /\ IsFiniteSet(OrderIds)
  /\ Quantity \in [OrderIds -> Nat \ {0}]
  /\ BuyOrders \subseteq OrderIds
  /\ SymbolOf \in [OrderIds -> Symbols]
  /\ ExchangeOf \in [Symbols -> Exchanges]
ASSUME BoundsAssumption ==
  TTL \in Nat \ {0} /\ MaxExceptions \in Nat /\ MaxResumes \in Nat

VARIABLES
  row,        \* [OrderIds -> [status, filled]]: order rows
  executed,   \* [OrderIds -> Nat]: shares the broker executed
  inFlight,   \* [OrderIds -> Nat]: executed shares whose fill is on its way
  live,       \* orders the broker still works on
  open,       \* _is_market_hours
  breaker,    \* [Exchanges -> 0..TTL]: intervals until the key expires, 0 without one
  todo,       \* exchanges the current cycle has not finished
  monitor,    \* what the cycle is doing
  exceptions, resumes

orders == <<row, executed, inFlight, live>>
world == <<orders, open>>
monitorVars == <<world, breaker, todo, monitor, exceptions, resumes>>

Sleeping == [pc |-> "sleep"]
Between == [pc |-> "next"]
NoFault == UNCHANGED exceptions
Fault == exceptions < MaxExceptions /\ exceptions' = exceptions + 1

MonitorTypeOK ==
  /\ row \in [OrderIds -> [status : Statuses, filled : Nat]]
  /\ executed \in [OrderIds -> Nat] /\ inFlight \in [OrderIds -> Nat]
  /\ live \subseteq OrderIds
  /\ open \in BOOLEAN
  /\ breaker \in [Exchanges -> 0..TTL]
  /\ todo \subseteq Exchanges
  /\ monitor \in {Sleeping, Between}
        \cup [pc : {"rows"}, exchange : Exchanges, snapshot : [Symbols -> Int]]
        \cup [pc : {"handle", "set"}, exchange : Exchanges, bad : SUBSET Symbols]
  /\ exceptions \in 0..MaxExceptions /\ resumes \in 0..MaxResumes

MonitorInit ==
  /\ row = [o \in OrderIds |-> [status |-> "SUBMITTED", filled |-> 0]]
  /\ executed = [o \in OrderIds |-> 0] /\ inFlight = [o \in OrderIds |-> 0]
  /\ live = OrderIds
  /\ open = TRUE
  /\ breaker = [x \in Exchanges |-> 0]
  /\ todo = {} /\ monitor = Sleeping
  /\ exceptions = 0 /\ resumes = 0

-----------------------------------------------------------------------------
(***************************************************************************)
(* Broker, fill processing and timeout monitor                             *)
(***************************************************************************)
unmoved == <<open, breaker, todo, monitor, exceptions, resumes>>

Accepts(o) == row[o].status \in {"ACKNOWLEDGED", "PARTIAL_FILL"}

Acknowledge(o) ==
  /\ row[o].status = "SUBMITTED"
  /\ row' = [row EXCEPT ![o].status = "ACKNOWLEDGED"]
  /\ UNCHANGED <<executed, inFlight, live, unmoved>>

Execute(o) ==
  /\ o \in live
  /\ executed' = [executed EXCEPT ![o] = @ + 1]
  /\ inFlight' = [inFlight EXCEPT ![o] = @ + 1]
  /\ live' = IF executed[o] + 1 = Quantity[o] THEN live \ {o} ELSE live
  /\ UNCHANGED <<row, unmoved>>

\* process_fill counts the share.
CountFill(o) ==
  LET n == row[o].filled + 1
  IN /\ inFlight[o] > 0 /\ Accepts(o)
     /\ inFlight' = [inFlight EXCEPT ![o] = @ - 1]
     /\ row' = [row EXCEPT ![o] =
                   [status |-> IF n >= Quantity[o] THEN "FILLED" ELSE "PARTIAL_FILL",
                    filled |-> n]]
     /\ UNCHANGED <<executed, live, unmoved>>

\* process_fill refuses it, and it does not come again.
RefuseFill(o) ==
  /\ inFlight[o] > 0 /\ ~Accepts(o)
  /\ inFlight' = [inFlight EXCEPT ![o] = @ - 1]
  /\ UNCHANGED <<row, executed, live, unmoved>>

\* The broker cancels what is left and its handler writes the row.
CancelRest(o) ==
  /\ o \in live
  /\ "CANCELLED" \in VALID_TRANSITIONS[row[o].status]
  /\ live' = live \ {o}
  /\ row' = [row EXCEPT ![o].status = "CANCELLED"]
  /\ UNCHANGED <<executed, inFlight, unmoved>>

\* The timeout monitor expires the row; nobody tells the broker.
Expire(o) ==
  /\ row[o].status = "ACKNOWLEDGED"
  /\ row' = [row EXCEPT ![o].status = "EXPIRED"]
  /\ UNCHANGED <<executed, inFlight, live, unmoved>>

-----------------------------------------------------------------------------
(***************************************************************************)
(* One cycle                                                               *)
(***************************************************************************)
OrdersIn(s) == {o \in OrderIds : SymbolOf[o] = s}

\* A quantity of each order of S, as the set of its single shares.
Shares(quantity, S) == UNION {{o} \X (1..quantity[o]) : o \in S}

\* The shares bought less the shares sold.
Net(quantity, s) ==
  Cardinality(Shares(quantity, OrdersIn(s) \cap BuyOrders))
    - Cardinality(Shares(quantity, OrdersIn(s) \ BuyOrders))

BrokerNet(s) == Net(executed, s)

\* Mutant of CountedStatuses: partly filled orders are left out.
CountedFilledOnly == {"FILLED", "ACKNOWLEDGED"}

\* The statuses _get_internal_positions selects.
CountedStatuses == {"FILLED", "PARTIAL_FILL", "ACKNOWLEDGED"}

InternalNet(s) ==
  Net([o \in OrderIds |-> IF row[o].status \in CountedStatuses THEN row[o].filled ELSE 0], s)

On(x) == {s \in Symbols : ExchangeOf[s] = x}

\* Mutant of Tick: an expired key goes on counting.
TickUnclamped ==
  /\ monitor = Sleeping
  /\ breaker' = [x \in Exchanges |-> breaker[x] - 1]
  /\ IF open THEN todo' = Exchanges /\ monitor' = Between ELSE UNCHANGED <<todo, monitor>>
  /\ UNCHANGED <<world, exceptions, resumes>>

\* An interval passes: keys expire, and the loop wakes up in market hours.
Tick ==
  /\ monitor = Sleeping
  /\ breaker' = [x \in Exchanges |-> IF breaker[x] > 0 THEN breaker[x] - 1 ELSE 0]
  /\ IF open THEN todo' = Exchanges /\ monitor' = Between ELSE UNCHANGED <<todo, monitor>>
  /\ UNCHANGED <<world, exceptions, resumes>>

\* get_positions of the next exchange's adapter.
ReadBroker(x) ==
  /\ monitor = Between /\ x \in todo
  /\ todo' = todo \ {x}
  /\ \/ /\ monitor' = [pc |-> "rows", exchange |-> x,
                       snapshot |-> [s \in Symbols |-> BrokerNet(s)]]
        /\ NoFault
     \/ monitor' = Between /\ Fault
  /\ UNCHANGED <<world, breaker, resumes>>

\* The order rows are selected later, and compared with the answer.
ReadRows ==
  /\ monitor.pc = "rows"
  /\ \/ /\ monitor' = [pc |-> "handle", exchange |-> monitor.exchange,
                       bad |-> {s \in On(monitor.exchange) :
                                  monitor.snapshot[s] # InternalNet(s)}]
        /\ NoFault
     \/ monitor' = Between /\ Fault
  /\ UNCHANGED <<world, breaker, todo, resumes>>

\* The breach of a symbol is published; a ProducerError ends the exchange.
PublishBreach(s) ==
  /\ monitor.pc = "handle" /\ s \in monitor.bad
  /\ \/ monitor' = [monitor EXCEPT !.pc = "set", !.bad = @ \ {s}] /\ NoFault
     \/ monitor' = Between /\ Fault
  /\ UNCHANGED <<world, breaker, todo, resumes>>

\* Mutant of SetBreaker: SET NX, a key that is there is not renewed.
SetBreakerOnce ==
  /\ monitor.pc = "set"
  /\ \/ /\ breaker' = [breaker EXCEPT ![monitor.exchange] = IF @ > 0 THEN @ ELSE TTL]
        /\ monitor' = [monitor EXCEPT !.pc = "handle"]
        /\ NoFault
     \/ monitor' = Between /\ UNCHANGED breaker /\ Fault
  /\ UNCHANGED <<world, todo, resumes>>

\* Then the breaker is set, if Redis answers.
SetBreaker ==
  /\ monitor.pc = "set"
  /\ \/ /\ breaker' = [breaker EXCEPT ![monitor.exchange] = TTL]
        /\ monitor' = [monitor EXCEPT !.pc = "handle"]
        /\ NoFault
     \/ monitor' = Between /\ UNCHANGED breaker /\ Fault
  /\ UNCHANGED <<world, todo, resumes>>

ExchangeDone ==
  /\ monitor.pc = "handle" /\ monitor.bad = {}
  /\ monitor' = Between
  /\ UNCHANGED <<world, breaker, todo, exceptions, resumes>>

CycleDone ==
  /\ monitor = Between /\ todo = {}
  /\ monitor' = Sleeping
  /\ UNCHANGED <<world, breaker, todo, exceptions, resumes>>
-----------------------------------------------------------------------------
\* An operator deletes the key (CircuitBreakerStateManager.resume).
Resume(x) ==
  /\ breaker[x] > 0 /\ resumes < MaxResumes
  /\ resumes' = resumes + 1
  /\ breaker' = [breaker EXCEPT ![x] = 0]
  /\ UNCHANGED <<world, todo, monitor, exceptions>>

Close ==
  /\ open
  /\ open' = FALSE
  /\ UNCHANGED <<orders, breaker, todo, monitor, exceptions, resumes>>

Open ==
  /\ ~open
  /\ open' = TRUE
  /\ UNCHANGED <<orders, breaker, todo, monitor, exceptions, resumes>>

CycleStep ==
  \/ \E x \in Exchanges : ReadBroker(x)
  \/ ReadRows
  \/ \E s \in Symbols : PublishBreach(s)
  \/ SetBreaker \/ ExchangeDone \/ CycleDone

MonitorNext ==
  \/ \E o \in OrderIds : \/ Acknowledge(o) \/ Execute(o) \/ CountFill(o)
                       \/ RefuseFill(o) \/ CancelRest(o) \/ Expire(o)
  \/ Tick \/ CycleStep
  \/ \E x \in Exchanges : Resume(x)
  \/ Close \/ Open

MonitorSpec == MonitorInit /\ [][MonitorNext]_monitorVars

\* run() sleeps an interval and looks again whatever the last cycle met, a
\* night ends, a trading day is longer than an interval, and a fill on its way is
\* processed.
MonitorFairness ==
  /\ WF_monitorVars(Tick) /\ WF_monitorVars(CycleStep) /\ WF_monitorVars(Open)
  /\ SF_monitorVars(open /\ Tick)
  /\ \A o \in OrderIds : WF_monitorVars(CountFill(o) \/ RefuseFill(o))

MonitorFairSpec == MonitorSpec /\ MonitorFairness
-----------------------------------------------------------------------------
(***************************************************************************)
(* Properties                                                              *)
(***************************************************************************)
Broken(x) == \E s \in On(x) : BrokerNet(s) # InternalNet(s)

\* The reasons a symbol can differ at the moment the rows are read.
Moving(o) == inFlight[o] > 0
Refused(o) == executed[o] # row[o].filled + inFlight[o]
LeftOut(o) == row[o].filled > 0 /\ row[o].status \in {"CANCELLED", "EXPIRED"}
Explained(s) ==
  \/ monitor.snapshot[s] # BrokerNet(s)
  \/ \E o \in OrderIds : SymbolOf[o] = s /\ (Moving(o) \/ Refused(o) \/ LeftOut(o))

\* A difference is found only if a fill was refused or on its way, if shares
\* were executed since the broker answered, or if an order ended CANCELLED or
\* EXPIRED with a fill, which _get_internal_positions leaves out: in any other
\* state the two sides agree and nothing is halted.
DifferencesAreExplained ==
  [][monitor.pc = "rows" /\ monitor'.pc = "handle"
       => \A s \in monitor'.bad : Explained(s)]_monitorVars

\* An account that stays out of step, a fill of an expired order that was
\* refused for one, is halted again on every trading day, after any number of
\* exceptions and manual resumes; and while a market stays open the halt does not
\* end any more: the key is renewed before it expires.
LastingDifferenceHalts ==
  \A x \in Exchanges :
    <>[]Broken(x) => /\ []<>(breaker[x] > 0)
                     /\ <>[]open => <>[](breaker[x] > 0)

\* docs/data-dictionary.md lists pyhron:risk:circuit_breaker without a TTL: the
\* halt of a broken account has no end, the nights included.
BrokenStaysHalted ==
  \A x \in Exchanges : <>[]Broken(x) => <>[](breaker[x] > 0)
=============================================================================
