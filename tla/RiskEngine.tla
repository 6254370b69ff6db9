----------------------------- MODULE RiskEngine -----------------------------
(***************************************************************************)
(* The pre-trade risk engine on PyhronConsumer and PyhronProducer.  The    *)
(* stream takes a record, parses it and hands it over; the engine reads    *)
(* the strategy's circuit breaker, runs its checks and publishes a         *)
(* decision, and a breach after a rejection by a check; then the stream    *)
(* commits.  An exception of the engine is logged and the offset committed *)
(* all the same.  An exception of the stream, of parsing or of the commit, *)
(* sends the record to the dead letter queue and commits again; if that    *)
(* raises too, run() ends.  send() tries three times, and an attempt that  *)
(* failed may have been written.                                           *)
(*                                                                         *)
(* The consumer group has committed before, so auto_offset_reset plays no  *)
(* part.  stop() takes the consumer from a record in progress; that is a   *)
(* crash here.                                                             *)
(***************************************************************************)
EXTENDS Integers, Sequences, FiniteSets

CONSTANTS
  LotSize, LossLimit, PositionLimit, VarLimit,   \* percentages but the first
  MaxAge,
  MaxAttempts,   \* max_retries of send
  MaxRecords,    \* bound on the length of the topic
  MaxFaults,     \* bound on the errors of Kafka and Redis
  MaxCrashes     \* bound on crashes and on runs ended by an exception

ASSUME BoundsAssumption ==
  /\ LotSize \in Nat \ {0} /\ MaxAttempts \in Nat \ {0}
  /\ LossLimit \in Nat /\ PositionLimit \in Nat /\ VarLimit \in Nat /\ MaxAge \in Nat
  /\ MaxRecords \in Nat /\ MaxFaults \in Nat /\ MaxCrashes \in Nat

VARIABLES
  topic,      \* Seq({"signal", "garbage"}): pyhron.signals
  committed,  \* committed offset
  position,   \* last record taken
  pc,         \* "down", "idle", "breaker", "checks", "rejection", "approval",
              \* "breach", "commit", "dlq", "recommit"
  byCheck,    \* the rejection comes from a check, so a breach follows
  attempt,    \* attempts of the send in progress
  halted,     \* the strategy's circuit breaker key exists
  decisions,  \* [offset -> Nat]: decisions on pyhron.orders.risk-decisions
  breaches,   \* [offset -> Nat]: breaches on pyhron.risk.breaches
  dead,       \* offsets in the dead letter queue
  dropped,    \* offsets whose evaluation raised, or that the queue did not take
  unacked,    \* attempts that failed and were written
  uncommitted,\* commits that raised
  faults, crashes

stream == <<topic, committed, position, crashes>>
outcome == <<decisions, breaches, dead, dropped>>
tallies == <<unacked, uncommitted>>
vars == <<stream, pc, byCheck, attempt, halted, outcome, tallies, faults>>

Offsets == 1..MaxRecords

TypeOK ==
  /\ topic \in Seq({"signal", "garbage"}) /\ Len(topic) <= MaxRecords
  /\ committed \in 0..Len(topic) /\ position \in 0..Len(topic)
  /\ committed <= position
  /\ pc \in {"down", "idle", "breaker", "checks", "rejection", "approval", "breach",
             "commit", "dlq", "recommit"}
  /\ byCheck \in BOOLEAN /\ halted \in BOOLEAN
  /\ attempt \in 0..MaxAttempts - 1
  /\ decisions \in [Offsets -> Nat] /\ breaches \in [Offsets -> Nat]
  /\ dead \subseteq Offsets /\ dropped \subseteq Offsets
  /\ unacked \in 0..MaxFaults /\ uncommitted \in 0..MaxFaults
  /\ faults \in 0..MaxFaults /\ crashes \in 0..MaxCrashes

Init ==
  /\ topic = <<>> /\ committed = 0 /\ position = 0
  /\ pc = "down" /\ byCheck = FALSE /\ attempt = 0 /\ halted = FALSE
  /\ decisions = [i \in Offsets |-> 0] /\ breaches = [i \in Offsets |-> 0]
  /\ dead = {} /\ dropped = {}
  /\ unacked = 0 /\ uncommitted = 0 /\ faults = 0 /\ crashes = 0

NoFault == UNCHANGED faults
Fault == faults < MaxFaults /\ faults' = faults + 1
-----------------------------------------------------------------------------
(***************************************************************************)
(* The checks, on an order and a portfolio                                 *)
(***************************************************************************)
check_lot_size_constraint(o) == o.quantity > 0 /\ o.quantity % LotSize = 0

check_daily_loss_limit(p) == p.total > 0 /\ -100 * p.pnl <= LossLimit * p.total

check_duplicate_order(o, recent) == o.client_order_id \notin recent

check_signal_staleness(o) == o.age <= MaxAge

check_max_position_size(o, p) ==
  LET after == p.held + o.quantity * (IF o.buy THEN 1 ELSE -1)
      price == IF o.limit_price > 0 THEN o.limit_price ELSE p.price
  IN /\ p.total > 0
     /\ \/ price <= 0
        \/ 100 * price * (IF after < 0 THEN -after ELSE after) <= PositionLimit * p.total

check_portfolio_var(o, p) ==
  \/ p.total <= 0 \/ o.limit_price <= 0
  \/ 100 * p.var + 2 * o.quantity * o.limit_price <= VarLimit * p.total

\* _signal_to_order: a fresh uuid, and neither a quantity nor a limit price.
SignalToOrder(age, buy) ==
  [client_order_id |-> "fresh", quantity |-> 0, limit_price |-> 0, age |-> age, buy |-> buy]

\* _get_portfolio_snapshot: an empty snapshot.
Portfolio == [total |-> 0, pnl |-> 0, var |-> 0, held |-> 0, price |-> 0]

\* The pipeline, up to the first check that fails.
Passes(o, p) ==
  /\ check_lot_size_constraint(o)
  /\ check_daily_loss_limit(p)
  /\ check_duplicate_order(o, {})
  /\ check_signal_staleness(o)
  /\ check_max_position_size(o, p)
  /\ check_portfolio_var(o, p)
-----------------------------------------------------------------------------
(***************************************************************************)
(* The stream                                                              *)
(***************************************************************************)
Publish(kind) ==
  /\ Len(topic) < MaxRecords
  /\ topic' = Append(topic, kind)
  /\ UNCHANGED <<committed, position, crashes, pc, byCheck, attempt, halted, outcome,
                 tallies, faults>>

Start ==
  /\ pc = "down"
  /\ pc' = "idle"
  /\ position' = committed
  /\ UNCHANGED <<topic, committed, crashes, byCheck, attempt, halted, outcome, tallies, faults>>

\* Mutant of Take: the offset is committed as the record is taken.
TakeCommitted ==
  /\ pc = "idle" /\ position < Len(topic)
  /\ position' = position + 1 /\ committed' = position + 1
  /\ pc' = IF topic[position + 1] = "garbage" THEN "dlq" ELSE "breaker"
  /\ UNCHANGED <<topic, crashes, byCheck, attempt, halted, outcome, tallies, faults>>

\* The next record is parsed and handed over, or does not parse.
Take ==
  /\ pc = "idle" /\ position < Len(topic)
  /\ position' = position + 1
  /\ pc' = IF topic[position + 1] = "garbage" THEN "dlq" ELSE "breaker"
  /\ UNCHANGED <<topic, committed, crashes, byCheck, attempt, halted, outcome, tallies, faults>>

\* The commit after the handler, or after the dead letter.
Commit ==
  /\ pc \in {"commit", "recommit"}
  /\ committed' = position
  /\ pc' = "idle"
  /\ UNCHANGED <<topic, position, crashes, byCheck, attempt, halted, outcome, tallies, faults>>

\* Mutant of CommitFails: the next record is taken.
CommitFailsSilently ==
  /\ pc = "commit" /\ Fault
  /\ uncommitted' = uncommitted + 1
  /\ pc' = "idle"
  /\ UNCHANGED <<stream, byCheck, attempt, halted, outcome, unacked>>

\* Mutant of CommitFails: the record is taken again.
CommitFailsAgain ==
  /\ pc = "commit" /\ Fault
  /\ uncommitted' = uncommitted + 1
  /\ pc' = "idle" /\ position' = position - 1
  /\ UNCHANGED <<topic, committed, crashes, byCheck, attempt, halted, outcome, unacked>>

\* The commit raises after the signal was decided: to the dead letters too.
CommitFails ==
  /\ pc = "commit" /\ Fault
  /\ uncommitted' = uncommitted + 1
  /\ pc' = "dlq"
  /\ UNCHANGED <<stream, byCheck, attempt, halted, outcome, unacked>>

\* Mutant of SendToDlq: after every exception of the stream and every commit.
SendToDlqAlways ==
  /\ pc \in {"dlq", "commit"}
  /\ \/ dead' = dead \cup {position} /\ UNCHANGED dropped /\ NoFault
     \/ dropped' = dropped \cup {position} /\ UNCHANGED dead /\ Fault
  /\ pc' = "recommit"
  /\ UNCHANGED <<stream, byCheck, attempt, halted, decisions, breaches, tallies>>

\* _send_to_dlq: one attempt, a KafkaError is swallowed.
SendToDlq ==
  /\ pc = "dlq"
  /\ \/ dead' = dead \cup {position} /\ UNCHANGED dropped /\ NoFault
     \/ dropped' = dropped \cup {position} /\ UNCHANGED dead /\ Fault
  /\ pc' = "recommit"
  /\ UNCHANGED <<stream, byCheck, attempt, halted, decisions, breaches, tallies>>

\* run() ends; the uncommitted record will be delivered again.
Fall ==
  /\ crashes < MaxCrashes /\ crashes' = crashes + 1
  /\ pc' = "down" /\ attempt' = 0
  /\ UNCHANGED <<topic, committed, position, byCheck, halted, outcome, tallies>>

RecommitFails == pc = "recommit" /\ Fault /\ Fall

Crash == pc # "down" /\ Fall /\ NoFault

-----------------------------------------------------------------------------
(***************************************************************************)
(* The engine                                                              *)
(***************************************************************************)
\* run() logs an exception of _evaluate_signal and asks for the next signal.
Raises ==
  /\ pc' = "commit" /\ attempt' = 0
  /\ dropped' = dropped \cup {position}

ReadBreaker ==
  /\ pc = "breaker"
  /\ \/ /\ pc' = IF halted THEN "rejection" ELSE "checks"
        /\ byCheck' = FALSE
        /\ UNCHANGED <<attempt, dropped>> /\ NoFault
     \/ Raises /\ UNCHANGED byCheck /\ Fault
  /\ UNCHANGED <<stream, halted, decisions, breaches, dead, tallies>>

\* Recent orders are read from Redis, then the pipeline runs.
RunChecks ==
  /\ pc = "checks"
  /\ \/ /\ \E age \in {0, MaxAge + 1}, buy \in BOOLEAN :
              IF Passes(SignalToOrder(age, buy), Portfolio)
              THEN pc' = "approval" /\ UNCHANGED byCheck
              ELSE pc' = "rejection" /\ byCheck' = TRUE
        /\ UNCHANGED <<attempt, dropped>> /\ NoFault
     \/ Raises /\ UNCHANGED byCheck /\ Fault
  /\ UNCHANGED <<stream, halted, decisions, breaches, dead, tallies>>

\* What the engine is publishing.  After an approval it pushes the order's uuid
\* to the recent orders, where no other order can match it.
Sending == {"rejection", "approval", "breach"}
Counted(count, n) == [count EXCEPT ![position] = @ + n]
Write(n) ==
  IF pc = "breach" THEN breaches' = Counted(breaches, n) /\ UNCHANGED decisions
  ELSE decisions' = Counted(decisions, n) /\ UNCHANGED breaches

Sent ==
  /\ pc \in Sending
  /\ Write(1)
  /\ pc' = IF pc = "rejection" /\ byCheck THEN "breach" ELSE "commit"
  /\ attempt' = 0
  /\ UNCHANGED <<stream, byCheck, halted, dead, dropped, tallies, faults>>

\* A KafkaError, whether or not the broker has the message: again, or a
\* ProducerError after the last attempt.
SendFails ==
  /\ pc \in Sending /\ Fault
  /\ \E written \in {0, 1} : Write(written) /\ unacked' = unacked + written
  /\ IF attempt + 1 < MaxAttempts
     THEN attempt' = attempt + 1 /\ UNCHANGED <<pc, dropped>>
     ELSE Raises
  /\ UNCHANGED <<stream, byCheck, halted, dead, uncommitted>>

Halt ==
  /\ halted' = ~halted
  /\ UNCHANGED <<stream, pc, byCheck, attempt, outcome, tallies, faults>>

RunStep ==
  \/ Take \/ Commit \/ CommitFails \/ SendToDlq \/ RecommitFails
  \/ ReadBreaker \/ RunChecks \/ Sent \/ SendFails

Next ==
  \/ \E kind \in {"signal", "garbage"} : Publish(kind)
  \/ Start \/ RunStep \/ Crash \/ Halt

Spec == Init /\ [][Next]_vars

\* A coroutine that can go on goes on.
FairSpec == Spec /\ WF_vars(RunStep)
-----------------------------------------------------------------------------
(***************************************************************************)
(* Properties                                                              *)
(***************************************************************************)
\* Offsets are committed after the work: whatever crashes, an offset is
\* committed only if its record was decided, put with the dead letters, or
\* given up with a logged exception.
CommittedWasHandled ==
  \A i \in 1..committed : decisions[i] > 0 \/ i \in dead \cup dropped

\* A signal is decided twice only because a process died before its commit or
\* an attempt of send failed after the broker had the message.
DecidedAgainOnlyAfterFailure ==
  \A i \in Offsets : decisions[i] <= 1 + crashes + unacked

\* A breach is never announced for a signal whose rejection was not, in any
\* order of failures and retries.
BreachHasDecision == \A i \in Offsets : breaches[i] > 0 => decisions[i] > 0

\* A record that parses gets into the dead letter queue only when its commit
\* raised; it has been evaluated then, and replaying the queue would decide it
\* again.
DeadSignalsHadACommitFailure ==
  Cardinality({i \in dead : topic[i] = "signal"}) <= uncommitted

\* Garbage and errors never stop a stream whose process stays up: every record
\* is taken and committed in the end, also those of earlier crashes.
StreamCatchesUp ==
  <>[](pc # "down") => <>[](pc = "idle" /\ committed = Len(topic))
=============================================================================
