--------------------------- MODULE OrderSubmission ---------------------------
(***************************************************************************)
(* OrderSubmissionHandler.submit_order, the order path of the HTTP API,    *)
(* with the kill switch and the circuit breaker it consults, the order     *)
(* table it writes and the broker it calls.  One call runs gate, lookup,   *)
(* validation, insert, approval, broker submission and recording, each a   *)
(* Redis read, a transaction or a request of its own; any number of calls, *)
(* some with the same idempotency key, run side by side.                   *)
(*                                                                         *)
(* The three kill switch levels and the two breaker keys are one flag      *)
(* each: a call is stopped when any of those that apply to it is set.      *)
(***************************************************************************)
EXTENDS OrderStatuses, Integers, FiniteSetsExt

CONSTANTS
  Keys,            \* idempotency keys, which become client_order_ids
  Calls,           \* submit_order invocations
  KeyOf,           \* the key of each call
  Sells, Lots,     \* the keys that sell, the lots each key asks for
  HeldLots,        \* lots in the position row the calls read
  MaxErrors,       \* bound on unexpected exceptions
  MaxFaults        \* bound on lost processes and lost broker answers

ASSUME CallsAssumption == KeyOf \in [Calls -> Keys]
ASSUME LotsAssumption ==
  /\ Sells \subseteq Keys
  /\ Lots \in [Keys -> Nat \ {0}]
  /\ HeldLots \in Nat
ASSUME BoundsAssumption == MaxErrors \in Nat /\ MaxFaults \in Nat

VARIABLES
  row,          \* [Keys -> Statuses or Absent]: the order table
  call,         \* [Calls -> [pc, seen, outcome]]
  broker,       \* [Keys -> BrokerStates]
  acceptances,  \* [Keys -> Nat]: times the broker accepted the key
  halt,         \* the kill switch: its Redis key, and its last trigger
  breaker,      \* a circuit breaker key is set
  errors, faults

vars == <<row, call, broker, acceptances, halt, breaker,
          errors, faults>>

Absent == "absent"
BrokerStates == {"none", "live", "refused"}
Points == {"start", "gated", "checked", "fresh", "valid", "persisted", "approved",
           "accepted", "recorded", "refusing", "rejecting", "done"}
Outcomes == {"none", "halted", "open breaker", "existing", "invalid", "duplicate row",
             "submitted", "rejected", "transient", "error"}

TypeOK ==
  /\ row \in [Keys -> Statuses \cup {Absent}]
  /\ call \in [Calls -> [pc : Points, seen : Statuses \cup {Absent}, outcome : Outcomes]]
  /\ broker \in [Keys -> BrokerStates]
  /\ acceptances \in [Keys -> Nat]
  /\ halt \in [on : BOOLEAN, cancelling : BOOLEAN, racing : SUBSET Calls, before : SUBSET Keys]
  /\ breaker \in BOOLEAN
  /\ errors \in 0..MaxErrors
  /\ faults \in 0..MaxFaults

Init ==
  /\ row = [k \in Keys |-> Absent]
  /\ call = [c \in Calls |-> [pc |-> "start", seen |-> Absent, outcome |-> "none"]]
  /\ broker = [k \in Keys |-> "none"]
  /\ acceptances = [k \in Keys |-> 0]
  /\ halt = [on |-> FALSE, cancelling |-> FALSE, racing |-> {}, before |-> {}]
  /\ breaker = FALSE
  /\ errors = 0
  /\ faults = 0

switches == <<halt, breaker>>
counters == <<errors, faults>>

At(c, p) == call[c].pc = p

Goto(c, p) == call' = [call EXCEPT ![c].pc = p]

\* The call returns or raises.
End(c, outcome) == call' = [call EXCEPT ![c].pc = "done", ![c].outcome = outcome]

Write(k, t) == row' = [row EXCEPT ![k] = t]
-----------------------------------------------------------------------------
(***************************************************************************)
(* Steps 0 to 5: the gates, the lookup, the validation, the insert.        *)
(***************************************************************************)
\* Mutant of CheckKillSwitch: the gate is open.
SkipKillSwitch(c) ==
  /\ At(c, "start")
  /\ Goto(c, "gated")
  /\ UNCHANGED <<row, broker, acceptances, switches, counters>>

\* Step 0a: the kill switch.
CheckKillSwitch(c) ==
  /\ At(c, "start")
  /\ IF halt.on THEN End(c, "halted") ELSE Goto(c, "gated")
  /\ UNCHANGED <<row, broker, acceptances, switches, counters>>

\* Step 0b: the circuit breaker.
CheckBreaker(c) ==
  /\ At(c, "gated")
  /\ IF breaker THEN End(c, "open breaker") ELSE Goto(c, "checked")
  /\ UNCHANGED <<row, broker, acceptances, switches, counters>>

\* The statuses submit_order calls terminal: the key may be used again.
Resubmittable == {"REJECTED", "RISK_REJECTED", "EXPIRED"}

\* Step 1: an order with this key that is not resubmittable is returned as it is.
Lookup(c) ==
  /\ At(c, "checked")
  /\ LET r == row[KeyOf[c]]
         next == IF r \in Resubmittable \cup {Absent}
                 THEN [pc |-> "fresh", seen |-> r, outcome |-> "none"]
                 ELSE [pc |-> "done", seen |-> r, outcome |-> "existing"]
     IN call' = [call EXCEPT ![c] = next]
  /\ UNCHANGED <<row, broker, acceptances, switches, counters>>

\* Steps 2 to 4: a sale may not exceed the lots of the position row.
Validate(c) ==
  /\ At(c, "fresh")
  /\ IF KeyOf[c] \in Sells /\ Lots[KeyOf[c]] > HeldLots
     THEN End(c, "invalid")
     ELSE Goto(c, "valid")
  /\ UNCHANGED <<row, broker, acceptances, switches, counters>>

\* Mutant of Persist: an upsert instead of an insert.
PersistUpsert(c) ==
  /\ At(c, "valid")
  /\ Write(KeyOf[c], "PENDING_RISK")
  /\ Goto(c, "persisted")
  /\ UNCHANGED <<broker, acceptances, switches, counters>>

\* Step 5: the INSERT; client_order_id is the primary key.
Persist(c) ==
  /\ At(c, "valid")
  /\ IF row[KeyOf[c]] = Absent
     THEN Write(KeyOf[c], "PENDING_RISK") /\ Goto(c, "persisted")
     ELSE UNCHANGED row /\ End(c, "duplicate row")
  /\ UNCHANGED <<broker, acceptances, switches, counters>>

-----------------------------------------------------------------------------
(***************************************************************************)
(* Steps 6 to 9: approval, submission, recording.                          *)
(***************************************************************************)
\* transition(): re-read the row, check the move, write it.  InvalidTransition-
\* Error ends the call.
Transition(c, t, next) ==
  IF t \in VALID_TRANSITIONS[row[KeyOf[c]]]
  THEN Write(KeyOf[c], t) /\ Goto(c, next)
  ELSE UNCHANGED row /\ End(c, "error")

\* Step 6.
Approve(c) ==
  /\ At(c, "persisted")
  /\ Transition(c, "RISK_APPROVED", "approved")
  /\ UNCHANGED <<broker, acceptances, switches, counters>>

\* Step 7: the broker accepts the order and its answer arrives.
BrokerAccepts(c) ==
  /\ At(c, "approved")
  /\ broker' = [broker EXCEPT ![KeyOf[c]] = "live"]
  /\ acceptances' = [acceptances EXCEPT ![KeyOf[c]] = @ + 1]
  /\ Goto(c, "accepted")
  /\ UNCHANGED <<row, switches, counters>>

\* OrderRejectedError.
BrokerRefuses(c) ==
  /\ At(c, "approved")
  /\ broker' = [broker EXCEPT ![KeyOf[c]] = "refused"]
  /\ Goto(c, "refusing")
  /\ UNCHANGED <<row, acceptances, switches, counters>>

\* BrokerConnectionError, and the order did not reach the broker.  The record
\* is returned as it stands.
BrokerUnreachable(c) ==
  /\ At(c, "approved")
  /\ End(c, "transient")
  /\ UNCHANGED <<row, broker, acceptances, switches, counters>>

\* Mutant of BrokerTimesOut: a timeout is taken for a rejection.
TimeoutRejects(c) ==
  /\ At(c, "approved")
  /\ faults < MaxFaults
  /\ faults' = faults + 1
  /\ broker' = [broker EXCEPT ![KeyOf[c]] = "live"]
  /\ acceptances' = [acceptances EXCEPT ![KeyOf[c]] = @ + 1]
  /\ Goto(c, "refusing")
  /\ UNCHANGED <<row, switches, errors>>

\* BrokerTimeoutError, or a connection lost after the order went out: the broker
\* took the order, its answer is lost.
BrokerTimesOut(c) ==
  /\ At(c, "approved")
  /\ faults < MaxFaults
  /\ faults' = faults + 1
  /\ broker' = [broker EXCEPT ![KeyOf[c]] = "live"]
  /\ acceptances' = [acceptances EXCEPT ![KeyOf[c]] = @ + 1]
  /\ End(c, "transient")
  /\ UNCHANGED <<row, switches, errors>>

\* Mutant of Record: the row is not written.
RecordNothing(c) ==
  /\ At(c, "accepted")
  /\ Goto(c, "recorded")
  /\ UNCHANGED <<row, broker, acceptances, switches, counters>>

\* Step 8: record the submission.
Record(c) ==
  /\ At(c, "accepted")
  /\ Transition(c, "SUBMITTED", "recorded")
  /\ UNCHANGED <<broker, acceptances, switches, counters>>

\* Step 9: the event is out, the record is returned.
Return(c) ==
  /\ At(c, "recorded")
  /\ End(c, "submitted")
  /\ UNCHANGED <<row, broker, acceptances, switches, counters>>

\* The handlers of OrderRejectedError and of any other exception load the row
\* and have it REJECTED.
LoadForReject(c) ==
  /\ At(c, "refusing")
  /\ call' = [call EXCEPT ![c].pc = "rejecting", ![c].seen = row[KeyOf[c]]]
  /\ UNCHANGED <<row, broker, acceptances, switches, counters>>

Reject(c) ==
  /\ At(c, "rejecting")
  /\ IF "REJECTED" \in VALID_TRANSITIONS[call[c].seen]
     THEN Write(KeyOf[c], "REJECTED") /\ End(c, "rejected")
     ELSE UNCHANGED row /\ End(c, "error")
  /\ UNCHANGED <<broker, acceptances, switches, counters>>

\* A ProducerError from the send after a commit, a database error, an adapter
\* that chokes on the broker's answer: out of submit_order after Step 6, into the
\* handler of unexpected exceptions once the broker has the order.
RaiseError(c) ==
  /\ errors < MaxErrors
  /\ errors' = errors + 1
  /\ \/ At(c, "approved") /\ End(c, "error")
     \/ call[c].pc \in {"accepted", "recorded"} /\ Goto(c, "refusing")
  /\ UNCHANGED <<row, broker, acceptances, switches, faults>>

\* The process is lost, or an exception leaves submit_order.
Crash(c) ==
  /\ ~At(c, "start") /\ ~At(c, "done")
  /\ faults < MaxFaults
  /\ faults' = faults + 1
  /\ End(c, "error")
  /\ UNCHANGED <<row, broker, acceptances, switches, errors>>
-----------------------------------------------------------------------------
(***************************************************************************)
(* The broker's acknowledgement, the kill switch, the circuit breaker.     *)
(***************************************************************************)
\* The handler of broker events, not part of this repository, acknowledges.
Acknowledge(k) ==
  /\ row[k] = "SUBMITTED"
  /\ Write(k, "ACKNOWLEDGED")
  /\ UNCHANGED <<call, broker, acceptances, switches, counters>>

InFlight == {c \in Calls : ~At(c, "start") /\ ~At(c, "done")}

\* KillSwitch.trigger, step 1: SET the Redis key.  racing and before are history:
\* the calls under way and the orders live at the broker at that moment.
Trigger ==
  /\ ~halt.cancelling
  /\ halt' = [on |-> TRUE, cancelling |-> TRUE, racing |-> InFlight,
              before |-> {k \in Keys : broker[k] = "live"}]
  /\ UNCHANGED <<row, call, broker, acceptances, breaker, counters>>

\* Step 3: neither BrokerAdapterInterface nor any adapter has cancel_all_orders.
\* The AttributeError is logged and ignored, and trigger returns.
CancelFails ==
  /\ halt.cancelling
  /\ halt' = [halt EXCEPT !.cancelling = FALSE]
  /\ UNCHANGED <<row, call, broker, acceptances, breaker, counters>>

\* KillSwitch.reset, by an operator: DEL the Redis key.
Reset ==
  /\ halt.on
  /\ halt' = [halt EXCEPT !.on = FALSE]
  /\ UNCHANGED <<row, call, broker, acceptances, breaker, counters>>

\* CircuitBreakerStateManager.halt, and resume or the key's expiry.
SetBreaker(open) ==
  /\ breaker # open
  /\ breaker' = open
  /\ UNCHANGED <<row, call, broker, acceptances, halt, counters>>

-----------------------------------------------------------------------------
Step(c) ==
  \/ CheckKillSwitch(c) \/ CheckBreaker(c) \/ Lookup(c) \/ Validate(c) \/ Persist(c)
  \/ Approve(c)
  \/ BrokerAccepts(c) \/ BrokerRefuses(c) \/ BrokerUnreachable(c) \/ BrokerTimesOut(c)
  \/ Record(c) \/ Return(c) \/ LoadForReject(c) \/ Reject(c)
  \/ RaiseError(c)

Next ==
  \/ \E c \in Calls : Step(c) \/ Crash(c)
  \/ \E k \in Keys : Acknowledge(k)
  \/ Trigger \/ CancelFails \/ Reset
  \/ \E open \in BOOLEAN : SetBreaker(open)

Spec == Init /\ [][Next]_vars

\* The event loop keeps running a request it has started.
FairSpec == Spec /\ \A c \in Calls : WF_vars(Step(c))

-----------------------------------------------------------------------------
(***************************************************************************)
(* Properties                                                              *)
(***************************************************************************)
\* The broker accepts an idempotency key at most once, whatever calls repeat it
\* or race on it and wherever they stop: lookup and primary key together make
\* one call the only one that gets past Step 5.
AcceptedOnce == \A k \in Keys : acceptances[k] <= 1

PastInsert == {"persisted", "approved", "accepted", "recorded", "refusing", "rejecting"}

\* At most one call works on the row of a key between Step 5 and its end.
OneOwner ==
  \A c, d \in Calls :
    call[c].pc \in PastInsert /\ call[d].pc \in PastInsert /\ KeyOf[c] = KeyOf[d] => c = d

\* An order that is live at the broker has a row that says it may be, unless an
\* exception no handler expects came after the broker took it (the row of the
\* live order is then REJECTED).
LiveIsOnRecord ==
  errors = 0 =>
    \A k \in Keys :
      broker[k] = "live" => row[k] \in {"RISK_APPROVED", "SUBMITTED", "ACKNOWLEDGED"}

\* From a trigger to its reset no order comes to the broker but those of the calls
\* that had passed Step 0a when the Redis key was set, however long they take.
OnlyRacingOrdersAppear ==
  halt.on =>
    \A k \in Keys :
      broker[k] = "live" => k \in halt.before \/ \E c \in halt.racing : KeyOf[c] = k

\* The docstring of trigger: "If cancel_open_orders=True: cancel all open orders
\* via broker".  When it has returned, the orders that were live before are not.
TriggerCancelsOpenOrders ==
  halt.on /\ ~halt.cancelling =>
    \A k \in Keys : broker[k] = "live" => \E c \in halt.racing : KeyOf[c] = k

RowStatus == [k \in Keys |-> IF row[k] = Absent THEN "PENDING_RISK" ELSE row[k]]
Lifecycle == INSTANCE OrderLifecycle WITH Orders <- Keys, status <- RowStatus

\* The rows move along the transition table, the blind UPDATEs of the handler and
\* the broker's acknowledgements together, until an exception that no handler
\* expects comes after the broker took an order.
FollowsLifecycle == [][errors' = 0 => [Lifecycle!Next]_RowStatus]_vars

\* Without such exceptions that is the abstract lifecycle.
ImplementsLifecycle == Lifecycle!Spec

\* The row of an order the broker took does not stay RISK_APPROVED, where no one
\* would ever look for it again, unless the process or the answer is lost.
AcceptedIsRecorded ==
  \A k \in Keys : broker[k] = "live" ~> (row[k] # "RISK_APPROVED" \/ faults > 0)
=============================================================================
