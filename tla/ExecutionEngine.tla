--------------------------- MODULE ExecutionEngine --------------------------
(***************************************************************************)
(* services/execution: the ExecutionEngine with its queue, the loop that   *)
(* dispatches batches, process_queue beside it, start and stop; the        *)
(* OrderRouter, which goes to the same connectors; and the submit_order of *)
(* a connector, with its lock and its retries.                             *)
(*                                                                         *)
(* Everything is a coroutine of one event loop, except the SDK call, which *)
(* runs in a thread: cancelling the coroutine that awaits it does not stop *)
(* it.  OrderRequest has no priority field, so the priority queue is a     *)
(* queue.  A coroutine cancelled by stop() ends with CancelledError, which *)
(* is no Exception: neither handler of execute_order sees it.  pybreaker   *)
(* calls the decorated coroutine function synchronously, takes the         *)
(* coroutine it returns for a success and never opens; it is left out.     *)
(***************************************************************************)
EXTENDS Integers, FiniteSets, SequencesExt

CONSTANTS
  Orders,
  Connectors, Default,
  Wanted,         \* the connector each order is meant for
  Entries,        \* the ways in each order may take
  Loops,          \* instances of _process_queue_loop, one per start()
  MaxConcurrent,
  MaxAttempts,    \* stop_after_attempt
  MaxFaults,      \* bound on transport errors and lost answers
  MaxStops, MaxOutages

None == "none"

ASSUME ConnectorsAssumption ==
  Default \in Connectors /\ Wanted \in [Orders -> Connectors]
ASSUME EntriesAssumption ==
  Entries \in [Orders -> SUBSET {"enqueue_order", "execute_order", "route_order"}]
ASSUME BoundsAssumption ==
  /\ MaxConcurrent \in Nat \ {0} /\ MaxAttempts \in Nat \ {0}
  /\ MaxFaults \in Nat /\ MaxStops \in Nat /\ MaxOutages \in Nat
ASSUME NamesAssumption ==
  None \notin Orders /\ Loops \cap {None, "flush", "caller", "router"} = {}
ASSUME OrdersAreFinite == IsFiniteSet(Orders)

VARIABLES
  queue,       \* the queue of orders
  running,     \* _running
  workerTask,  \* _worker_task: a loop or None
  loop,        \* [Loops -> {"absent", "waiting", "dispatch"}]
  stopping,    \* stop() awaits the task it cancelled
  overlapped,  \* start() ran while stop() was waiting
  job,         \* [Orders -> [pc, owner, attempt]]: one execution per order
  lock,        \* [Connectors -> order or None]: _lock
  connected,   \* [Connectors -> BOOLEAN]
  venue,       \* [Orders -> Nat]: copies of the order the venue has taken
  lost,        \* [Orders -> Nat]: those whose answer reached nobody
  resting,     \* orders the venue took without filling them
  detached,    \* orders whose thread runs on without a coroutine
  total, fills, rejections,
  faults, stops, outages

control == <<queue, running, workerTask, loop, stopping, overlapped, stops>>
market == <<venue, lost, resting, detached>>
counters == <<total, fills, rejections>>
vars == <<control, job, lock, connected, market, counters, faults, outages>>

Waiting == {"new", "queued", "ready", "risk"}
Executing == {"locking", "calling", "backoff"}
\* "dropped" is cancelled before it began, "cancelled" afterwards.
Ended == {"filled", "rejected", "denied", "dropped", "cancelled"}
Owners == Loops \cup {None, "flush", "caller", "router"}
Engine == Owners \ {"router"}
Jobs == [pc : Waiting \cup Executing \cup Ended, owner : Owners, attempt : 0..MaxAttempts]

TypeOK ==
  /\ queue \in Seq(Orders)
  /\ running \in BOOLEAN /\ stopping \in BOOLEAN /\ overlapped \in BOOLEAN
  /\ workerTask \in Loops \cup {None}
  /\ loop \in [Loops -> {"absent", "waiting", "dispatch"}]
  /\ job \in [Orders -> Jobs]
  /\ lock \in [Connectors -> Orders \cup {None}]
  /\ connected \in [Connectors -> BOOLEAN]
  /\ venue \in [Orders -> Nat] /\ lost \in [Orders -> Nat]
  /\ resting \subseteq Orders /\ detached \subseteq Orders
  /\ total \in Nat /\ fills \in Nat /\ rejections \in Nat
  /\ faults \in 0..MaxFaults /\ stops \in 0..MaxStops /\ outages \in 0..MaxOutages

Init ==
  /\ queue = <<>>
  /\ running = FALSE /\ stopping = FALSE /\ overlapped = FALSE
  /\ workerTask = None
  /\ loop = [l \in Loops |-> "absent"]
  /\ job = [o \in Orders |-> [pc |-> "new", owner |-> None, attempt |-> 0]]
  /\ lock = [c \in Connectors |-> None]
  /\ connected = [c \in Connectors |-> TRUE]
  /\ venue = [o \in Orders |-> 0] /\ lost = [o \in Orders |-> 0]
  /\ resting = {} /\ detached = {}
  /\ total = 0 /\ fills = 0 /\ rejections = 0
  /\ faults = 0 /\ stops = 0 /\ outages = 0

\* enqueue_order takes a connector_name and drops it.
Connector(o) == IF job[o].owner \in {"caller", "router"} THEN Wanted[o] ELSE Default

OwnedBy(l) == {o \in Orders : job[o].owner = l}
Active(l) == {o \in OwnedBy(l) : job[o].pc \in Executing \cup {"ready"}}

-----------------------------------------------------------------------------
(***************************************************************************)
(* Callers of the engine and of the router                                 *)
(***************************************************************************)
Put(o, pc, owner, attempt) ==
  job' = [job EXCEPT ![o] = [pc |-> pc, owner |-> owner, attempt |-> attempt]]

Move(o, pc) == Put(o, pc, job[o].owner, job[o].attempt)

Enqueue(o) ==
  /\ "enqueue_order" \in Entries[o]
  /\ job[o].pc = "new"
  /\ Move(o, "queued")
  /\ queue' = Append(queue, o)
  /\ UNCHANGED <<running, workerTask, loop, stopping, overlapped, stops,
                 lock, connected, market, counters, faults, outages>>

\* execute_order called directly, "the fast path".
Execute(o) ==
  /\ "execute_order" \in Entries[o]
  /\ job[o].pc = "new"
  /\ Put(o, "locking", "caller", job[o].attempt)
  /\ total' = total + 1
  /\ UNCHANGED <<control, lock, connected, market, fills, rejections, faults, outages>>

\* route_order: the order is valid, the risk service is asked.
Route(o) ==
  /\ "route_order" \in Entries[o]
  /\ job[o].pc = "new"
  /\ Put(o, "risk", "router", job[o].attempt)
  /\ UNCHANGED <<control, lock, connected, market, counters, faults, outages>>

\* Approved, or the service does not answer within its timeout: ROUTED.
RiskApproves(o) ==
  /\ job[o].pc = "risk"
  /\ Move(o, "locking")
  /\ UNCHANGED <<control, lock, connected, market, counters, faults, outages>>

RiskDenies(o) ==
  /\ job[o].pc = "risk"
  /\ Move(o, "denied")
  /\ UNCHANGED <<control, lock, connected, market, counters, faults, outages>>

-----------------------------------------------------------------------------
(***************************************************************************)
(* start, stop and the two consumers of the queue                          *)
(***************************************************************************)
Start(l) ==
  /\ ~running
  /\ loop[l] = "absent"
  /\ running' = TRUE
  /\ workerTask' = l
  /\ loop' = [loop EXCEPT ![l] = "waiting"]
  /\ overlapped' = (overlapped \/ stopping)
  /\ UNCHANGED <<queue, stopping, stops, job, lock, connected, market, counters,
                 faults, outages>>

\* Mutant of Abort: cancelled executions count as rejections.
AbortCounted(S) ==
  /\ job' = [o \in Orders |->
               IF o \notin S THEN job[o]
               ELSE [job[o] EXCEPT !.pc = IF @ = "ready" THEN "dropped" ELSE "cancelled"]]
  /\ rejections' = rejections + Cardinality(S)
  /\ UNCHANGED <<total, fills>>

\* CancelledError in the executions of S, which are not counted any more.
Abort(S) ==
  /\ job' = [o \in Orders |->
               IF o \notin S THEN job[o]
               ELSE [job[o] EXCEPT !.pc = IF @ = "ready" THEN "dropped" ELSE "cancelled"]]
  /\ UNCHANGED counters

\* stop() up to its await: the task and the batch it gathers are cancelled,
\* their locks released; the threads of SDK calls go on.
Stop ==
  LET S == IF workerTask = None THEN {} ELSE Active(workerTask)
      calling == {o \in S : job[o].pc = "calling"}
  IN /\ running /\ ~stopping
     /\ stops < MaxStops
     /\ stops' = stops + 1
     /\ running' = FALSE
     /\ stopping' = (workerTask # None)
     /\ loop' = [l \in Loops |-> IF l = workerTask THEN "absent" ELSE loop[l]]
     /\ Abort(S)
     /\ lock' = [c \in Connectors |-> IF lock[c] \in S THEN None ELSE lock[c]]
     /\ detached' = detached \cup calling
     /\ UNCHANGED <<queue, workerTask, overlapped, connected, venue, lost, resting,
                    faults, outages>>

\* The rest of stop(): _worker_task is forgotten, whichever it is by now.
StopReturns ==
  /\ stopping
  /\ stopping' = FALSE
  /\ workerTask' = None
  /\ UNCHANGED <<queue, running, loop, overlapped, stops, job, lock, connected,
                 market, counters, faults, outages>>

Dispatch(S, owner) ==
  job' = [o \in Orders |-> IF o \in S THEN [job[o] EXCEPT !.pc = "ready", !.owner = owner]
                           ELSE job[o]]

\* Mutant of BatchSize: the order get() returned is not counted.
BatchSizePlusOne == IF Len(queue) < MaxConcurrent + 1 THEN Len(queue) ELSE MaxConcurrent + 1

BatchSize == IF Len(queue) < MaxConcurrent THEN Len(queue) ELSE MaxConcurrent

\* A blocked get() returns and the batch is filled, also after _running fell.
TakeBatch(l) ==
  /\ loop[l] = "waiting"
  /\ queue # <<>>
  /\ Dispatch({queue[i] : i \in 1..BatchSize}, l)
  /\ queue' = SubSeq(queue, BatchSize + 1, Len(queue))
  /\ loop' = [loop EXCEPT ![l] = "dispatch"]
  /\ UNCHANGED <<running, workerTask, stopping, overlapped, stops, lock, connected,
                 market, counters, faults, outages>>

\* Mutant of BatchDone: the loop leaves after one batch.
BatchDoneOnce(l) ==
  /\ loop[l] = "dispatch"
  /\ Active(l) = {}
  /\ loop' = [loop EXCEPT ![l] = "absent"]
  /\ UNCHANGED <<queue, running, workerTask, stopping, overlapped, stops, job, lock,
                 connected, market, counters, faults, outages>>

\* gather() has all results: the loop looks at _running again.
BatchDone(l) ==
  /\ loop[l] = "dispatch"
  /\ Active(l) = {}
  /\ loop' = [loop EXCEPT ![l] = IF running THEN "waiting" ELSE "absent"]
  /\ UNCHANGED <<queue, running, workerTask, stopping, overlapped, stops, job, lock,
                 connected, market, counters, faults, outages>>

\* wait_for times out and _running has fallen.
LoopEnds(l) ==
  /\ loop[l] = "waiting"
  /\ queue = <<>>
  /\ ~running
  /\ loop' = [loop EXCEPT ![l] = "absent"]
  /\ UNCHANGED <<queue, running, workerTask, stopping, overlapped, stops, job, lock,
                 connected, market, counters, faults, outages>>

\* process_queue: everything that is queued, whatever max_concurrent says.
Flush ==
  /\ queue # <<>>
  /\ Dispatch({queue[i] : i \in 1..Len(queue)}, "flush")
  /\ queue' = <<>>
  /\ UNCHANGED <<running, workerTask, loop, stopping, overlapped, stops, lock,
                 connected, market, counters, faults, outages>>

\* A task that gather() created runs for the first time.
Begin(o) ==
  /\ job[o].pc = "ready"
  /\ Move(o, "locking")
  /\ total' = total + 1
  /\ UNCHANGED <<control, lock, connected, market, fills, rejections, faults, outages>>

-----------------------------------------------------------------------------
(***************************************************************************)
(* A connector's submit_order under its retries, and the venue             *)
(***************************************************************************)
\* The counters of execute_order; the router only writes its audit log.
CountFill(o) ==
  /\ fills' = IF job[o].owner \in Engine THEN fills + 1 ELSE fills
  /\ UNCHANGED <<total, rejections>>

CountRejection(o) ==
  /\ rejections' = IF job[o].owner \in Engine THEN rejections + 1 ELSE rejections
  /\ UNCHANGED <<total, fills>>

Reject(o) == Move(o, "rejected") /\ CountRejection(o)

\* ConnectionError or TimeoutError: wait and try again, up to MaxAttempts.
RetryOrReject(o) ==
  IF job[o].attempt < MaxAttempts THEN Move(o, "backoff") /\ UNCHANGED counters
  ELSE Reject(o)

Acquire(o) ==
  LET c == Connector(o)
  IN /\ job[o].pc = "locking"
     /\ lock[c] = None /\ connected[c]
     /\ Put(o, "calling", job[o].owner, job[o].attempt + 1)
     /\ lock' = [lock EXCEPT ![c] = o]
     /\ UNCHANGED <<control, connected, market, counters, faults, outages>>

\* "is not connected": an attempt is used up.
AcquireFails(o) ==
  LET c == Connector(o)
      n == job[o].attempt + 1
  IN /\ job[o].pc = "locking"
     /\ lock[c] = None /\ ~connected[c]
     /\ IF n < MaxAttempts
        THEN Put(o, "backoff", job[o].owner, n) /\ UNCHANGED counters
        ELSE Put(o, "rejected", job[o].owner, n) /\ CountRejection(o)
     /\ UNCHANGED <<control, lock, connected, market, faults, outages>>

Retry(o) ==
  /\ job[o].pc = "backoff"
  /\ Move(o, "locking")
  /\ UNCHANGED <<control, lock, connected, market, counters, faults, outages>>

Release(o) == lock' = [c \in Connectors |-> IF lock[c] = o THEN None ELSE lock[c]]

\* The venue takes the order and reports what it executed.
VenueFills(o) ==
  /\ job[o].pc = "calling"
  /\ venue' = [venue EXCEPT ![o] = @ + 1]
  /\ Move(o, "filled")
  /\ CountFill(o)
  /\ Release(o)
  /\ UNCHANGED <<control, connected, lost, resting, detached, faults, outages>>

\* The venue takes the order and has executed nothing yet: both connectors
\* build an OrderFill that does not validate, so the order counts as rejected.
VenueRests(o) ==
  /\ job[o].pc = "calling"
  /\ venue' = [venue EXCEPT ![o] = @ + 1]
  /\ resting' = resting \cup {o}
  /\ Reject(o)
  /\ Release(o)
  /\ UNCHANGED <<control, connected, lost, detached, faults, outages>>

VenueRefuses(o) ==
  /\ job[o].pc = "calling"
  /\ Reject(o)
  /\ Release(o)
  /\ UNCHANGED <<control, connected, market, faults, outages>>

\* Mutant of LoseCall: the answer of a lost call is taken for a refusal.
LoseCallUnseen(o, taken) ==
  /\ venue' = [venue EXCEPT ![o] = @ + taken]
  /\ UNCHANGED lost

LoseCall(o, taken) ==
  /\ venue' = [venue EXCEPT ![o] = @ + taken]
  /\ lost' = [lost EXCEPT ![o] = @ + taken]

\* The transport fails before or after the venue took the order, with an
\* exception of the retried kinds or another one of the SDK.
VenueUnheard(o) ==
  /\ job[o].pc = "calling"
  /\ faults < MaxFaults
  /\ faults' = faults + 1
  /\ \E taken \in 0..1 : LoseCall(o, taken)
  /\ RetryOrReject(o) \/ Reject(o)
  /\ Release(o)
  /\ UNCHANGED <<control, connected, resting, detached, outages>>

\* The thread of a cancelled call gets to the venue, or not.
DetachedCallEnds(o) ==
  /\ o \in detached
  /\ detached' = detached \ {o}
  /\ \E taken \in 0..1 : LoseCall(o, taken)
  /\ UNCHANGED <<control, job, lock, connected, resting, counters, faults, outages>>

\* disconnect() and connect() wait for the lock.
Disconnect(c) ==
  /\ lock[c] = None /\ connected[c]
  /\ outages < MaxOutages
  /\ outages' = outages + 1
  /\ connected' = [connected EXCEPT ![c] = FALSE]
  /\ UNCHANGED <<control, job, lock, market, counters, faults>>

Connect(c) ==
  /\ lock[c] = None /\ ~connected[c]
  /\ connected' = [connected EXCEPT ![c] = TRUE]
  /\ UNCHANGED <<control, job, lock, market, counters, faults, outages>>

-----------------------------------------------------------------------------
Answer(o) == VenueFills(o) \/ VenueRests(o) \/ VenueRefuses(o) \/ VenueUnheard(o)

ExecuteStep(o) ==
  \/ Begin(o) \/ RiskApproves(o) \/ RiskDenies(o)
  \/ Acquire(o) \/ AcquireFails(o) \/ Retry(o) \/ Answer(o)

LoopStep(l) == TakeBatch(l) \/ BatchDone(l) \/ LoopEnds(l)

Next ==
  \/ \E o \in Orders : Enqueue(o) \/ Execute(o) \/ Route(o)
                       \/ ExecuteStep(o) \/ DetachedCallEnds(o)
  \/ \E l \in Loops : Start(l) \/ LoopStep(l)
  \/ Stop \/ StopReturns \/ Flush
  \/ \E c \in Connectors : Disconnect(c) \/ Connect(c)

Spec == Init /\ [][Next]_vars

\* The event loop resumes whoever can go on, and a call to a venue ends.
Fairness ==
  /\ \A o \in Orders : WF_vars(ExecuteStep(o))
  /\ \A l \in Loops : WF_vars(LoopStep(l))

FairSpec == Spec /\ Fairness
-----------------------------------------------------------------------------
(***************************************************************************)
(* Properties                                                              *)
(***************************************************************************)
\* What the caller was told and what the venue has agree up to the answers
\* that got lost and the orders that rest: without them an order is at the
\* venue once if it was reported filled and not at all otherwise, through
\* retries, disconnections and stop().
VenueMatchesAnswers ==
  \A o \in Orders :
    venue[o] = lost[o] + (IF o \in resting THEN 1 ELSE 0)
                       + (IF job[o].pc = "filled" THEN 1 ELSE 0)

\* The metrics add up: every order counted in total is counted as a fill or a
\* rejection, is being executed, or was cancelled by stop().
CountersAddUp ==
  total = fills + rejections
            + Cardinality({o \in Orders : /\ job[o].owner \in Engine
                                          /\ job[o].pc \in Executing \cup {"cancelled"}})

\* The loop keeps to max_concurrent, through any number of stops and starts,
\* unless a start() came in while a stop() was waiting: stop() then forgets the
\* new task and a later start() adds a second loop.
BatchBound ==
  overlapped \/ Cardinality(UNION {Active(l) : l \in Loops}) <= MaxConcurrent

\* A connector has one SDK call under way, besides those stop() abandoned.
OneCallPerConnector ==
  \A o, p \in Orders :
    (job[o].pc = "calling" /\ job[p].pc = "calling" /\ Connector(o) = Connector(p)) => o = p

\* A queued order is executed to an answer as long as the engine is not stopped.
QueuedIsAnswered ==
  \A o \in Orders :
    (job[o].pc = "queued" /\ running) ~> (job[o].pc \in Ended \/ ~running)
=============================================================================
