------------------------ MODULE ExecutionEngineProofs ------------------------
(***************************************************************************)
(* Theorems about ExecutionEngine, for any orders, connectors, loops and   *)
(* bounds.                                                                 *)
(*                                                                         *)
(* Most steps move one order (OneMoveIsSound); TakeBatch and Flush         *)
(* dispatch orders of the queue, and Stop aborts what the current loop     *)
(* executes.                                                               *)
(***************************************************************************)
EXTENDS ExecutionEngine, FiniteSetTheorems, TLAPS

\* The queue holds every order once, and only orders that wait in it.
QueueIsSound ==
  /\ \A i \in 1..Len(queue) : job[queue[i]].pc = "queued"
  /\ \A i, j \in 1..Len(queue) : queue[i] = queue[j] => i = j

\* What is known of an order from where its execution is.
JobsAreSound ==
  \A o \in Orders :
    /\ job[o].pc \in Waiting \cup {"locking", "backoff"} => job[o].attempt < MaxAttempts
    /\ job[o].pc = "risk" => job[o].owner = "router"
    /\ job[o].pc = "ready" => job[o].owner \in Engine

\* An SDK call is made by whoever holds the connector's lock.
CallersHoldTheLock ==
  \A o \in Orders : job[o].pc = "calling" => lock[Connector(o)] = o

\* An order that rests at the venue has been given its answer.
RestingWereRejected == \A o \in resting : job[o].pc = "rejected"

-----------------------------------------------------------------------------
\* What the helpers do to the executions, order by order.
LEMMA PutEffect ==
  ASSUME job \in [Orders -> Jobs], NEW o \in Orders,
         NEW pc \in Waiting \cup Executing \cup Ended, NEW owner \in Owners,
         NEW n \in 0..MaxAttempts, Put(o, pc, owner, n)
  PROVE  /\ job' \in [Orders -> Jobs]
         /\ job'[o].pc = pc /\ job'[o].owner = owner /\ job'[o].attempt = n
         /\ \A p \in Orders \ {o} : job'[p] = job[p]
<1>1. [pc |-> pc, owner |-> owner, attempt |-> n] \in Jobs
  BY DEF Jobs
<1> QED BY <1>1 DEF Put

LEMMA MoveEffect ==
  ASSUME job \in [Orders -> Jobs], NEW o \in Orders,
         NEW pc \in Waiting \cup Executing \cup Ended, Move(o, pc)
  PROVE  /\ job' \in [Orders -> Jobs]
         /\ job'[o].pc = pc /\ job'[o].owner = job[o].owner /\ job'[o].attempt = job[o].attempt
         /\ \A p \in Orders \ {o} : job'[p] = job[p]
<1>1. job[o].owner \in Owners /\ job[o].attempt \in 0..MaxAttempts
  BY DEF Jobs
<1> QED BY <1>1, PutEffect DEF Move

\* The orders of S go into a batch.
LEMMA DispatchEffect ==
  ASSUME job \in [Orders -> Jobs], NEW S \in SUBSET Orders, NEW owner \in Owners,
         Dispatch(S, owner)
  PROVE  /\ job' \in [Orders -> Jobs]
         /\ \A p \in S : /\ job'[p].pc = "ready" /\ job'[p].owner = owner
                         /\ job'[p].attempt = job[p].attempt
         /\ \A p \in Orders \ S : job'[p] = job[p]
<1>1. \A p \in Orders : [job[p] EXCEPT !.pc = "ready", !.owner = owner] \in Jobs
  BY DEF Jobs, Waiting
<1> QED BY <1>1 DEF Dispatch, Jobs

\* The orders of S end with CancelledError.
LEMMA AbortEffect ==
  ASSUME job \in [Orders -> Jobs], NEW S \in SUBSET Orders, Abort(S)
  PROVE  /\ job' \in [Orders -> Jobs]
         /\ \A p \in S : /\ job'[p].pc = IF job[p].pc = "ready" THEN "dropped" ELSE "cancelled"
                         /\ job'[p].owner = job[p].owner /\ job'[p].attempt = job[p].attempt
         /\ \A p \in Orders \ S : job'[p] = job[p]
<1>1. \A p \in Orders :
        [job[p] EXCEPT !.pc = IF @ = "ready" THEN "dropped" ELSE "cancelled"] \in Jobs
  BY DEF Jobs, Ended
<1> QED BY <1>1 DEF Abort, Jobs

\* A batch is a part of the queue, taken from its front.
LEMMA BatchEffect ==
  ASSUME queue \in Seq(Orders)
  PROVE  /\ BatchSize \in 0..Len(queue) /\ BatchSize <= MaxConcurrent
         /\ {queue[i] : i \in 1..BatchSize} \subseteq Orders
         /\ SubSeq(queue, BatchSize + 1, Len(queue)) \in Seq(Orders)
         /\ Len(SubSeq(queue, BatchSize + 1, Len(queue))) = Len(queue) - BatchSize
         /\ \A i \in 1..Len(queue) - BatchSize :
               SubSeq(queue, BatchSize + 1, Len(queue))[i] = queue[i + BatchSize]
<1>1. BatchSize \in 0..Len(queue) /\ BatchSize <= MaxConcurrent
  BY BoundsAssumption DEF BatchSize
<1>2. {queue[i] : i \in 1..BatchSize} \subseteq Orders
  BY <1>1
<1> HIDE DEF BatchSize
<1>3. /\ SubSeq(queue, BatchSize + 1, Len(queue)) \in Seq(Orders)
      /\ Len(SubSeq(queue, BatchSize + 1, Len(queue))) = Len(queue) - BatchSize
      /\ \A i \in 1..Len(queue) - BatchSize :
            SubSeq(queue, BatchSize + 1, Len(queue))[i] = queue[i + BatchSize]
  BY <1>1
<1> QED BY <1>1, <1>2, <1>3

-----------------------------------------------------------------------------
\* TypeOK needs JobsAreSound: Acquire counts an attempt, and has one left.
LEMMA NextTypeOK ==
  ASSUME TypeOK, JobsAreSound, [Next]_vars
  PROVE  TypeOK'
<1> USE DEF TypeOK, control, market, counters
<1>0. job \in [Orders -> Jobs]
  OBVIOUS
<1>1. ASSUME NEW o \in Orders, Enqueue(o) PROVE TypeOK'
  BY <1>0, <1>1, MoveEffect DEF Enqueue, Waiting
<1>2. ASSUME NEW o \in Orders, Execute(o) \/ Route(o) PROVE TypeOK'
  <2>1. job[o].attempt \in 0..MaxAttempts /\ "caller" \in Owners /\ "router" \in Owners
    BY <1>0 DEF Owners, Jobs
  <2>2. job' \in [Orders -> Jobs]
    BY <1>0, <1>2, <2>1, PutEffect DEF Execute, Route, Waiting, Executing
  <2> QED BY <1>2, <2>2 DEF Execute, Route
<1>3. ASSUME NEW o \in Orders, RiskApproves(o) \/ RiskDenies(o) \/ Retry(o) \/ Begin(o)
      PROVE  TypeOK'
  <2>1. job' \in [Orders -> Jobs]
    BY <1>0, <1>3, MoveEffect DEF RiskApproves, RiskDenies, Retry, Begin, Executing, Ended
  <2>2. CASE RiskApproves(o)
    BY <2>1, <2>2 DEF RiskApproves
  <2>3. CASE RiskDenies(o)
    BY <2>1, <2>3 DEF RiskDenies
  <2>4. CASE Retry(o)
    BY <2>1, <2>4 DEF Retry
  <2>5. CASE Begin(o)
    BY <2>1, <2>5 DEF Begin
  <2> QED BY <1>3, <2>2, <2>3, <2>4, <2>5
<1>4. ASSUME NEW o \in Orders, Acquire(o) PROVE TypeOK'
  <2>1. job[o].attempt + 1 \in 0..MaxAttempts /\ job[o].owner \in Owners
    BY <1>0, <1>4, BoundsAssumption DEF Acquire, JobsAreSound, Jobs
  <2>2. job' \in [Orders -> Jobs]
    BY <1>0, <1>4, <2>1, PutEffect DEF Acquire, Executing
  <2>3. lock' \in [Connectors -> Orders \cup {None}]
    BY <1>4 DEF Acquire
  <2> QED BY <1>4, <2>2, <2>3 DEF Acquire
<1>5. ASSUME NEW o \in Orders, AcquireFails(o) PROVE TypeOK'
  <2>1. job[o].attempt + 1 \in 0..MaxAttempts /\ job[o].owner \in Owners
    BY <1>0, <1>5, BoundsAssumption DEF AcquireFails, JobsAreSound, Jobs
  <2>2. job' \in [Orders -> Jobs]
    <3>1. PICK pc \in {"backoff", "rejected"} : Put(o, pc, job[o].owner, job[o].attempt + 1)
      BY <1>5, Zenon DEF AcquireFails
    <3>2. pc \in Waiting \cup Executing \cup Ended
      BY DEF Executing, Ended
    <3> QED BY <1>0, <2>1, <3>1, <3>2, PutEffect
  <2>3. total' \in Nat /\ fills' \in Nat /\ rejections' \in Nat
    <3>1. UNCHANGED counters \/ CountRejection(o)
      BY <1>5 DEF AcquireFails
    <3> QED BY <3>1 DEF CountRejection
  <2>4. UNCHANGED <<control, market, lock, connected, faults, outages>>
    BY <1>5 DEF AcquireFails
  <2> QED BY <2>2, <2>3, <2>4
<1>6. ASSUME NEW o \in Orders, Answer(o) PROVE TypeOK'
  <2>1. job' \in [Orders -> Jobs]
    BY <1>0, <1>6, MoveEffect DEF Answer, VenueFills, VenueRests, VenueRefuses, VenueUnheard,
       Reject, RetryOrReject, Executing, Ended
  <2>2. total' \in Nat /\ fills' \in Nat /\ rejections' \in Nat
    <3>1. UNCHANGED counters \/ CountFill(o) \/ CountRejection(o)
      BY <1>6 DEF Answer, VenueFills, VenueRests, VenueRefuses, VenueUnheard,
         Reject, RetryOrReject
    <3> QED BY <3>1 DEF CountFill, CountRejection
  <2>3. lock' \in [Connectors -> Orders \cup {None}]
    BY <1>6 DEF Answer, VenueFills, VenueRests, VenueRefuses, VenueUnheard, Release
  <2>4. venue' \in [Orders -> Nat] /\ lost' \in [Orders -> Nat] /\ resting' \subseteq Orders
    <3>1. CASE VenueUnheard(o)
      <4>1. PICK taken \in 0..1 : LoseCall(o, taken)
        BY <3>1 DEF VenueUnheard
      <4> QED BY <3>1, <4>1 DEF VenueUnheard, LoseCall
    <3>2. CASE VenueFills(o)
      BY <3>2 DEF VenueFills
    <3>3. CASE VenueRests(o)
      BY <3>3 DEF VenueRests
    <3>4. CASE VenueRefuses(o)
      BY <3>4 DEF VenueRefuses
    <3> QED BY <1>6, <3>1, <3>2, <3>3, <3>4 DEF Answer
  <2>5. faults' \in 0..MaxFaults
    BY <1>6, BoundsAssumption DEF Answer, VenueFills, VenueRests, VenueRefuses, VenueUnheard
  <2>6. UNCHANGED <<control, connected, detached, outages>>
    BY <1>6 DEF Answer, VenueFills, VenueRests, VenueRefuses, VenueUnheard
  <2> QED BY <2>1, <2>2, <2>3, <2>4, <2>5, <2>6
<1>7. ASSUME NEW o \in Orders, DetachedCallEnds(o) PROVE TypeOK'
  BY <1>7 DEF DetachedCallEnds, LoseCall
<1>8. ASSUME NEW l \in Loops, Start(l) PROVE TypeOK'
  BY <1>8 DEF Start
<1>9. ASSUME NEW l \in Loops, TakeBatch(l) PROVE TypeOK'
  <2>1. job' \in [Orders -> Jobs]
    BY <1>0, <1>9, BatchEffect, DispatchEffect DEF TakeBatch, Owners
  <2>2. queue' \in Seq(Orders)
    BY <1>9, BatchEffect DEF TakeBatch
  <2> QED BY <1>9, <2>1, <2>2 DEF TakeBatch
<1>10. ASSUME NEW l \in Loops, BatchDone(l) \/ LoopEnds(l) PROVE TypeOK'
  BY <1>10 DEF BatchDone, LoopEnds
<1>11. CASE Stop
  <2> DEFINE S == IF workerTask = None THEN {} ELSE Active(workerTask)
  <2>1. S \subseteq Orders
    BY DEF Active, OwnedBy
  <2>2. Abort(S) /\ lock' = [c \in Connectors |-> IF lock[c] \in S THEN None ELSE lock[c]]
    BY <1>11 DEF Stop
  <2>3. job' \in [Orders -> Jobs]
    BY <1>0, <2>1, <2>2, AbortEffect
  <2>4. stops' \in 0..MaxStops
    BY <1>11, BoundsAssumption DEF Stop
  <2>5. detached' \subseteq Orders
    BY <1>11, <2>1 DEF Stop
  <2>6. UNCHANGED counters
    BY <2>2 DEF Abort
  <2>7. /\ UNCHANGED <<queue, workerTask, overlapped, connected, venue, lost, resting,
                       faults, outages>>
        /\ running' = FALSE /\ stopping' = (workerTask # None)
        /\ loop' = [l \in Loops |-> IF l = workerTask THEN "absent" ELSE loop[l]]
    BY <1>11 DEF Stop
  <2>8. /\ lock' \in [Connectors -> Orders \cup {None}]
        /\ loop' \in [Loops -> {"absent", "waiting", "dispatch"}]
    BY <2>2, <2>7
  <2>9. running' \in BOOLEAN /\ stopping' \in BOOLEAN
    BY <2>7
  <2> QED BY <2>3, <2>4, <2>5, <2>6, <2>7, <2>8, <2>9
<1>12. CASE StopReturns
  <2>1. stopping' = FALSE /\ workerTask' = None
    BY <1>12 DEF StopReturns
  <2>2. /\ UNCHANGED <<queue, running, loop, overlapped, stops, job, lock, connected>>
        /\ UNCHANGED <<market, counters, faults, outages>>
    BY <1>12 DEF StopReturns
  <2> QED BY <2>1, <2>2
<1>13. CASE Flush
  <2>1. {queue[i] : i \in 1..Len(queue)} \subseteq Orders /\ "flush" \in Owners
    BY DEF Owners
  <2>2. job' \in [Orders -> Jobs]
    BY <1>0, <1>13, <2>1, DispatchEffect DEF Flush
  <2> QED BY <1>13, <2>2 DEF Flush
<1>14. ASSUME NEW c \in Connectors, Disconnect(c) \/ Connect(c) PROVE TypeOK'
  <2>1. connected' \in [Connectors -> BOOLEAN]
    BY <1>14 DEF Disconnect, Connect
  <2>2. outages' \in 0..MaxOutages
    BY <1>14, BoundsAssumption DEF Disconnect, Connect
  <2>3. UNCHANGED <<control, job, lock, market, counters, faults>>
    BY <1>14 DEF Disconnect, Connect
  <2> QED BY <2>1, <2>2, <2>3
<1>15. CASE UNCHANGED vars
  BY <1>15 DEF vars
<1> QED
  BY <1>1, <1>2, <1>3, <1>4, <1>5, <1>6, <1>7, <1>8, <1>9, <1>10, <1>11, <1>12, <1>13,
     <1>14, <1>15 DEF Next, ExecuteStep, LoopStep

-----------------------------------------------------------------------------
\* However a call to the venue ends, one order moves, to an answer or to its
\* next attempt, and the lock is free.
LEMMA AnswerEffect ==
  ASSUME TypeOK, NEW o \in Orders, Answer(o)
  PROVE  /\ job[o].pc = "calling"
         /\ job'[o].pc \in {"filled", "rejected", "backoff"}
         /\ job'[o].owner = job[o].owner /\ job'[o].attempt = job[o].attempt
         /\ \A p \in Orders \ {o} : job'[p] = job[p]
         /\ job'[o].pc = "backoff" => job[o].attempt < MaxAttempts
         /\ Release(o)
         /\ UNCHANGED <<control, connected, detached, outages>>
<1> USE DEF Answer, VenueFills, VenueRests, VenueRefuses, VenueUnheard
<1>0. job \in [Orders -> Jobs]
  BY DEF TypeOK, Jobs
<1>1. /\ job[o].pc = "calling" /\ Release(o)
      /\ UNCHANGED <<control, connected, detached, outages>>
  BY DEF market
<1>2. PICK pc \in {"filled", "rejected", "backoff"} :
        Move(o, pc) /\ (pc = "backoff" => job[o].attempt < MaxAttempts)
  <2>1. CASE VenueFills(o)
    BY <2>1
  <2>2. CASE VenueRests(o) \/ VenueRefuses(o)
    BY <2>2 DEF Reject
  <2>3. CASE VenueUnheard(o)
    BY <2>3 DEF Reject, RetryOrReject
  <2> QED BY <2>1, <2>2, <2>3
<1>3. pc \in Waiting \cup Executing \cup Ended
  BY DEF Executing, Ended
<1> QED BY <1>0, <1>1, <1>2, <1>3, MoveEffect

Sound == QueueIsSound /\ JobsAreSound /\ CallersHoldTheLock /\ RestingWereRejected

\* The engine's control is sound after a step that moves one order, or none,
\* and leaves the queue alone.
LEMMA OneMoveIsSound ==
  ASSUME TypeOK, Sound, NEW o \in Orders, queue' = queue,
         \A p \in Orders \ {o} : job'[p] = job[p],
         job[o].pc # "queued" \/ job'[o].pc = "queued",
         job'[o].pc \in Waiting \cup {"locking", "backoff"} => job'[o].attempt < MaxAttempts,
         job'[o].pc = "risk" => job'[o].owner = "router",
         job'[o].pc = "ready" => job'[o].owner \in Engine,
         job'[o].pc = "calling" => lock'[Connector(o)'] = o,
         \A c \in Connectors : lock[c] \notin {None, o} => lock'[c] = lock[c],
         resting' = resting \/ resting' = resting \cup {o},
         o \in resting' => job'[o].pc = "rejected"
  PROVE  Sound'
<1>1. QueueIsSound'
  <2>1. \A i \in 1..Len(queue) : queue[i] \in Orders
    BY DEF TypeOK
  <2> QED BY <2>1 DEF Sound, QueueIsSound
<1>2. JobsAreSound'
  BY DEF Sound, JobsAreSound
<1>3. CallersHoldTheLock'
  <2> SUFFICES ASSUME NEW p \in Orders, p # o, job'[p].pc = "calling"
               PROVE  lock'[Connector(p)'] = p
    BY DEF CallersHoldTheLock
  <2>1. job'[p] = job[p] /\ Connector(p)' = Connector(p)
    BY DEF Connector
  <2>2. lock[Connector(p)] = p
    BY <2>1 DEF Sound, CallersHoldTheLock
  <2>3. Connector(p) \in Connectors /\ p # None
    BY ConnectorsAssumption, NamesAssumption DEF Connector
  <2> QED BY <2>1, <2>2, <2>3
<1>4. RestingWereRejected'
  <2>1. resting \subseteq Orders
    BY DEF TypeOK
  <2> QED BY <2>1 DEF Sound, RestingWereRejected
<1> QED BY <1>1, <1>2, <1>3, <1>4 DEF Sound

LEMMA NextSound ==
  ASSUME TypeOK, Sound, [Next]_vars
  PROVE  Sound'
<1> USE DEF control, market, counters
<1>0. job \in [Orders -> Jobs] /\ queue \in Seq(Orders) /\ resting \subseteq Orders
  BY DEF TypeOK, Jobs
<1>1. ASSUME NEW o \in Orders, Enqueue(o) PROVE Sound'
  <2>1. /\ job[o].pc = "new" /\ job'[o].pc = "queued" /\ job'[o].attempt = job[o].attempt
        /\ \A p \in Orders \ {o} : job'[p] = job[p]
    BY <1>0, <1>1, MoveEffect DEF Enqueue, Waiting
  <2>2. /\ Len(queue') = Len(queue) + 1 /\ queue'[Len(queue) + 1] = o
        /\ \A i \in 1..Len(queue) : queue'[i] = queue[i] /\ queue[i] \in Orders \ {o}
    BY <1>0, <1>1, <2>1 DEF Enqueue, Sound, QueueIsSound
  <2>3. Len(queue) \in Nat
    BY <1>0
  <2>4. UNCHANGED <<lock, resting>>
    BY <1>1 DEF Enqueue
  <2>5. QueueIsSound'
    BY <2>1, <2>2, <2>3 DEF Sound, QueueIsSound
  <2>6. JobsAreSound'
    BY <2>1 DEF Sound, JobsAreSound, Waiting
  <2>7. CallersHoldTheLock'
    BY <2>1, <2>4 DEF Sound, CallersHoldTheLock, Connector
  <2>8. RestingWereRejected'
    BY <1>0, <2>1, <2>4 DEF Sound, RestingWereRejected
  <2> QED BY <2>5, <2>6, <2>7, <2>8 DEF Sound
<1>2. ASSUME NEW o \in Orders, Execute(o) \/ Route(o) PROVE Sound'
  <2>1. job[o].attempt \in 0..MaxAttempts /\ "caller" \in Owners /\ "router" \in Owners
    BY <1>0 DEF Owners, Jobs
  <2>2. /\ \A p \in Orders \ {o} : job'[p] = job[p]
        /\ job[o].pc = "new" /\ job'[o].attempt = job[o].attempt
        /\ job'[o].pc = "locking" \/ (job'[o].pc = "risk" /\ job'[o].owner = "router")
    BY <1>0, <1>2, <2>1, PutEffect DEF Execute, Route, Waiting, Executing
  <2>3. job[o].attempt < MaxAttempts /\ o \notin resting
    BY <2>2 DEF Sound, JobsAreSound, Waiting, RestingWereRejected
  <2>4. UNCHANGED <<queue, lock, resting>>
    BY <1>2 DEF Execute, Route
  <2> QED BY <2>2, <2>3, <2>4, OneMoveIsSound
<1>3. ASSUME NEW o \in Orders, RiskApproves(o) \/ RiskDenies(o) \/ Retry(o) \/ Begin(o)
      PROVE  Sound'
  <2>1. /\ \A p \in Orders \ {o} : job'[p] = job[p]
        /\ job[o].pc \in {"risk", "ready", "backoff"} /\ job'[o].attempt = job[o].attempt
        /\ job'[o].pc \in {"locking", "denied"}
    <3>1. PICK pc \in {"locking", "denied"} :
            Move(o, pc) /\ job[o].pc \in {"risk", "ready", "backoff"}
      BY <1>3 DEF RiskApproves, RiskDenies, Retry, Begin
    <3>2. pc \in Waiting \cup Executing \cup Ended
      BY DEF Executing, Ended
    <3> QED BY <1>0, <3>1, <3>2, MoveEffect
  <2>2. job[o].attempt < MaxAttempts /\ o \notin resting
    BY <2>1 DEF Sound, JobsAreSound, Waiting, RestingWereRejected
  <2>3. UNCHANGED <<queue, lock, resting>>
    BY <1>3 DEF RiskApproves, RiskDenies, Retry, Begin
  <2> QED BY <2>1, <2>2, <2>3, OneMoveIsSound
<1>4. ASSUME NEW o \in Orders, Acquire(o) PROVE Sound'
  <2>1. job[o].attempt + 1 \in 0..MaxAttempts /\ job[o].owner \in Owners
    BY <1>0, <1>4, BoundsAssumption DEF Acquire, Sound, JobsAreSound, Jobs
  <2>2. /\ \A p \in Orders \ {o} : job'[p] = job[p]
        /\ job[o].pc = "locking" /\ job'[o].pc = "calling" /\ job'[o].owner = job[o].owner
    BY <1>0, <1>4, <2>1, PutEffect DEF Acquire, Executing
  <2>3. Connector(o)' = Connector(o) /\ Connector(o) \in Connectors
    BY <2>2, ConnectorsAssumption DEF Connector
  <2>4. lock' = [lock EXCEPT ![Connector(o)] = o] /\ lock[Connector(o)] = None
    BY <1>4, Zenon DEF Acquire
  <2>5. lock \in [Connectors -> Orders \cup {None}]
    BY DEF TypeOK
  <2>6. lock'[Connector(o)'] = o /\ \A c \in Connectors : lock[c] # None => lock'[c] = lock[c]
    BY <2>3, <2>4, <2>5
  <2>7. UNCHANGED <<queue, resting>>
    BY <1>4 DEF Acquire
  <2>8. o \notin resting
    BY <2>2 DEF Sound, RestingWereRejected
  <2> QED BY <2>2, <2>6, <2>7, <2>8, OneMoveIsSound DEF Waiting
<1>5. ASSUME NEW o \in Orders, AcquireFails(o) PROVE Sound'
  <2>1. job[o].attempt + 1 \in 0..MaxAttempts /\ job[o].owner \in Owners
    BY <1>0, <1>5, BoundsAssumption DEF AcquireFails, Sound, JobsAreSound, Jobs
  <2>2. /\ \A p \in Orders \ {o} : job'[p] = job[p]
        /\ job[o].pc = "locking"
        /\ \/ job'[o].pc = "backoff" /\ job'[o].attempt < MaxAttempts
           \/ job'[o].pc = "rejected"
    <3>1. CASE job[o].attempt + 1 < MaxAttempts
      <4>1. Put(o, "backoff", job[o].owner, job[o].attempt + 1) /\ job[o].pc = "locking"
        BY <1>5, <3>1 DEF AcquireFails
      <4>2. "backoff" \in Waiting \cup Executing \cup Ended
        BY DEF Executing
      <4>3. /\ \A p \in Orders \ {o} : job'[p] = job[p]
            /\ job'[o].pc = "backoff" /\ job'[o].attempt = job[o].attempt + 1
        BY <1>0, <2>1, <4>1, <4>2, PutEffect
      <4> QED BY <3>1, <4>1, <4>3
    <3>2. CASE ~(job[o].attempt + 1 < MaxAttempts)
      <4>1. Put(o, "rejected", job[o].owner, job[o].attempt + 1) /\ job[o].pc = "locking"
        BY <1>5, <3>2 DEF AcquireFails
      <4> QED BY <1>0, <2>1, <3>2, <4>1, PutEffect DEF Ended
    <3> QED BY <3>1, <3>2
  <2>3. UNCHANGED <<queue, lock, resting>>
    BY <1>5 DEF AcquireFails
  <2>4. o \notin resting
    BY <2>2 DEF Sound, RestingWereRejected
  <2> QED BY <2>2, <2>3, <2>4, OneMoveIsSound DEF Waiting
<1>6. ASSUME NEW o \in Orders, Answer(o) PROVE Sound'
  <2>1. /\ \A p \in Orders \ {o} : job'[p] = job[p]
        /\ job[o].pc = "calling" /\ job'[o].pc \in {"filled", "rejected", "backoff"}
        /\ job'[o].pc = "backoff" => job'[o].attempt < MaxAttempts
        /\ Release(o) /\ queue' = queue
    BY <1>6, AnswerEffect
  <2>2. \A c \in Connectors : lock[c] \notin {None, o} => lock'[c] = lock[c]
    BY <2>1 DEF Release
  <2>3. o \notin resting
    BY <2>1 DEF Sound, RestingWereRejected
  <2>4. resting' = resting \/ (resting' = resting \cup {o} /\ job'[o].pc = "rejected")
    <3>1. CASE VenueRests(o)
      BY <1>0, <3>1, MoveEffect DEF VenueRests, Reject, Ended
    <3>2. CASE ~VenueRests(o)
      BY <1>6, <3>2 DEF Answer, VenueFills, VenueRefuses, VenueUnheard
    <3> QED BY <3>1, <3>2
  <2> QED BY <2>1, <2>2, <2>3, <2>4, OneMoveIsSound DEF Waiting
<1>7. ASSUME UNCHANGED <<queue, job, lock, resting>> PROVE Sound'
  BY <1>7 DEF Sound, QueueIsSound, JobsAreSound, CallersHoldTheLock, RestingWereRejected,
     Connector
<1>8. ASSUME NEW o \in Orders, DetachedCallEnds(o) PROVE Sound'
  BY <1>7, <1>8 DEF DetachedCallEnds
<1>9. ASSUME NEW l \in Loops, Start(l) \/ BatchDone(l) \/ LoopEnds(l) PROVE Sound'
  BY <1>7, <1>9 DEF Start, BatchDone, LoopEnds
<1>10. CASE StopReturns \/ UNCHANGED vars
  BY <1>7, <1>10 DEF StopReturns, vars
<1>11. ASSUME NEW c \in Connectors, Disconnect(c) \/ Connect(c) PROVE Sound'
  BY <1>7, <1>11 DEF Disconnect, Connect
<1>12. ASSUME NEW n \in 0..Len(queue), NEW owner \in Engine,
              Dispatch({queue[i] : i \in 1..n}, owner),
              queue' \in Seq(Orders), Len(queue') = Len(queue) - n,
              \A i \in 1..Len(queue) - n : queue'[i] = queue[i + n],
              UNCHANGED <<lock, resting>>
       PROVE  Sound'
  <2> DEFINE S == {queue[i] : i \in 1..n}
  <2>0. Len(queue) \in Nat /\ \A i \in 1..Len(queue) : queue[i] \in Orders
    BY <1>0
  <2>1. S \subseteq Orders /\ owner \in Owners
    BY <1>12, <2>0 DEF Engine
  <2>2. \A p \in S : job[p].pc = "queued"
    BY <2>0 DEF Sound, QueueIsSound
  <2>3. /\ \A p \in S : /\ job'[p].pc = "ready" /\ job'[p].owner = owner
                        /\ job'[p].attempt = job[p].attempt
        /\ \A p \in Orders \ S : job'[p] = job[p]
    BY <1>0, <1>12, <2>1, DispatchEffect
  <2>4. \A i \in 1..Len(queue) - n : i + n \in 1..Len(queue) /\ queue[i + n] \in Orders \ S
    <3> TAKE i \in 1..Len(queue) - n
    <3>1. i + n \in 1..Len(queue)
      BY <2>0
    <3>2. \A j \in 1..n : j \in 1..Len(queue) /\ j # i + n
      BY <2>0
    <3>3. \A j \in 1..n : queue[j] # queue[i + n]
      BY <3>1, <3>2 DEF Sound, QueueIsSound
    <3> QED BY <2>0, <3>1, <3>3
  <2>5. QueueIsSound'
    <3> SUFFICES ASSUME NEW i \in 1..Len(queue) - n
                 PROVE  /\ job'[queue'[i]].pc = "queued"
                        /\ \A j \in 1..Len(queue) - n : queue'[i] = queue'[j] => i = j
      BY <1>12 DEF QueueIsSound
    <3>1. job'[queue'[i]].pc = "queued"
      BY <1>12, <2>3, <2>4 DEF Sound, QueueIsSound
    <3>2. ASSUME NEW j \in 1..Len(queue) - n, queue'[i] = queue'[j] PROVE i = j
      <4>1. queue[i + n] = queue[j + n] /\ i + n \in 1..Len(queue) /\ j + n \in 1..Len(queue)
        BY <1>12, <2>4, <3>2
      <4>2. i + n = j + n
        BY <4>1 DEF Sound, QueueIsSound
      <4> QED BY <4>2
    <3> QED BY <3>1, <3>2
  <2>6. JobsAreSound'
    BY <1>12, <2>2, <2>3 DEF Sound, JobsAreSound, Waiting
  <2>7. CallersHoldTheLock'
    BY <1>12, <2>3 DEF Sound, CallersHoldTheLock, Connector
  <2>8. RestingWereRejected'
    BY <1>0, <1>12, <2>2, <2>3 DEF Sound, RestingWereRejected
  <2> QED BY <2>5, <2>6, <2>7, <2>8 DEF Sound
<1>13. ASSUME NEW l \in Loops, TakeBatch(l) PROVE Sound'
  <2>1. l \in Engine
    BY NamesAssumption DEF Engine, Owners
  <2> QED BY <1>0, <1>12, <1>13, <2>1, BatchEffect DEF TakeBatch
<1>14. CASE Flush
  <2>1. "flush" \in Engine /\ Len(queue) \in Nat
    BY <1>0 DEF Engine, Owners
  <2> QED BY <1>12, <1>14, <2>1 DEF Flush
<1>15. CASE Stop
  <2> DEFINE S == IF workerTask = None THEN {} ELSE Active(workerTask)
  <2>1. S \subseteq Orders /\ \A p \in S : job[p].pc \in Executing \cup {"ready"}
    BY DEF Active, OwnedBy
  <2>2. /\ Abort(S) /\ UNCHANGED <<queue, resting>>
        /\ lock' = [c \in Connectors |-> IF lock[c] \in S THEN None ELSE lock[c]]
    BY <1>15 DEF Stop
  <2> HIDE DEF S
  <2>3. /\ \A p \in S : job'[p].pc \in {"dropped", "cancelled"}
        /\ \A p \in Orders \ S : job'[p] = job[p]
    BY <1>0, <2>1, <2>2, AbortEffect
  <2>4. QueueIsSound'
    <3>1. \A i \in 1..Len(queue) : queue[i] \in Orders \ S
      BY <1>0, <2>1 DEF Sound, QueueIsSound, Executing
    <3> QED BY <2>2, <2>3, <3>1 DEF Sound, QueueIsSound
  <2>5. JobsAreSound'
    BY <2>3 DEF Sound, JobsAreSound, Waiting
  <2>6. CallersHoldTheLock'
    <3> SUFFICES ASSUME NEW p \in Orders, job'[p].pc = "calling"
                 PROVE  lock'[Connector(p)'] = p
      BY DEF CallersHoldTheLock
    <3>1. p \notin S /\ job'[p] = job[p]
      BY <2>3
    <3>2. Connector(p)' = Connector(p) /\ Connector(p) \in Connectors
      BY <3>1, ConnectorsAssumption DEF Connector
    <3>3. lock[Connector(p)] = p
      BY <3>1 DEF Sound, CallersHoldTheLock
    <3> QED BY <2>2, <3>1, <3>2, <3>3
  <2>7. RestingWereRejected'
    BY <1>0, <2>1, <2>2, <2>3 DEF Sound, RestingWereRejected, Executing
  <2> QED BY <2>4, <2>5, <2>6, <2>7 DEF Sound
<1> QED
  BY <1>1, <1>2, <1>3, <1>4, <1>5, <1>6, <1>8, <1>9, <1>10, <1>11, <1>13, <1>14, <1>15
  DEF Next, ExecuteStep, LoopStep

LEMMA InitSound == Init => TypeOK /\ Sound
<1> SUFFICES ASSUME Init PROVE TypeOK /\ Sound
  OBVIOUS
<1>1. Len(queue) = 0 /\ queue \in Seq(Orders)
  BY DEF Init
<1>2. TypeOK
  <2>1. job \in [Orders -> Jobs]
    BY BoundsAssumption DEF Init, Owners, Waiting, Jobs
  <2>2. /\ running \in BOOLEAN /\ stopping \in BOOLEAN /\ overlapped \in BOOLEAN
        /\ connected \in [Connectors -> BOOLEAN]
    BY DEF Init
  <2>3. /\ workerTask \in Loops \cup {None}
        /\ loop \in [Loops -> {"absent", "waiting", "dispatch"}]
        /\ lock \in [Connectors -> Orders \cup {None}]
        /\ venue \in [Orders -> Nat] /\ lost \in [Orders -> Nat]
        /\ resting \subseteq Orders /\ detached \subseteq Orders
    BY DEF Init
  <2>4. /\ total \in Nat /\ fills \in Nat /\ rejections \in Nat
        /\ faults \in 0..MaxFaults /\ stops \in 0..MaxStops /\ outages \in 0..MaxOutages
    BY BoundsAssumption DEF Init
  <2> QED BY <1>1, <2>1, <2>2, <2>3, <2>4 DEF TypeOK
<1>3. Sound
  BY <1>1, BoundsAssumption
  DEF Init, Sound, QueueIsSound, JobsAreSound, CallersHoldTheLock, RestingWereRejected, Waiting
<1> QED BY <1>2, <1>3

LEMMA SoundHolds == Spec => [](TypeOK /\ Sound)
<1>1. Sound => JobsAreSound
  BY DEF Sound
<1>2. TypeOK /\ Sound /\ [Next]_vars => (TypeOK /\ Sound)'
  BY <1>1, NextTypeOK, NextSound
<1> QED BY InitSound, <1>2, PTL DEF Spec

\* TypeOK: queue, executions and counters keep their shape through any mix of
\* entries, batches and stops, and no order makes more than MaxAttempts calls.
THEOREM TypeCorrect == Spec => []TypeOK
BY SoundHolds, PTL

\* OneCallPerConnector: submit_order holds the connector's lock for the whole
\* call, also when stop() cancels calls and the lock goes to the next order.
THEOREM CallsAreExclusive == Spec => []OneCallPerConnector
<1>1. Sound => OneCallPerConnector
  BY DEF Sound, CallersHoldTheLock, OneCallPerConnector
<1> QED BY <1>1, SoundHolds, PTL

-----------------------------------------------------------------------------
\* No step changes what the venue has without changing what was answered, lost or
\* left to rest.
LEMMA VenueStep ==
  ASSUME TypeOK, TypeOK', Sound, VenueMatchesAnswers, [Next]_vars
  PROVE  VenueMatchesAnswers'
<1> USE DEF control, market, counters
<1>0. /\ job \in [Orders -> Jobs] /\ venue \in [Orders -> Nat] /\ lost \in [Orders -> Nat]
      /\ resting \subseteq Orders /\ queue \in Seq(Orders)
  BY DEF TypeOK, Jobs
<1>1. ASSUME UNCHANGED <<venue, lost, resting>>,
             \A o \in Orders : job'[o].pc = "filled" <=> job[o].pc = "filled"
      PROVE  VenueMatchesAnswers'
  BY <1>0, <1>1 DEF VenueMatchesAnswers
<1>2. ASSUME NEW o \in Orders, Enqueue(o) PROVE VenueMatchesAnswers'
  <2>1. \A p \in Orders : job'[p].pc = "filled" <=> job[p].pc = "filled"
    BY <1>0, <1>2, MoveEffect DEF Enqueue, Waiting
  <2> QED BY <1>1, <1>2, <2>1 DEF Enqueue
<1>3. ASSUME NEW o \in Orders, Execute(o) \/ Route(o) PROVE VenueMatchesAnswers'
  <2>1. job[o].attempt \in 0..MaxAttempts /\ "caller" \in Owners /\ "router" \in Owners
    BY <1>0 DEF Owners, Jobs
  <2>2. \A p \in Orders : job'[p].pc = "filled" <=> job[p].pc = "filled"
    <3>1. PICK pc \in {"locking", "risk"}, owner \in {"caller", "router"} :
            Put(o, pc, owner, job[o].attempt) /\ job[o].pc = "new"
      BY <1>3, Zenon DEF Execute, Route
    <3>2. pc \in Waiting \cup Executing \cup Ended
      BY DEF Waiting, Executing
    <3>3. /\ job'[o].pc = pc /\ \A p \in Orders \ {o} : job'[p] = job[p]
      <4>1. owner \in Owners
        BY <2>1
      <4> QED BY <1>0, <2>1, <3>1, <3>2, <4>1, PutEffect
    <3> QED BY <3>1, <3>3
  <2> QED BY <1>1, <1>3, <2>2 DEF Execute, Route
<1>4. ASSUME NEW o \in Orders, RiskApproves(o) \/ RiskDenies(o) \/ Retry(o) \/ Begin(o)
      PROVE  VenueMatchesAnswers'
  <2>1. \A p \in Orders : job'[p].pc = "filled" <=> job[p].pc = "filled"
    <3>1. PICK pc \in {"locking", "denied"} :
            Move(o, pc) /\ job[o].pc \in {"risk", "ready", "backoff"}
      BY <1>4 DEF RiskApproves, RiskDenies, Retry, Begin
    <3>2. pc \in Waiting \cup Executing \cup Ended
      BY DEF Executing, Ended
    <3> QED BY <1>0, <3>1, <3>2, MoveEffect
  <2> QED BY <1>1, <1>4, <2>1 DEF RiskApproves, RiskDenies, Retry, Begin
<1>5. ASSUME NEW o \in Orders, Acquire(o) \/ AcquireFails(o) PROVE VenueMatchesAnswers'
  <2>1. PICK pc \in {"calling", "backoff", "rejected"} :
          Put(o, pc, job[o].owner, job[o].attempt + 1)
    BY <1>5 DEF Acquire, AcquireFails
  <2>2. job[o].pc = "locking" /\ UNCHANGED <<venue, lost, resting>>
    BY <1>5 DEF Acquire, AcquireFails
  <2>3. job[o].attempt + 1 \in 0..MaxAttempts /\ job[o].owner \in Owners
    BY <1>0, <2>2, BoundsAssumption DEF Sound, JobsAreSound, Jobs
  <2>4. pc \in Waiting \cup Executing \cup Ended
    BY DEF Executing, Ended
  <2>5. \A p \in Orders : job'[p].pc = "filled" <=> job[p].pc = "filled"
    BY <1>0, <2>1, <2>2, <2>3, <2>4, PutEffect
  <2> QED BY <1>1, <2>2, <2>5
<1>6. ASSUME NEW o \in Orders, Answer(o) PROVE VenueMatchesAnswers'
  <2>1. /\ job[o].pc = "calling" /\ \A p \in Orders \ {o} : job'[p] = job[p]
        /\ job'[o].pc \in {"filled", "rejected", "backoff"}
    BY <1>6, AnswerEffect
  <2>2. o \notin resting
    BY <2>1 DEF Sound, RestingWereRejected
  <2>3. CASE VenueFills(o)
    <3>1. job'[o].pc = "filled"
      BY <1>0, <2>3, MoveEffect DEF VenueFills, Ended
    <3>2. /\ UNCHANGED <<lost, resting>> /\ venue' = [venue EXCEPT ![o] = @ + 1]
      BY <2>3 DEF VenueFills
    <3> QED BY <1>0, <2>1, <2>2, <3>1, <3>2 DEF VenueMatchesAnswers
  <2>4. CASE VenueRests(o)
    <3>1. job'[o].pc = "rejected"
      BY <1>0, <2>4, MoveEffect DEF VenueRests, Reject, Ended
    <3>2. /\ resting' = resting \cup {o} /\ venue' = [venue EXCEPT ![o] = @ + 1]
          /\ lost' = lost
      BY <2>4 DEF VenueRests
    <3> QED BY <1>0, <2>1, <2>2, <3>1, <3>2 DEF VenueMatchesAnswers
  <2>5. CASE VenueRefuses(o)
    <3>1. job'[o].pc = "rejected"
      BY <1>0, <2>5, MoveEffect DEF VenueRefuses, Reject, Ended
    <3> QED BY <1>1, <2>1, <2>5, <3>1 DEF VenueRefuses
  <2>6. CASE VenueUnheard(o)
    <3>1. job'[o].pc \in {"rejected", "backoff"}
      BY <1>0, <2>6, MoveEffect DEF VenueUnheard, RetryOrReject, Reject, Ended, Executing
    <3>2. PICK taken \in 0..1 : LoseCall(o, taken)
      BY <2>6 DEF VenueUnheard
    <3>3. resting' = resting
      BY <2>6 DEF VenueUnheard
    <3> QED BY <1>0, <2>1, <2>2, <3>1, <3>2, <3>3 DEF VenueMatchesAnswers, LoseCall
  <2> QED BY <1>6, <2>3, <2>4, <2>5, <2>6 DEF Answer
<1>7. ASSUME NEW o \in Orders, DetachedCallEnds(o) PROVE VenueMatchesAnswers'
  <2>1. PICK taken \in 0..1 : LoseCall(o, taken)
    BY <1>7 DEF DetachedCallEnds
  <2>2. UNCHANGED <<job, resting>>
    BY <1>7 DEF DetachedCallEnds
  <2> QED BY <1>0, <2>1, <2>2 DEF VenueMatchesAnswers, LoseCall
<1>8. ASSUME NEW l \in Loops, Start(l) \/ BatchDone(l) \/ LoopEnds(l)
      PROVE  VenueMatchesAnswers'
  BY <1>1, <1>8 DEF Start, BatchDone, LoopEnds
<1>9. CASE StopReturns \/ UNCHANGED vars
  BY <1>1, <1>9 DEF StopReturns, vars
<1>10. ASSUME NEW c \in Connectors, Disconnect(c) \/ Connect(c) PROVE VenueMatchesAnswers'
  BY <1>1, <1>10 DEF Disconnect, Connect
<1>11. ASSUME NEW n \in 0..Len(queue), NEW owner \in Owners,
              Dispatch({queue[i] : i \in 1..n}, owner), UNCHANGED <<venue, lost, resting>>
       PROVE  VenueMatchesAnswers'
  <2> DEFINE S == {queue[i] : i \in 1..n}
  <2>0. Len(queue) \in Nat /\ \A i \in 1..Len(queue) : queue[i] \in Orders
    BY <1>0
  <2>1. S \subseteq Orders /\ \A p \in S : job[p].pc = "queued"
    BY <2>0 DEF Sound, QueueIsSound
  <2>2. Dispatch(S, owner)
    BY <1>11
  <2> HIDE DEF S
  <2>3. /\ \A p \in S : job'[p].pc = "ready"
        /\ \A p \in Orders \ S : job'[p] = job[p]
    BY <1>0, <2>1, <2>2, DispatchEffect
  <2>4. \A p \in Orders : job'[p].pc = "filled" <=> job[p].pc = "filled"
    BY <2>1, <2>3
  <2> QED BY <1>1, <1>11, <2>4
<1>12. ASSUME NEW l \in Loops, TakeBatch(l) PROVE VenueMatchesAnswers'
  BY <1>0, <1>11, <1>12, BatchEffect DEF TakeBatch, Owners
<1>13. CASE Flush
  <2>1. "flush" \in Owners /\ Len(queue) \in Nat
    BY <1>0 DEF Owners
  <2> QED BY <1>11, <1>13, <2>1 DEF Flush
<1>14. CASE Stop
  <2> DEFINE S == IF workerTask = None THEN {} ELSE Active(workerTask)
  <2>1. S \subseteq Orders /\ \A p \in S : job[p].pc \in Executing \cup {"ready"}
    BY DEF Active, OwnedBy
  <2>2. Abort(S) /\ UNCHANGED <<venue, lost, resting>>
    BY <1>14 DEF Stop
  <2> HIDE DEF S
  <2>3. \A p \in Orders : job'[p].pc = "filled" <=> job[p].pc = "filled"
    BY <1>0, <2>1, <2>2, AbortEffect DEF Executing
  <2> QED BY <1>1, <2>2, <2>3
<1> QED
  BY <1>2, <1>3, <1>4, <1>5, <1>6, <1>7, <1>8, <1>9, <1>10, <1>12, <1>13, <1>14
  DEF Next, ExecuteStep, LoopStep

\* VenueMatchesAnswers: what the venue has taken is what was answered, plus what
\* rests there and what a lost answer or a cancelled call left behind.
THEOREM AnswersMatchTheVenue == Spec => []VenueMatchesAnswers
<1>1. Init => VenueMatchesAnswers
  BY DEF Init, VenueMatchesAnswers
<1> QED BY <1>1, SoundHolds, VenueStep, PTL DEF Spec

-----------------------------------------------------------------------------
\* The orders that total has counted and neither fills nor rejections.
Pending == {o \in Orders : /\ job[o].owner \in Engine
                           /\ job[o].pc \in Executing \cup {"cancelled"}}

LEMMA CountersStep ==
  ASSUME TypeOK, TypeOK', Sound, CountersAddUp, [Next]_vars
  PROVE  CountersAddUp'
<1> USE DEF control, market, counters
<1>0. /\ job \in [Orders -> Jobs] /\ queue \in Seq(Orders)
      /\ total \in Nat /\ fills \in Nat /\ rejections \in Nat
  BY DEF TypeOK, Jobs
<1>a. IsFiniteSet(Pending) /\ Cardinality(Pending) \in Nat
  BY OrdersAreFinite, FS_Subset, FS_CardinalityType DEF Pending
<1>b. total = fills + rejections + Cardinality(Pending)
  BY DEF CountersAddUp, Pending
<1>c. total' = fills' + rejections' + Cardinality(Pending') => CountersAddUp'
  BY DEF CountersAddUp, Pending
<1>1. ASSUME UNCHANGED counters, Pending' = Pending PROVE CountersAddUp'
  BY <1>1, <1>b, <1>c
<1>2. ASSUME NEW o \in Orders, o \notin Pending, Pending' = Pending \cup {o},
             total' = total + 1, UNCHANGED <<fills, rejections>>
      PROVE  CountersAddUp'
  <2>1. Cardinality(Pending') = Cardinality(Pending) + 1
    BY <1>2, <1>a, FS_AddElement
  <2> QED BY <1>0, <1>2, <1>a, <1>b, <1>c, <2>1
<1>3. ASSUME NEW o \in Orders, CountFill(o) \/ CountRejection(o),
             IF job[o].owner \in Engine THEN o \in Pending /\ Pending' = Pending \ {o}
             ELSE Pending' = Pending
      PROVE  CountersAddUp'
  <2>1. CASE job[o].owner \in Engine
    <3>1. Cardinality(Pending') = Cardinality(Pending) - 1
      BY <1>3, <1>a, <2>1, FS_RemoveElement
    <3>2. total' = total /\ fills' + rejections' = fills + rejections + 1
      BY <1>0, <1>3, <2>1 DEF CountFill, CountRejection
    <3> QED BY <1>0, <1>a, <1>b, <1>c, <3>1, <3>2
  <2>2. CASE job[o].owner \notin Engine
    BY <1>1, <1>3, <2>2 DEF CountFill, CountRejection
  <2> QED BY <2>1, <2>2
<1>4. ASSUME NEW o \in Orders, Enqueue(o) PROVE CountersAddUp'
  <2>1. Pending' = Pending
    BY <1>0, <1>4, MoveEffect DEF Enqueue, Waiting, Executing, Pending
  <2> QED BY <1>1, <1>4, <2>1 DEF Enqueue
<1>5. ASSUME NEW o \in Orders, Execute(o) PROVE CountersAddUp'
  <2>1. job[o].attempt \in 0..MaxAttempts /\ "caller" \in Owners /\ "caller" \in Engine
    BY <1>0 DEF Owners, Engine, Jobs
  <2>2. /\ job[o].pc = "new" /\ job'[o].pc = "locking" /\ job'[o].owner = "caller"
        /\ \A p \in Orders \ {o} : job'[p] = job[p]
    BY <1>0, <1>5, <2>1, PutEffect DEF Execute, Executing
  <2>3. o \notin Pending /\ Pending' = Pending \cup {o}
    BY <2>1, <2>2 DEF Executing, Pending
  <2> QED BY <1>2, <1>5, <2>3 DEF Execute
<1>6. ASSUME NEW o \in Orders, Route(o) PROVE CountersAddUp'
  <2>1. job[o].attempt \in 0..MaxAttempts /\ "router" \in Owners /\ "router" \notin Engine
    BY <1>0 DEF Owners, Engine, Jobs
  <2>2. Pending' = Pending
    BY <1>0, <1>6, <2>1, PutEffect DEF Route, Waiting, Executing, Pending
  <2> QED BY <1>1, <1>6, <2>2 DEF Route
<1>7. ASSUME NEW o \in Orders, RiskApproves(o) \/ RiskDenies(o) PROVE CountersAddUp'
  <2>1. job[o].pc = "risk" /\ job[o].owner \notin Engine
    BY <1>7 DEF RiskApproves, RiskDenies, Sound, JobsAreSound, Engine
  <2>2. Pending' = Pending
    BY <1>0, <1>7, <2>1, MoveEffect DEF RiskApproves, RiskDenies, Executing, Ended, Pending
  <2> QED BY <1>1, <1>7, <2>2 DEF RiskApproves, RiskDenies
<1>8. ASSUME NEW o \in Orders, Begin(o) PROVE CountersAddUp'
  <2>1. job[o].pc = "ready" /\ job[o].owner \in Engine
    BY <1>8 DEF Begin, Sound, JobsAreSound
  <2>2. o \notin Pending /\ Pending' = Pending \cup {o}
    BY <1>0, <1>8, <2>1, MoveEffect DEF Begin, Executing, Pending
  <2> QED BY <1>2, <1>8, <2>2 DEF Begin
<1>9. ASSUME NEW o \in Orders, Retry(o) PROVE CountersAddUp'
  <2>1. Pending' = Pending
    BY <1>0, <1>9, MoveEffect DEF Retry, Executing, Pending
  <2> QED BY <1>1, <1>9, <2>1 DEF Retry
<1>10. ASSUME NEW o \in Orders, Acquire(o) \/ AcquireFails(o) PROVE CountersAddUp'
  <2>1. PICK pc \in {"calling", "backoff", "rejected"} :
          /\ Put(o, pc, job[o].owner, job[o].attempt + 1)
          /\ IF pc = "rejected" THEN CountRejection(o) ELSE UNCHANGED counters
    BY <1>10 DEF Acquire, AcquireFails
  <2>2. job[o].pc = "locking"
    BY <1>10 DEF Acquire, AcquireFails
  <2>3. job[o].attempt + 1 \in 0..MaxAttempts /\ job[o].owner \in Owners
    BY <1>0, <2>2, BoundsAssumption DEF Sound, JobsAreSound, Jobs
  <2>4. pc \in Waiting \cup Executing \cup Ended
    BY DEF Executing, Ended
  <2>5. /\ job'[o].pc = pc /\ job'[o].owner = job[o].owner
        /\ \A p \in Orders \ {o} : job'[p] = job[p]
    BY <1>0, <2>1, <2>3, <2>4, PutEffect
  <2>6. CASE pc = "rejected"
    <3>1. IF job[o].owner \in Engine THEN o \in Pending /\ Pending' = Pending \ {o}
          ELSE Pending' = Pending
      BY <2>2, <2>5, <2>6 DEF Pending, Executing
    <3> QED BY <1>3, <2>1, <2>6, <3>1
  <2>7. CASE pc # "rejected"
    <3>1. Pending' = Pending
      BY <2>2, <2>5, <2>7 DEF Pending, Executing
    <3> QED BY <1>1, <2>1, <2>7, <3>1
  <2> QED BY <2>6, <2>7
<1>11. ASSUME NEW o \in Orders, Answer(o) PROVE CountersAddUp'
  <2>1. /\ job[o].pc = "calling" /\ \A p \in Orders \ {o} : job'[p] = job[p]
        /\ job'[o].pc \in {"filled", "rejected", "backoff"} /\ job'[o].owner = job[o].owner
    BY <1>11, AnswerEffect
  <2>2. \/ job'[o].pc = "backoff" /\ UNCHANGED counters
        \/ job'[o].pc # "backoff" /\ (CountFill(o) \/ CountRejection(o))
    <3>1. CASE VenueFills(o)
      BY <1>0, <3>1, MoveEffect DEF VenueFills, Ended
    <3>2. CASE VenueRests(o) \/ VenueRefuses(o)
      BY <1>0, <3>2, MoveEffect DEF VenueRests, VenueRefuses, Reject, Ended
    <3>3. CASE VenueUnheard(o)
      BY <1>0, <3>3, MoveEffect DEF VenueUnheard, RetryOrReject, Reject, Ended, Executing
    <3> QED BY <1>11, <3>1, <3>2, <3>3 DEF Answer
  <2>3. CASE job'[o].pc = "backoff"
    <3>1. Pending' = Pending
      BY <2>1, <2>3 DEF Pending, Executing
    <3> QED BY <1>1, <2>2, <2>3, <3>1
  <2>4. CASE job'[o].pc # "backoff"
    <3>1. IF job[o].owner \in Engine THEN o \in Pending /\ Pending' = Pending \ {o}
          ELSE Pending' = Pending
      BY <2>1, <2>4 DEF Pending, Executing
    <3> QED BY <1>3, <2>2, <2>4, <3>1
  <2> QED BY <2>3, <2>4
<1>12. ASSUME UNCHANGED <<job, counters>> PROVE CountersAddUp'
  BY <1>1, <1>12 DEF Pending
<1>13. ASSUME NEW o \in Orders, DetachedCallEnds(o) PROVE CountersAddUp'
  BY <1>12, <1>13 DEF DetachedCallEnds
<1>14. ASSUME NEW l \in Loops, Start(l) \/ BatchDone(l) \/ LoopEnds(l) PROVE CountersAddUp'
  BY <1>12, <1>14 DEF Start, BatchDone, LoopEnds
<1>15. CASE StopReturns \/ UNCHANGED vars
  BY <1>12, <1>15 DEF StopReturns, vars
<1>16. ASSUME NEW c \in Connectors, Disconnect(c) \/ Connect(c) PROVE CountersAddUp'
  BY <1>12, <1>16 DEF Disconnect, Connect
<1>17. ASSUME NEW n \in 0..Len(queue), NEW owner \in Owners,
              Dispatch({queue[i] : i \in 1..n}, owner), UNCHANGED counters
       PROVE  CountersAddUp'
  <2> DEFINE S == {queue[i] : i \in 1..n}
  <2>0. Len(queue) \in Nat /\ \A i \in 1..Len(queue) : queue[i] \in Orders
    BY <1>0
  <2>1. S \subseteq Orders /\ \A p \in S : job[p].pc = "queued"
    BY <2>0 DEF Sound, QueueIsSound
  <2>2. Dispatch(S, owner)
    BY <1>17
  <2> HIDE DEF S
  <2>3. /\ \A p \in S : job'[p].pc = "ready"
        /\ \A p \in Orders \ S : job'[p] = job[p]
    BY <1>0, <2>1, <2>2, DispatchEffect
  <2>4. Pending' = Pending
    BY <2>1, <2>3 DEF Pending, Executing
  <2> QED BY <1>1, <1>17, <2>4
<1>18. ASSUME NEW l \in Loops, TakeBatch(l) PROVE CountersAddUp'
  BY <1>0, <1>17, <1>18, BatchEffect DEF TakeBatch, Owners
<1>19. CASE Flush
  <2>1. "flush" \in Owners /\ Len(queue) \in Nat
    BY <1>0 DEF Owners
  <2> QED BY <1>17, <1>19, <2>1 DEF Flush
<1>20. CASE Stop
  <2> DEFINE S == IF workerTask = None THEN {} ELSE Active(workerTask)
  <2>1. S \subseteq Orders /\ \A p \in S : job[p].pc \in Executing \cup {"ready"}
    BY DEF Active, OwnedBy
  <2>2. Abort(S)
    BY <1>20 DEF Stop
  <2> HIDE DEF S
  <2>3. Pending' = Pending
    BY <1>0, <2>1, <2>2, AbortEffect DEF Pending, Executing
  <2> QED BY <1>1, <2>2, <2>3 DEF Abort
<1> QED
  BY <1>4, <1>5, <1>6, <1>7, <1>8, <1>9, <1>10, <1>11, <1>13, <1>14, <1>15, <1>16, <1>18,
     <1>19, <1>20 DEF Next, ExecuteStep, LoopStep

\* CountersAddUp: an order leaves total's balance only through a fill or a
\* rejection; what stop() cancels stays in it for good.
THEOREM CountersBalance == Spec => []CountersAddUp
<1>1. Init => CountersAddUp
  <2> SUFFICES ASSUME Init PROVE CountersAddUp
    OBVIOUS
  <2>1. Pending = {}
    BY DEF Init, Pending, Executing
  <2>2. total = 0 /\ fills = 0 /\ rejections = 0
    BY DEF Init
  <2> QED BY <2>1, <2>2, FS_EmptySet DEF CountersAddUp, Pending
<1> QED BY <1>1, SoundHolds, CountersStep, PTL DEF Spec

-----------------------------------------------------------------------------
\* A loop executes only what it dispatched last, and no more than a batch.
BatchesAreSmall ==
  \A l \in Loops :
    /\ Active(l) # {} => loop[l] = "dispatch"
    /\ Cardinality(Active(l)) <= MaxConcurrent

\* Unless a start() overlapped a stop(), the one loop that exists is the task
\* that stop() would cancel, and none exists while the engine is stopped.
OneLoop ==
  overlapped \/ /\ stopping => ~running
                /\ \A l \in Loops : loop[l] # "absent" => l = workerTask /\ running

\* Only TakeBatch gives a loop something to execute.
LEMMA ActiveShrinks ==
  ASSUME TypeOK, Sound, [Next]_vars, ~(\E l \in Loops : TakeBatch(l))
  PROVE  \A l \in Loops : Active(l)' \subseteq Active(l)
<1> USE DEF control, market, counters
<1>0. job \in [Orders -> Jobs] /\ queue \in Seq(Orders)
  BY DEF TypeOK, Jobs
<1>1. ASSUME NEW o \in Orders, \A p \in Orders \ {o} : job'[p] = job[p],
             NEW l \in Loops,
             job'[o].owner = l /\ job'[o].pc \in Executing \cup {"ready"}
               => job[o].owner = l /\ job[o].pc \in Executing \cup {"ready"}
      PROVE  Active(l)' \subseteq Active(l)
  BY <1>1 DEF Active, OwnedBy
<1>2. ASSUME job' = job PROVE \A l \in Loops : Active(l)' \subseteq Active(l)
  BY <1>2 DEF Active, OwnedBy
<1>3. ASSUME NEW o \in Orders, Enqueue(o) PROVE \A l \in Loops : Active(l)' \subseteq Active(l)
  BY <1>0, <1>1, <1>3, MoveEffect DEF Enqueue, Waiting, Executing
<1>4. ASSUME NEW o \in Orders, Execute(o) \/ Route(o)
      PROVE  \A l \in Loops : Active(l)' \subseteq Active(l)
  <2>1. job[o].attempt \in 0..MaxAttempts /\ "caller" \in Owners /\ "router" \in Owners
    BY <1>0 DEF Owners, Jobs
  <2>2. /\ job'[o].owner \in {"caller", "router"}
        /\ \A p \in Orders \ {o} : job'[p] = job[p]
    BY <1>0, <1>4, <2>1, PutEffect DEF Execute, Route, Waiting, Executing
  <2> QED BY <1>1, <2>2, NamesAssumption
<1>5. ASSUME NEW o \in Orders, RiskApproves(o) \/ RiskDenies(o)
      PROVE  \A l \in Loops : Active(l)' \subseteq Active(l)
  <2>1. job[o].owner = "router"
    BY <1>5 DEF RiskApproves, RiskDenies, Sound, JobsAreSound
  <2>2. job'[o].owner = "router" /\ \A p \in Orders \ {o} : job'[p] = job[p]
    BY <1>0, <1>5, <2>1, MoveEffect DEF RiskApproves, RiskDenies, Executing, Ended
  <2> QED BY <1>1, <2>2, NamesAssumption
<1>6. ASSUME NEW o \in Orders, Begin(o) \/ Retry(o)
      PROVE  \A l \in Loops : Active(l)' \subseteq Active(l)
  <2>1. /\ job[o].pc \in {"ready", "backoff"} /\ job'[o].owner = job[o].owner
        /\ \A p \in Orders \ {o} : job'[p] = job[p]
    BY <1>0, <1>6, MoveEffect DEF Begin, Retry, Executing
  <2> QED BY <1>1, <2>1 DEF Executing
<1>7. ASSUME NEW o \in Orders, Acquire(o) \/ AcquireFails(o)
      PROVE  \A l \in Loops : Active(l)' \subseteq Active(l)
  <2>1. PICK pc \in {"calling", "backoff", "rejected"} :
          Put(o, pc, job[o].owner, job[o].attempt + 1)
    BY <1>7 DEF Acquire, AcquireFails
  <2>2. job[o].pc = "locking"
    BY <1>7 DEF Acquire, AcquireFails
  <2>3. job[o].attempt + 1 \in 0..MaxAttempts /\ job[o].owner \in Owners
    BY <1>0, <2>2, BoundsAssumption DEF Sound, JobsAreSound, Jobs
  <2>4. pc \in Waiting \cup Executing \cup Ended
    BY DEF Executing, Ended
  <2>5. job'[o].owner = job[o].owner /\ \A p \in Orders \ {o} : job'[p] = job[p]
    BY <1>0, <2>1, <2>3, <2>4, PutEffect
  <2> QED BY <1>1, <2>2, <2>5 DEF Executing
<1>8. ASSUME NEW o \in Orders, Answer(o) PROVE \A l \in Loops : Active(l)' \subseteq Active(l)
  <2>1. /\ job[o].pc = "calling" /\ job'[o].owner = job[o].owner
        /\ \A p \in Orders \ {o} : job'[p] = job[p]
    BY <1>8, AnswerEffect
  <2> QED BY <1>1, <2>1 DEF Executing
<1>9. CASE Flush
  <2> DEFINE S == {queue[i] : i \in 1..Len(queue)}
  <2>1. "flush" \in Owners /\ S \subseteq Orders
    BY <1>0 DEF Owners
  <2>2. Dispatch(S, "flush")
    BY <1>9 DEF Flush
  <2> HIDE DEF S
  <2>3. /\ \A p \in S : job'[p].owner = "flush"
        /\ \A p \in Orders \ S : job'[p] = job[p]
    BY <1>0, <2>1, <2>2, DispatchEffect
  <2> QED BY <2>3, NamesAssumption DEF Active, OwnedBy
<1>10. CASE Stop
  <2> DEFINE S == IF workerTask = None THEN {} ELSE Active(workerTask)
  <2>1. S \subseteq Orders
    BY DEF Active, OwnedBy
  <2>2. Abort(S)
    BY <1>10 DEF Stop
  <2> HIDE DEF S
  <2>3. /\ \A p \in S : job'[p].pc \in {"dropped", "cancelled"}
        /\ \A p \in Orders \ S : job'[p] = job[p]
    BY <1>0, <2>1, <2>2, AbortEffect
  <2> QED BY <2>3 DEF Active, OwnedBy, Executing
<1>11. ASSUME NEW l \in Loops, Start(l) \/ BatchDone(l) \/ LoopEnds(l) PROVE job' = job
  BY <1>11 DEF Start, BatchDone, LoopEnds
<1>12. ASSUME NEW o \in Orders, DetachedCallEnds(o) PROVE job' = job
  BY <1>12 DEF DetachedCallEnds
<1>13. ASSUME NEW c \in Connectors, Disconnect(c) \/ Connect(c) PROVE job' = job
  BY <1>13 DEF Disconnect, Connect
<1>14. StopReturns \/ UNCHANGED vars => job' = job
  BY DEF StopReturns, vars
<1> QED
  BY <1>2, <1>3, <1>4, <1>5, <1>6, <1>7, <1>8, <1>9, <1>10, <1>11, <1>12, <1>13, <1>14
  DEF Next, ExecuteStep, LoopStep

\* start, stop and the loops themselves are the only ones to change a loop.
LEMMA LoopsChange ==
  ASSUME TypeOK, [Next]_vars
  PROVE  \/ \E l \in Loops : Start(l) \/ LoopStep(l)
         \/ Stop \/ StopReturns
         \/ UNCHANGED <<loop, running, workerTask, stopping, overlapped>>
<1> USE DEF control
<1>1. ASSUME NEW o \in Orders,
             \/ Enqueue(o) \/ Execute(o) \/ Route(o) \/ Begin(o) \/ RiskApproves(o)
             \/ RiskDenies(o) \/ Acquire(o) \/ AcquireFails(o) \/ Retry(o)
             \/ DetachedCallEnds(o)
      PROVE  UNCHANGED <<loop, running, workerTask, stopping, overlapped>>
  BY <1>1 DEF Enqueue, Execute, Route, Begin, RiskApproves, RiskDenies, Acquire,
     AcquireFails, Retry, DetachedCallEnds
<1>2. ASSUME NEW o \in Orders, Answer(o)
      PROVE  UNCHANGED <<loop, running, workerTask, stopping, overlapped>>
  BY <1>2, AnswerEffect
<1>3. ASSUME NEW c \in Connectors, Disconnect(c) \/ Connect(c)
      PROVE  UNCHANGED <<loop, running, workerTask, stopping, overlapped>>
  BY <1>3 DEF Disconnect, Connect
<1>4. Flush \/ UNCHANGED vars => UNCHANGED <<loop, running, workerTask, stopping, overlapped>>
  BY DEF Flush, vars
<1> QED BY <1>1, <1>2, <1>3, <1>4 DEF Next, ExecuteStep

\* What a loop takes from the queue is not more than a batch.
LEMMA BatchIsSmall ==
  ASSUME queue \in Seq(Orders)
  PROVE  Cardinality({queue[i] : i \in 1..BatchSize}) <= MaxConcurrent
<1> DEFINE T == {queue[i] : i \in 1..BatchSize}
           f == [i \in 1..BatchSize |-> queue[i]]
<1>1. BatchSize \in 0..Len(queue) /\ BatchSize <= MaxConcurrent /\ Len(queue) \in Nat
  BY BatchEffect
<1>2. f \in Surjection(1..BatchSize, T)
  BY DEF Surjection
<1>3. IsFiniteSet(1..BatchSize) /\ Cardinality(1..BatchSize) = BatchSize
  BY <1>1, FS_Interval
<1>4. IsFiniteSet(T) /\ Cardinality(T) <= BatchSize
  BY <1>2, <1>3, FS_Surjection
<1>5. Cardinality(T) \in Nat
  BY <1>4, FS_CardinalityType
<1> QED BY <1>1, <1>4, <1>5, BoundsAssumption

\* BatchesAreSmall is inductive: TakeBatch fills an empty loop, and a loop that
\* leaves "dispatch" has nothing to execute, or had it aborted by stop().
LEMMA BatchesStep ==
  ASSUME TypeOK, Sound, BatchesAreSmall, [Next]_vars
  PROVE  BatchesAreSmall'
<1> USE DEF control
<1>0. /\ job \in [Orders -> Jobs] /\ queue \in Seq(Orders)
      /\ loop \in [Loops -> {"absent", "waiting", "dispatch"}]
      /\ workerTask \in Loops \cup {None}
  BY DEF TypeOK, Jobs
<1>1. \A l \in Loops : Cardinality(Active(l)) \in Nat
  <2>1. \A l \in Loops : Active(l) \in SUBSET Orders
    BY DEF Active, OwnedBy
  <2>2. \A l \in Loops : IsFiniteSet(Active(l))
    BY <2>1, OrdersAreFinite, FS_Subset
  <2> QED BY <2>2, FS_CardinalityType
<1>2. ASSUME \A l \in Loops : Active(l)' \subseteq Active(l)
      PROVE  \A l \in Loops : Cardinality(Active(l)') <= MaxConcurrent
  <2> TAKE l \in Loops
  <2>1. Active(l) \in SUBSET Orders /\ Active(l)' \in SUBSET Active(l)
    BY <1>2 DEF Active, OwnedBy
  <2>2. IsFiniteSet(Active(l))
    BY <2>1, OrdersAreFinite, FS_Subset
  <2>3. IsFiniteSet(Active(l)') /\ Cardinality(Active(l)') <= Cardinality(Active(l))
    BY <2>1, <2>2, FS_Subset
  <2>4. Cardinality(Active(l)') \in Nat
    BY <2>3, FS_CardinalityType
  <2> QED BY <1>1, <2>3, <2>4, BoundsAssumption DEF BatchesAreSmall
<1>3. ASSUME \A l \in Loops : Active(l)' \subseteq Active(l),
             \A l \in Loops : Active(l)' # {} => loop'[l] = loop[l]
      PROVE  BatchesAreSmall'
  <2>1. \A l \in Loops : Active(l)' # {} => loop'[l] = "dispatch"
    BY <1>3 DEF BatchesAreSmall
  <2> QED BY <1>2, <1>3, <2>1 DEF BatchesAreSmall
<1>4. ASSUME NEW l \in Loops, TakeBatch(l) PROVE BatchesAreSmall'
  <2> DEFINE S == {queue[i] : i \in 1..BatchSize}
  <2>1. S \subseteq Orders /\ l \in Owners /\ Cardinality(S) <= MaxConcurrent
    BY <1>0, BatchEffect, BatchIsSmall DEF Owners
  <2>2. Dispatch(S, l) /\ loop[l] = "waiting" /\ loop' = [loop EXCEPT ![l] = "dispatch"]
    BY <1>4 DEF TakeBatch
  <2> HIDE DEF S
  <2>3. /\ \A p \in S : job'[p].pc = "ready" /\ job'[p].owner = l
        /\ \A p \in Orders \ S : job'[p] = job[p]
    BY <1>0, <2>1, <2>2, DispatchEffect
  <2>4. Active(l) = {}
    BY <2>2 DEF BatchesAreSmall
  <2>5. Active(l)' = S
    BY <2>1, <2>3, <2>4 DEF Active, OwnedBy
  <2>6. \A k \in Loops \ {l} : Active(k)' \subseteq Active(k)
    BY <2>3 DEF Active, OwnedBy
  <2>7. \A k \in Loops : Active(k)' # {} => loop'[k] = "dispatch"
    BY <1>0, <2>2, <2>6 DEF BatchesAreSmall
  <2>8. \A k \in Loops \ {l} : Cardinality(Active(k)') <= MaxConcurrent
    <3> TAKE k \in Loops \ {l}
    <3>1. Active(k) \in SUBSET Orders /\ Active(k)' \in SUBSET Active(k)
      BY <2>6 DEF Active, OwnedBy
    <3>2. IsFiniteSet(Active(k))
      BY <3>1, OrdersAreFinite, FS_Subset
    <3>3. IsFiniteSet(Active(k)') /\ Cardinality(Active(k)') <= Cardinality(Active(k))
      BY <3>1, <3>2, FS_Subset
    <3>4. Cardinality(Active(k)') \in Nat
      BY <3>3, FS_CardinalityType
    <3> QED BY <1>1, <3>3, <3>4, BoundsAssumption DEF BatchesAreSmall
  <2> QED BY <2>1, <2>5, <2>7, <2>8 DEF BatchesAreSmall
<1> SUFFICES ASSUME ~(\E l \in Loops : TakeBatch(l)) PROVE BatchesAreSmall'
  BY <1>4
<1>5. \A l \in Loops : Active(l)' \subseteq Active(l)
  BY ActiveShrinks
<1>6. ASSUME NEW l \in Loops, loop[l] # "dispatch" \/ Active(l) = {},
             \A k \in Loops \ {l} : loop'[k] = loop[k]
      PROVE  BatchesAreSmall'
  <2>1. Active(l)' = {}
    BY <1>5, <1>6 DEF BatchesAreSmall
  <2> QED BY <1>3, <1>5, <1>6, <2>1
<1>7. ASSUME NEW l \in Loops, Start(l) \/ LoopStep(l) PROVE BatchesAreSmall'
  BY <1>0, <1>6, <1>7 DEF Start, LoopStep, BatchDone, LoopEnds
<1>8. CASE Stop
  <2>1. CASE workerTask = None
    <3>1. \A l \in Loops : loop'[l] = loop[l]
      BY <1>8, <2>1, NamesAssumption DEF Stop
    <3> QED BY <1>3, <1>5, <3>1
  <2>2. ASSUME NEW l \in Loops, workerTask = l PROVE BatchesAreSmall'
    <3>1. /\ Active(l) \subseteq Orders /\ Abort(Active(l))
          /\ \A k \in Loops \ {l} : loop'[k] = loop[k]
      BY <1>8, <2>2, NamesAssumption DEF Active, OwnedBy, Stop
    <3>2. \A p \in Active(l) : job'[p].pc \in {"dropped", "cancelled"}
      BY <1>0, <3>1, AbortEffect
    <3>3. Active(l)' = {}
      BY <1>5, <3>2 DEF Active, OwnedBy, Executing
    <3> QED BY <1>3, <1>5, <3>1, <3>3
  <2> QED BY <1>0, <2>1, <2>2
<1>9. CASE StopReturns \/ UNCHANGED <<loop, running, workerTask, stopping, overlapped>>
  BY <1>3, <1>5, <1>9 DEF StopReturns
<1> QED BY <1>7, <1>8, <1>9, LoopsChange

\* OneLoop is inductive: stop() ends the loop it knows, and start() makes one
\* only when none is running.
LEMMA OneLoopStep ==
  ASSUME TypeOK, OneLoop, [Next]_vars
  PROVE  OneLoop'
<1> USE DEF OneLoop
<1>0. loop \in [Loops -> {"absent", "waiting", "dispatch"}]
  BY DEF TypeOK
<1>1. ASSUME NEW l \in Loops, Start(l) PROVE OneLoop'
  BY <1>0, <1>1 DEF Start
<1>2. ASSUME NEW l \in Loops, LoopStep(l) PROVE OneLoop'
  BY <1>0, <1>2 DEF LoopStep, TakeBatch, BatchDone, LoopEnds
<1>3. CASE Stop
  BY <1>0, <1>3 DEF Stop
<1>4. CASE StopReturns \/ UNCHANGED <<loop, running, workerTask, stopping, overlapped>>
  BY <1>0, <1>4 DEF StopReturns
<1> QED BY <1>1, <1>2, <1>3, <1>4, LoopsChange

\* BatchBound: however often the engine is stopped and started, _process_queue_loop
\* keeps to max_concurrent unless a start() overlapped a stop().
THEOREM BatchesKeepToTheBound == Spec => []BatchBound
<1>1. Init => BatchesAreSmall /\ OneLoop
  <2> SUFFICES ASSUME Init PROVE BatchesAreSmall /\ OneLoop
    OBVIOUS
  <2>1. \A l \in Loops : Active(l) = {}
    BY DEF Init, Active, OwnedBy, Executing
  <2>2. BatchesAreSmall
    BY <2>1, FS_EmptySet, BoundsAssumption DEF BatchesAreSmall
  <2> QED BY <2>2 DEF Init, OneLoop
<1>2. TypeOK /\ BatchesAreSmall /\ OneLoop => BatchBound
  <2> SUFFICES ASSUME TypeOK, BatchesAreSmall, OneLoop, ~overlapped
               PROVE  Cardinality(UNION {Active(l) : l \in Loops}) <= MaxConcurrent
    BY DEF BatchBound
  <2>1. \A l \in Loops : Active(l) # {} => l = workerTask
    BY DEF BatchesAreSmall, OneLoop
  <2>2. CASE workerTask \in Loops
    <3>1. UNION {Active(l) : l \in Loops} = Active(workerTask)
      BY <2>1, <2>2
    <3> QED BY <2>2, <3>1 DEF BatchesAreSmall
  <2>3. CASE workerTask \notin Loops
    <3>1. UNION {Active(l) : l \in Loops} = {}
      BY <2>1, <2>3
    <3> QED BY <3>1, FS_EmptySet, BoundsAssumption
  <2> QED BY <2>2, <2>3
<1>3. TypeOK /\ Sound /\ BatchesAreSmall /\ OneLoop /\ [Next]_vars
        => (BatchesAreSmall /\ OneLoop)'
  BY BatchesStep, OneLoopStep
<1> QED BY <1>1, <1>2, <1>3, SoundHolds, PTL DEF Spec
=============================================================================
