--------------------------- MODULE SignalConsumer ---------------------------
(***************************************************************************)
(* StrategySignalKafkaConsumer beside the sessions it trades for.  run()   *)
(* takes a record, puts its signal in the buffer of its session, flushes   *)
(* the whole buffer when a session has a full batch or some seconds have   *)
(* passed since the last flush, and commits the offset, whether or not the *)
(* signal was flushed.  The clock is looked at only when a record comes.   *)
(* A flush goes from session to session, and an exception gives up the     *)
(* signals of that session.  The two topics are one log here.              *)
(*                                                                         *)
(* stop() takes the consumer away: an idle loop ends and flushes the rest, *)
(* a record in progress can no longer be committed and ends run().  The    *)
(* command line calls sys.exit(0) when stop() returns, without waiting for *)
(* run(); that is a crash here.                                            *)
(***************************************************************************)
EXTENDS PaperSessions, Sequences

CONSTANTS
  BatchSize,
  MaxRecords,    \* bound on the length of the log
  MaxFailures    \* bound on crashes and on runs ended by an exception

None == "no session"

ASSUME ConsumerAssumption ==
  /\ BatchSize \in Nat \ {0} /\ MaxRecords \in Nat /\ MaxFailures \in Nat
  /\ None \notin Sessions /\ IsFiniteSet(Sessions)

VARIABLES
  log,        \* the session of each record, None for a record without one
  committed,  \* committed offset of the group, -1 before the first commit
  position,   \* last record taken
  buffer,     \* offsets of the buffered signals
  pc,         \* "down", "idle", "flush", "execute", "commit", "recommit"
  work,       \* sessions the flush has not come to
  loaded,     \* session whose row was RUNNING when the flush read it
  stopped,    \* stop() has taken the consumer
  attempts,   \* [offset -> Nat]: times the signal was in a flush
  executed,   \* [offset -> Nat]: times it reached the executor
  skipped,    \* offsets that auto_offset_reset = "latest" jumped over
  failures

flushed == <<attempts, executed>>
vars == <<sessionVars, log, committed, position, buffer, pc, work, loaded, stopped,
          flushed, skipped, failures>>

Offsets == 1..MaxRecords

TypeOK ==
  /\ SessionTypeOK
  /\ log \in Seq(Sessions \cup {None}) /\ Len(log) <= MaxRecords
  /\ committed \in -1..Len(log) /\ position \in 0..Len(log)
  /\ buffer \subseteq 1..position
  /\ pc \in {"down", "idle", "flush", "execute", "commit", "recommit"}
  /\ work \subseteq Sessions /\ loaded \in work \cup {None}
  /\ stopped \in BOOLEAN
  /\ attempts \in [Offsets -> Nat] /\ executed \in [Offsets -> Nat]
  /\ skipped \subseteq 1..Len(log)
  /\ failures \in 0..MaxFailures

Init ==
  /\ SessionInit
  /\ log = <<>> /\ committed = -1 /\ position = 0
  /\ buffer = {} /\ work = {} /\ loaded = None
  /\ pc = "down" /\ stopped = FALSE
  /\ attempts = [i \in Offsets |-> 0] /\ executed = [i \in Offsets |-> 0]
  /\ skipped = {}
  /\ failures = 0

Batch(s) == {i \in buffer : log[i] = s}
Buffered(B) == {log[i] : i \in B}
-----------------------------------------------------------------------------
Publish(s) ==
  /\ Len(log) < MaxRecords
  /\ log' = Append(log, s)
  /\ UNCHANGED <<sessionVars, committed, position, buffer, pc, work, loaded, stopped,
                 flushed, skipped, failures>>

\* start() and run(): from the committed offset, or from the end of the log.
Start ==
  /\ pc = "down"
  /\ pc' = "idle" /\ stopped' = FALSE
  /\ IF committed = -1
     THEN position' = Len(log) /\ skipped' = 1..Len(log)
     ELSE position' = committed /\ UNCHANGED skipped
  /\ UNCHANGED <<sessionVars, log, committed, buffer, work, loaded, flushed, failures>>

\* Mutant of IsFull: a batch may grow one signal longer.
IsFullLate(B) ==
  \E s \in Sessions : Cardinality({i \in B : log[i] = s}) > BatchSize

IsFull(B) ==
  \E s \in Sessions : Cardinality({i \in B : log[i] = s}) >= BatchSize

Take ==
  LET i == position + 1
      B == buffer \cup {i}
  IN /\ pc = "idle" /\ ~stopped
     /\ position < Len(log)
     /\ position' = i
     /\ \/ /\ log[i] = None
           /\ pc' = "commit"
           /\ UNCHANGED <<buffer, work>>
        \/ /\ log[i] # None
           /\ buffer' = B
           /\ \E elapsed \in BOOLEAN :
                 IF IsFull(B) \/ elapsed
                 THEN pc' = "flush" /\ work' = Buffered(B)
                 ELSE pc' = "commit" /\ UNCHANGED work
     /\ UNCHANGED <<sessionVars, log, committed, loaded, stopped, flushed, skipped, failures>>

-----------------------------------------------------------------------------
(***************************************************************************)
(* _flush_buffer                                                           *)
(***************************************************************************)
Counted(count, s) == [i \in Offsets |-> IF i \in Batch(s) THEN count[i] + 1 ELSE count[i]]

\* Mutant of Load: the status of the session is not asked for.
LoadAny(s) ==
  /\ pc = "flush" /\ s \in work
  /\ pc' = "execute" /\ loaded' = s
  /\ UNCHANGED <<sessionVars, log, committed, position, buffer, work, stopped, flushed,
                 skipped, failures>>

\* _execute_rebalance finds the session RUNNING.
Load(s) ==
  /\ pc = "flush" /\ s \in work
  /\ status[s] = "RUNNING"
  /\ pc' = "execute" /\ loaded' = s
  /\ UNCHANGED <<sessionVars, log, committed, position, buffer, work, stopped, flushed,
                 skipped, failures>>

\* The session is not RUNNING, or an exception is logged.
GiveUp(s) ==
  /\ pc \in {"flush", "execute"} /\ s \in work
  /\ loaded \in {None, s}
  /\ attempts' = Counted(attempts, s)
  /\ pc' = "flush" /\ loaded' = None /\ work' = work \ {s}
  /\ UNCHANGED <<sessionVars, log, committed, position, buffer, stopped, executed,
                 skipped, failures>>

\* process_rebalance_signal, whatever became of the session since.
Execute ==
  /\ pc = "execute"
  /\ attempts' = Counted(attempts, loaded) /\ executed' = Counted(executed, loaded)
  /\ pc' = "flush" /\ loaded' = None /\ work' = work \ {loaded}
  /\ UNCHANGED <<sessionVars, log, committed, position, buffer, stopped, skipped, failures>>

\* Mutant of FlushDone: the buffer is not cleared.
FlushDoneKeeps ==
  /\ pc = "flush" /\ work = {}
  /\ pc' = IF stopped /\ committed = position THEN "down" ELSE "commit"
  /\ UNCHANGED <<sessionVars, log, committed, position, buffer, work, loaded, stopped,
                 flushed, skipped, failures>>

FlushDone ==
  /\ pc = "flush" /\ work = {}
  /\ buffer' = {}
  /\ pc' = IF stopped /\ committed = position THEN "down" ELSE "commit"
  /\ UNCHANGED <<sessionVars, log, committed, position, work, loaded, stopped, flushed,
                 skipped, failures>>

-----------------------------------------------------------------------------
(***************************************************************************)
(* Commits, stop() and crashes                                             *)
(***************************************************************************)
CommitOffset ==
  /\ pc \in {"commit", "recommit"} /\ ~stopped
  /\ committed' = position
  /\ pc' = "idle"
  /\ UNCHANGED <<sessionVars, log, position, buffer, work, loaded, stopped, flushed,
                 skipped, failures>>

\* A KafkaError, or the consumer is gone: the handler commits once more.
CommitFails ==
  /\ pc = "commit"
  /\ pc' = "recommit"
  /\ UNCHANGED <<sessionVars, log, committed, position, buffer, work, loaded, stopped,
                 flushed, skipped, failures>>

\* run() is gone and its buffer with it.
Fall ==
  /\ failures' = failures + 1
  /\ pc' = "down" /\ buffer' = {} /\ work' = {} /\ loaded' = None
  /\ UNCHANGED <<sessionVars, log, committed, position, stopped, flushed, skipped>>

RecommitFails == failures < MaxFailures /\ pc = "recommit" /\ Fall

Crash == failures < MaxFailures /\ pc # "down" /\ Fall

\* A signal that comes while a record is in progress ends in Fall.
Stop ==
  /\ pc # "down" /\ ~stopped
  /\ pc = "idle" \/ failures < MaxFailures
  /\ stopped' = TRUE
  /\ UNCHANGED <<sessionVars, log, committed, position, buffer, pc, work, loaded, flushed,
                 skipped, failures>>

\* Mutant of Drain: the loop ends and what is buffered is forgotten.
DrainNothing ==
  /\ pc = "idle" /\ stopped
  /\ pc' = "down" /\ buffer' = {}
  /\ UNCHANGED <<sessionVars, log, committed, position, work, loaded, stopped, flushed,
                 skipped, failures>>

\* The loop of a stopped consumer ends: what is left is flushed.
Drain ==
  /\ pc = "idle" /\ stopped
  /\ pc' = IF buffer = {} THEN "down" ELSE "flush"
  /\ work' = Buffered(buffer)
  /\ UNCHANGED <<sessionVars, log, committed, position, buffer, loaded, stopped, flushed,
                 skipped, failures>>

RunStep ==
  \/ Take \/ Execute \/ FlushDone
  \/ \E s \in Sessions : Load(s) \/ GiveUp(s)
  \/ CommitOffset \/ CommitFails \/ RecommitFails \/ Drain

ConsumerNext ==
  \/ \E s \in Sessions \cup {None} : Publish(s)
  \/ Start \/ RunStep \/ Crash \/ Stop

SessionStep ==
  /\ SessionNext
  /\ UNCHANGED <<log, committed, position, buffer, pc, work, loaded, stopped, flushed,
                 skipped, failures>>

Next == ConsumerNext \/ SessionStep

Spec == Init /\ [][Next]_vars

\* A coroutine that can go on goes on.
FairSpec == Spec /\ WF_vars(RunStep)
-----------------------------------------------------------------------------
(***************************************************************************)
(* Properties                                                              *)
(***************************************************************************)
\* Signals whose offset is committed and that no flush has seen or will see.
Lost ==
  {i \in 1..committed : log[i] # None /\ attempts[i] = 0 /\ i \notin buffer \cup skipped}

\* Committing before flushing loses signals, though never more than the partial
\* batches of one buffer per crash, and none without a crash: shutting an idle
\* consumer down, failed rebalances and failed commits lose nothing.
LossIsBounded ==
  Cardinality(Lost) <= failures * Cardinality(Sessions) * (BatchSize - 1)

\* A signal is executed again only after a crash: a redelivered record is one
\* whose flush was not followed by its commit.
ExecutedAgainOnlyAfterFailure ==
  \A i \in Offsets : attempts[i] <= 1 + failures

\* No signal trades for a session that was never started, whatever requests run
\* between the flush's read of the session and the rebalance.
OnlyStartedSessionsTrade ==
  \A i \in Offsets :
     executed[i] > 0 => status[log[i]] \notin {"absent", "INITIALIZING"}

\* However requests on one session overlap, its row never takes a status that no
\* method reaches from one it has had: no session is PAUSED that never ran,
\* or STOPPED that was never started, and none is set up a second time.
FollowsItsPast == History!Spec

\* The methods' docstrings, "Transition RUNNING -> PAUSED" and so on: requests
\* that overlap break them, a stopped session runs again.
ImplementsLifecycle == Lifecycle!Spec

\* The manager's docstring, "Only one session per strategy may be in RUNNING state
\* at a time": start_session does not look at the strategy's other sessions.
OneRunsPerStrategy ==
  \A s, t \in Sessions :
     s # t /\ StrategyOf[s] = StrategyOf[t] => ~(status[s] = "RUNNING" /\ status[t] = "RUNNING")

\* A consumer that stays up takes every record, and is left with partial batches
\* only, which wait for another record.
OnlyPartialBatchesWait ==
  <>[](pc # "down" /\ ~stopped)
    => <>[](pc = "idle" /\ position = Len(log)
            /\ \A s \in Sessions : Cardinality(Batch(s)) < BatchSize)
=============================================================================
