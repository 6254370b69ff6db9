-------------------------- MODULE MarketDataPipeline --------------------------
(***************************************************************************)
(* The consumers of the data platform: ValidationConsumer reads raw        *)
(* records and routes them, TimescaleDBWriterConsumer writes the validated *)
(* ones in batches, DLQProcessor retries what failed.  The three are       *)
(* processes of their own that meet in Kafka; each commits its offsets by  *)
(* itself and is restarted when it ends.                                   *)
(*                                                                         *)
(* A topic is the sequence of its messages from the committed offset of    *)
(* its one consumer group on; "taken" counts those the group has read and  *)
(* not committed.  A commit without arguments commits every topic of the   *)
(* consumer.  A producer's send only puts the message into its buffer.     *)
(***************************************************************************)
EXTENDS MarketDataRules, Sequences

CONSTANTS
  Records,
  Bar,             \* the fields of each record
  Feed,            \* [Kinds -> the day's records in the order they are published]
  Writable,        \* the records the database accepts
  BatchSize,       \* TimescaleDBWriterConsumer.BATCH_SIZE
  MAX_RETRIES,     \* DLQProcessor.MAX_RETRIES
  HasSession,      \* DLQProcessor was given a db_session; its default is None
  MaxFaults        \* bound on lost processes and failed calls

ASSUME RecordsAssumption ==
  /\ \A r \in Records :
       /\ Bar[r].kind \in Kinds /\ Bar[r].defect \in {"none", "caught", "uncaught"}
       /\ Bar[r].close \in Int
       /\ Bar[r].kind = "fundamentals" => Bar[r].close = 0
  /\ Writable \subseteq Records
ASSUME FeedAssumption ==
  /\ Feed \in [Kinds -> Seq(Records)]
  /\ \A r \in Records : \E i \in DOMAIN Feed[Bar[r].kind] : Feed[Bar[r].kind][i] = r
ASSUME BoundsAssumption ==
  /\ BatchSize \in Nat \ {0} /\ MAX_RETRIES \in Nat /\ MaxFaults \in Nat
  /\ HasSession \in BOOLEAN

VARIABLES
  queue,      \* [Topics -> messages from the committed offset on]
  taken,      \* [Topics -> Nat]: messages read and not committed
  buffer,     \* [Procs -> messages given to the producer and not sent]
  pc,         \* [Procs -> Points]
  batch,      \* the writer's batch
  row,        \* [Records -> the close in the table, or NoRow]
  flushed,    \* the records inserted into dlq_permanent, in an open transaction
  exhausted,  \* history: the records given up after MAX_RETRIES
  dropped,    \* history: the records a fault has interrupted
  faults

pipelineVars == <<queue, taken, buffer, pc, batch, row, flushed, exhausted, dropped,
                  faults>>

Procs == {"validator", "writer", "retrier"}
Stages == {"raw", "validated", "dlq"}
Topics == Stages \X Kinds
Points == {"idle", "flush", "commit"}
NoRow == -1

\* The topics each process subscribes to.  No one reads the dead intraday bars.
Subscribed(p) ==
  CASE p = "validator" -> {"raw"} \X Kinds
    [] p = "writer"    -> {"validated"} \X Kinds
    [] p = "retrier"   -> {<<"dlq", "eod">>, <<"dlq", "fundamentals">>}

Kind(r) == Bar[r].kind

\* close is meaningful for bars, count in the dead letter queues.
Message(r, close, count) == [rec |-> r, close |-> close, count |-> count]
Messages == [rec : Records, close : Int, count : 0..MAX_RETRIES]

PipelineTypeOK ==
  /\ queue \in [Topics -> Seq(Messages)]
  /\ taken \in [Topics -> Nat] /\ \A t \in Topics : taken[t] <= Len(queue[t])
  /\ buffer \in [Procs -> Seq([topic : Topics, msg : Messages])]
  /\ pc \in [Procs -> Points]
  /\ batch \in Seq(Messages) /\ Len(batch) <= BatchSize
  /\ row \in [Records -> Nat \cup {NoRow}]
  /\ flushed \subseteq exhausted /\ exhausted \subseteq Records /\ dropped \subseteq Records
  /\ faults \in 0..MaxFaults

Published(k) == [i \in DOMAIN Feed[k] |-> Message(Feed[k][i], Bar[Feed[k][i]].close, 0)]

\* The ingestion tasks have published the records of the day.
PipelineInit ==
  /\ queue = [t \in Topics |-> IF t[1] = "raw" THEN Published(t[2]) ELSE <<>>]
  /\ taken = [t \in Topics |-> 0]
  /\ buffer = [p \in Procs |-> <<>>]
  /\ pc = [p \in Procs |-> "idle"]
  /\ batch = <<>>
  /\ row = [r \in Records |-> NoRow]
  /\ flushed = {} /\ exhausted = {} /\ dropped = {}
  /\ faults = 0

store == <<row, flushed, exhausted>>
-----------------------------------------------------------------------------
(***************************************************************************)
(* Kafka: the consumers' offsets, the producers' buffers.                  *)
(***************************************************************************)
\* The next message of a topic, for the process that reads it.
Unread(t) == queue[t][taken[t] + 1]

Take(p, t) ==
  /\ pc[p] = "idle"
  /\ t \in Subscribed(p)
  /\ taken[t] < Len(queue[t])
  /\ taken' = [taken EXCEPT ![t] = @ + 1]

Enter(p, point) == pc' = [pc EXCEPT ![p] = point]

Send(p, t, m) == buffer' = [buffer EXCEPT ![p] = Append(@, [topic |-> t, msg |-> m])]

\* commit(): the position in every topic of the consumer.
CommitOffsets(p) ==
  /\ queue' = [t \in Topics |-> IF t \in Subscribed(p)
                               THEN SubSeq(queue[t], taken[t] + 1, Len(queue[t]))
                               ELSE queue[t]]
  /\ taken' = [t \in Topics |-> IF t \in Subscribed(p) THEN 0 ELSE taken[t]]

Fault == faults < MaxFaults /\ faults' = faults + 1

\* The producer's sender task sends the head of the buffer.
Deliver(p) ==
  /\ buffer[p] # <<>>
  /\ LET e == Head(buffer[p])
     IN queue' = [queue EXCEPT ![e.topic] = Append(@, e.msg)]
  /\ buffer' = [buffer EXCEPT ![p] = Tail(@)]
  /\ UNCHANGED <<store, taken, pc, batch, dropped, faults>>

\* The send fails; no one awaits its future.
LoseSend(p) ==
  /\ Fault
  /\ buffer[p] # <<>>
  /\ dropped' = dropped \cup {Head(buffer[p]).msg.rec}
  /\ buffer' = [buffer EXCEPT ![p] = Tail(@)]
  /\ UNCHANGED <<store, queue, taken, pc, batch>>

\* The process ends, by itself or by an exception that leaves run(), and is
\* restarted: it reads again from the committed offsets; its buffer is lost, and
\* so is the transaction that only flushed.
Crash(p) ==
  /\ Fault
  /\ taken' = [t \in Topics |-> IF t \in Subscribed(p) THEN 0 ELSE taken[t]]
  /\ dropped' = dropped \cup {buffer[p][i].msg.rec : i \in DOMAIN buffer[p]}
  /\ buffer' = [buffer EXCEPT ![p] = <<>>]
  /\ Enter(p, "idle")
  /\ batch' = IF p = "writer" THEN <<>> ELSE batch
  /\ flushed' = IF p = "retrier" THEN {} ELSE flushed
  /\ UNCHANGED <<queue, row, exhausted>>

-----------------------------------------------------------------------------
(***************************************************************************)
(* ValidationConsumer.                                                     *)
(***************************************************************************)
verdict == [r \in Records |-> Verdict(Bar[r])]

\* Mutant of ValidOutput: the adjusted record is ignored.
PlainOutput(m) == m

\* A valid record goes on with its close on the grid.
ValidOutput(m) ==
  IF Kind(m.rec) = "eod" THEN Message(m.rec, Adjusted(m.close), m.count) ELSE m

\* _process_message: to the validated topic, a bar with its close on the grid, or
\* to the dead letters.
Route(t) ==
  LET m == Unread(t)
      r == m.rec
  IN /\ Take("validator", t)
     /\ \/ verdict[r] = "valid" /\ Send("validator", <<"validated", Kind(r)>>, ValidOutput(m))
        \/ verdict[r] = "invalid" /\ Send("validator", <<"dlq", Kind(r)>>, m)
     /\ Enter("validator", "commit")
     /\ UNCHANGED <<store, queue, batch, dropped, faults>>

\* The validator raises: run() logs it and goes on without a commit.
SkipRecord(t) ==
  /\ Take("validator", t)
  /\ verdict[Unread(t).rec] = "raises"
  /\ UNCHANGED <<store, queue, buffer, pc, batch, dropped, faults>>

\* So it does when send() raises.
RouteFails(t) ==
  /\ Fault
  /\ Take("validator", t)
  /\ dropped' = dropped \cup {Unread(t).rec}
  /\ UNCHANGED <<store, queue, buffer, pc, batch>>

CommitRaw ==
  /\ pc["validator"] = "commit"
  /\ CommitOffsets("validator")
  /\ Enter("validator", "idle")
  /\ UNCHANGED <<store, buffer, batch, dropped, faults>>

\* The commit fails and is logged; a later one makes up for it.
CommitRawFails ==
  /\ Fault
  /\ pc["validator"] = "commit"
  /\ Enter("validator", "idle")
  /\ UNCHANGED <<store, queue, taken, buffer, batch, dropped>>

-----------------------------------------------------------------------------
(***************************************************************************)
(* TimescaleDBWriterConsumer.                                              *)
(***************************************************************************)
\* run: a record joins the batch, which is written when it is full or when its
\* time is up as the record arrives.
Collect(t) ==
  /\ Take("writer", t)
  /\ batch' = Append(batch, Unread(t))
  /\ \/ Len(batch') < BatchSize /\ UNCHANGED pc
     \/ Enter("writer", "flush")
  /\ UNCHANGED <<store, queue, buffer, dropped, faults>>

InBatch == {batch[i].rec : i \in DOMAIN batch}

\* The first message of a record in the batch.
FirstOf(r) ==
  CHOOSE i \in DOMAIN batch : batch[i].rec = r /\ \A j \in 1..(i - 1) : batch[j].rec # r

\* _process_batch: one transaction for the batch; rows that exist are left alone.
WriteBatch ==
  /\ pc["writer"] = "flush"
  /\ InBatch \subseteq Writable
  /\ row' = [r \in Records |->
               IF row[r] = NoRow /\ r \in InBatch THEN batch[FirstOf(r)].close ELSE row[r]]
  /\ Enter("writer", "commit")
  /\ UNCHANGED <<queue, taken, buffer, batch, flushed, exhausted, dropped, faults>>

\* Mutant of BuryBatch: the batch is only logged.
ForgetBatch ==
  /\ batch' = <<>>
  /\ Enter("writer", "idle")
  /\ UNCHANGED <<store, queue, taken, buffer, dropped>>

\* _send_to_dlq for every record of the batch, to the topic of end of day bars
\* and with no retry_count, which lies in the original record.
BuryBatch ==
  /\ buffer' = [buffer EXCEPT !["writer"] =
                  @ \o [i \in DOMAIN batch |->
                          [topic |-> <<"dlq", "eod">>,
                           msg |-> Message(batch[i].rec, batch[i].close, 0)]]]
  /\ batch' = <<>>
  /\ Enter("writer", "idle")
  /\ UNCHANGED <<store, queue, taken, dropped>>

\* The database refuses a record and with it the batch.
BatchRefused ==
  /\ pc["writer"] = "flush"
  /\ ~(InBatch \subseteq Writable)
  /\ BuryBatch
  /\ UNCHANGED faults

\* The database fails, or the commit of the offsets does after the rows are in.
BatchFails ==
  /\ Fault
  /\ pc["writer"] \in {"flush", "commit"}
  /\ BuryBatch

CommitBatch ==
  /\ pc["writer"] = "commit"
  /\ CommitOffsets("writer")
  /\ batch' = <<>>
  /\ Enter("writer", "idle")
  /\ UNCHANGED <<store, buffer, dropped, faults>>

-----------------------------------------------------------------------------
(***************************************************************************)
(* DLQProcessor.                                                           *)
(***************************************************************************)
\* process_record reads a bar in the topic of bars again; other kinds lack its
\* fields.  It does not read avg_daily_volume, which the ingestion never publishes.
Revalidates(t, m) ==
  /\ t = <<"dlq", "eod">> /\ Kind(m.rec) = "eod"
  /\ Bar[m.rec].defect = "none"
  /\ BarPasses(Bar[m.rec], m.close)

\* Valid now: back to the validated topic of bars.
Resolve(t) ==
  LET m == Unread(t)
  IN /\ Take("retrier", t)
     /\ m.count < MAX_RETRIES
     /\ Revalidates(t, m)
     /\ Send("retrier", <<"validated", "eod">>, Message(m.rec, m.close, 0))
     /\ Enter("retrier", "commit")
     /\ UNCHANGED <<store, queue, batch, dropped, faults>>

\* Mutant of Requeue: the limit is not looked at.
RequeueBeyond(t) ==
  LET m == Unread(t)
  IN /\ Take("retrier", t)
     /\ ~Revalidates(t, m)
     /\ Send("retrier", t, Message(m.rec, m.close, m.count + 1))
     /\ Enter("retrier", "commit")
     /\ UNCHANGED <<store, queue, batch, dropped, faults>>

\* Mutant of Requeue: the count is not raised.
RequeueUncounted(t) ==
  LET m == Unread(t)
  IN /\ Take("retrier", t)
     /\ m.count < MAX_RETRIES
     /\ ~Revalidates(t, m)
     /\ Send("retrier", t, m)
     /\ Enter("retrier", "commit")
     /\ UNCHANGED <<store, queue, batch, dropped, faults>>

\* Still invalid: back to the end of the same queue, the count one higher.
Requeue(t) ==
  LET m == Unread(t)
  IN /\ Take("retrier", t)
     /\ m.count < MAX_RETRIES
     /\ ~Revalidates(t, m)
     /\ Send("retrier", t, Message(m.rec, m.close, m.count + 1))
     /\ Enter("retrier", "commit")
     /\ UNCHANGED <<store, queue, batch, dropped, faults>>

\* The retries are used up.  _write_permanent inserts and flushes, and nobody
\* commits; without a session it only logs.
WritePermanent(t) ==
  /\ Take("retrier", t)
  /\ Unread(t).count >= MAX_RETRIES
  /\ exhausted' = exhausted \cup {Unread(t).rec}
  /\ flushed' = IF HasSession THEN flushed \cup {Unread(t).rec} ELSE flushed
  /\ Enter("retrier", "commit")
  /\ UNCHANGED <<queue, buffer, batch, row, dropped, faults>>

CommitDead ==
  /\ pc["retrier"] = "commit"
  /\ CommitOffsets("retrier")
  /\ Enter("retrier", "idle")
  /\ UNCHANGED <<store, buffer, batch, dropped, faults>>

-----------------------------------------------------------------------------
ValidatorStep == CommitRaw \/ \E t \in Topics : Route(t) \/ SkipRecord(t)

WriterStep == WriteBatch \/ BatchRefused \/ CommitBatch \/ \E t \in Topics : Collect(t)

RetrierStep ==
  CommitDead \/ \E t \in Topics : Resolve(t) \/ Requeue(t) \/ WritePermanent(t)

PipelineNext ==
  \/ ValidatorStep \/ WriterStep \/ RetrierStep
  \/ CommitRawFails \/ BatchFails \/ \E t \in Topics : RouteFails(t)
  \/ \E p \in Procs : Deliver(p) \/ LoseSend(p) \/ Crash(p)

PipelineSpec == PipelineInit /\ [][PipelineNext]_pipelineVars

\* The three loops run and the producers' sender tasks send.
PipelineFairSpec ==
  /\ PipelineSpec
  /\ WF_pipelineVars(ValidatorStep) /\ WF_pipelineVars(WriterStep) /\ WF_pipelineVars(RetrierStep)
  /\ \A p \in Procs : WF_pipelineVars(Deliver(p))

-----------------------------------------------------------------------------
(***************************************************************************)
(* Properties                                                              *)
(***************************************************************************)
InTable(r) == row[r] # NoRow

Queued(r) == \E t \in Topics : \E i \in DOMAIN queue[t] : queue[t][i].rec = r

Buffered(r) == \E p \in Procs : \E i \in DOMAIN buffer[p] : buffer[p][i].msg.rec = r

\* A record that was published is in the table, given up after its retries, or still
\* with Kafka or a producer, whatever the three commit and however they interleave,
\* unless a fault has interrupted it or the validator raises on it.
NothingVanishes ==
  \A r \in Records \ dropped :
    verdict[r] = "raises" \/ InTable(r) \/ r \in exhausted \/ Queued(r) \/ Buffered(r)

\* The module's docstring, "If retry_count >= MAX_RETRIES: write to dlq_permanent
\* table in DB": not without a session.
GivenUpIsWritten == exhausted \subseteq flushed

\* A row of the table passed the rules when it was published, and a bar's close is
\* on the grid of its own tier, also when it went through the dead letters and
\* when rounding took it from one tier into the next.
TableIsClean ==
  \A r \in Records : InTable(r) =>
    /\ verdict[r] = "valid"
    /\ Kind(r) = "eod" => OnGrid(row[r])

\* The module's docstring, below MAX_RETRIES "re-validate and re-route", else "write
\* to dlq_permanent": a bar comes to the writer once, and once more for each retry.
\* A bar that passes the rules and cannot be written comes again and again, because
\* nobody reads the count of a bar that was validated.
RetriesAreLimited ==
  \A r \in Records :
    Len(SelectSeq(queue[<<"validated", "eod">>], LAMBDA m : m.rec = r)) <= MAX_RETRIES + 1

\* A bar whose rounded close passes the rules as well: nothing refuses it but the
\* database.
Sound ==
  {r \in Records : /\ Kind(r) = "eod" /\ verdict[r] = "valid"
                   /\ BarPasses(Bar[r], Adjusted(Bar[r].close))}

Parked(r) == \E i \in DOMAIN queue[<<"dlq", "intraday">>] : queue[<<"dlq", "intraday">>][i].rec = r

Waiting(r) == pc["writer"] = "idle" /\ r \in InBatch

Settled(r) ==
  \/ InTable(r) \/ r \in dropped \/ Waiting(r)
  \/ r \notin Sound /\ (r \in exhausted \/ Parked(r) \/ verdict[r] = "raises")

\* When the database takes every sound bar, every record comes to rest, whatever it
\* shares a batch with and whatever failed once: a sound bar in the table, any other
\* record there, given up after its retries, or with the dead intraday bars.  A
\* record in a batch waits until the next one arrives.
EverythingSettles == Sound \subseteq Writable => <>[](\A r \in Records : Settled(r))
=============================================================================
