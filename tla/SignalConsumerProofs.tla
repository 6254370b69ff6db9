------------------------- MODULE SignalConsumerProofs ------------------------
(***************************************************************************)
(* Theorems about SignalConsumer and the sessions it trades for, for any   *)
(* sessions, clients, batch sizes and bounds.                              *)
(*                                                                         *)
(* A request writes its row by id, whatever the row has become since it    *)
(* was read: what the sessions keep is a matter of the statuses a row has  *)
(* had, except that only one request creates it.                           *)
(***************************************************************************)
EXTENDS SignalConsumer, FiniteSetTheorems, FunctionTheorems, TLAPS

\* The statuses from which a request in progress is a move of the lifecycle.
Sources(op) ==
  CASE op = "create" -> {"absent"}
    [] op = "simulate" -> {"INITIALIZING"}
    [] op \in {"start", "pause", "resume", "stop"} -> From(op)

\* The request of c saw its row in a status that allows its move.  A row that is
\* being created is not there, and nobody else creates it.
KnowsItsRow(c) ==
  LET q == request[c]
  IN /\ IF q.op = "create"
        THEN status[q.session] = "absent" /\ \A d \in Clients : request[d] = q => d = c
        ELSE status[q.session] # "absent"
     /\ q.op # "simulating" => Sources(q.op) \cap past[q.session] # {}

RequestsKnowTheirRow ==
  /\ \A s \in Sessions : status[s] \in past[s]
  /\ \A c \in Clients : request[c] # NoRequest => KnowsItsRow(c)

\* What is buffered is a signal, and nothing is buffered while the consumer is
\* down.
BufferIsSound ==
  /\ \A i \in buffer : log[i] \in Sessions
  /\ pc = "down" => buffer = {}

\* A session is loaded between the read of its row and the rebalance.
LoadedIsExecuted == pc = "execute" <=> loaded # None

Sound == TypeOK /\ BufferIsSound /\ LoadedIsExecuted

\* Whoever is being traded for was started, and so was whoever was traded for.
Started(s) == status[s] \notin {"absent", "INITIALIZING"}

TradesAreStarted ==
  /\ loaded # None => Started(loaded)
  /\ \A i \in Offsets :
        executed[i] > 0 => i <= Len(log) /\ log[i] \in Sessions /\ Started(log[i])

\* What a flush may still attempt unless the consumer falls: records to come,
\* and buffered signals whose session the flush has not come to.
Pending(i) ==
  IF pc = "down" THEN i > (IF committed = -1 THEN position ELSE committed)
  ELSE i > position \/ (i \in buffer /\ (pc \in {"flush", "execute"} => log[i] \in work))

\* An idle consumer has committed what it has taken, if it has taken anything.
IdleIsCommitted == pc = "idle" => committed = -1 \/ committed = position

AttemptsAreBounded ==
  /\ IdleIsCommitted
  /\ \A i \in Offsets :
        attempts[i] <= failures + 1 /\ (Pending(i) => attempts[i] <= failures)

\* What a fall would lose: the buffered signals whose offset is committed.
Exposed(s) == {i \in Batch(s) : i <= committed}

BatchesArePartial ==
  /\ \A s \in Sessions : Cardinality(Exposed(s)) < BatchSize
  /\ pc \in {"idle", "commit", "recommit"}
       => \A s \in Sessions : Cardinality(Batch(s)) < BatchSize

\* A record that is taken has no session, is buffered, was in a flush, or was
\* jumped over; a flush leaves out nothing of the buffer.
Accounted(i) == log[i] = None \/ attempts[i] > 0 \/ i \in buffer \cup skipped

NothingSlips ==
  /\ pc = "idle" => (committed = -1 /\ buffer = {}) \/ committed = position
  /\ pc # "down" => \A i \in 1..position : i > committed => Accounted(i)
  /\ pc \in {"flush", "execute"} => \A i \in buffer : log[i] \in work \/ attempts[i] > 0

-----------------------------------------------------------------------------
\* The sessions' half of TypeOK, in the sessions' steps.
LEMMA SessionTypes ==
  ASSUME SessionTypeOK, SessionNext
  PROVE  SessionTypeOK'
<1> USE DEF SessionTypeOK, Operations, SessionStatuses
<1> DEFINE Requests == {NoRequest} \cup [op : Operations, session : Sessions]
<1>1. ASSUME NEW c \in Clients, NEW s \in Sessions, NEW op \in Operations, Ask(c, s, op)
      PROVE  SessionTypeOK'
  BY <1>1 DEF Ask, rows
<1>2. ASSUME NEW c \in Clients, NEW s \in Sessions,
             \/ Create(c, s) \/ Simulate(c, s) \/ \E op \in Operations : Change(c, s, op)
      PROVE  SessionTypeOK'
  BY <1>1, <1>2 DEF Create, Simulate, Change
<1>3. ASSUME NEW c \in Clients, Commit(c) PROVE SessionTypeOK'
  <2> DEFINE q == request[c]
  <2>1. q \in [op : Operations, session : Sessions]
    BY <1>3 DEF Commit, NoRequest
  <2>2. To(q.op) \in SessionStatuses
    BY <1>3, <2>1 DEF Commit, To
  <2>3. /\ status' = [status EXCEPT ![q.session] = To(q.op)]
        /\ past' = [past EXCEPT ![q.session] = @ \cup {To(q.op)}]
    BY <1>3 DEF Commit, Write
  <2>4. [q EXCEPT !.op = "simulating"] \in [op : Operations, session : Sessions]
    BY <2>1
  <2>5. request' \in [Clients -> Requests]
    BY <1>3, <2>4 DEF Commit
  <2>6. past' \in [Sessions -> SUBSET SessionStatuses]
    BY <2>1, <2>2, <2>3
  <2> QED BY <2>1, <2>2, <2>3, <2>5, <2>6
<1>4. ASSUME NEW c \in Clients, Rollback(c) PROVE SessionTypeOK'
  BY <1>4 DEF Rollback, rows
<1>5. ASSUME NEW c \in Clients, SimulationEnds(c) PROVE SessionTypeOK'
  <2>1. UNCHANGED <<status, past>>
    BY <1>5 DEF SimulationEnds, From, rows
  <2>2. request' \in [Clients -> Requests]
    BY <1>5 DEF SimulationEnds
  <2> QED BY <2>1, <2>2
<1> QED BY <1>2, <1>3, <1>4, <1>5 DEF SessionNext

\* A new request knows its row, and the others still do.
LEMMA AskedRequest ==
  ASSUME SessionTypeOK, RequestsKnowTheirRow,
         NEW c \in Clients, NEW s \in Sessions, NEW op \in Operations, Ask(c, s, op),
         IF op = "create"
         THEN status[s] = "absent"
              /\ \A d \in Clients : request[d] # [op |-> "create", session |-> s]
         ELSE status[s] # "absent",
         op # "simulating" => status[s] \in Sources(op)
  PROVE  RequestsKnowTheirRow'
<1> DEFINE r == [op |-> op, session |-> s]
<1>1. /\ status' = status /\ past' = past
      /\ request'[c] = r
      /\ \A d \in Clients \ {c} : request'[d] = request[d]
      /\ request[c] = NoRequest
  BY DEF Ask, rows, SessionTypeOK
<1>2. status[s] \in past[s]
  BY DEF RequestsKnowTheirRow
<1>3. ASSUME NEW d \in Clients, request'[d] # NoRequest PROVE KnowsItsRow(d)'
  <2>1. CASE d = c
    <3>1. op = "create" => \A e \in Clients : request'[e] = r => e = c
      BY <1>1
    <3> QED BY <1>1, <1>2, <2>1, <3>1 DEF KnowsItsRow
  <2>2. CASE d # c
    <3>1. KnowsItsRow(d) /\ request'[d] = request[d]
      BY <1>1, <1>3, <2>2 DEF RequestsKnowTheirRow
    <3>2. request[d] \in [op : Operations, session : Sessions]
      BY <1>3, <3>1 DEF SessionTypeOK
    <3>3. request[d].op = "create" => request[d] = [op |-> "create", session |-> request[d].session]
      BY <3>2
    <3>4. request[d].op = "create" => request[d] # r
      BY <3>3
    <3> QED BY <1>1, <3>1, <3>4 DEF KnowsItsRow
  <2> QED BY <2>1, <2>2
<1> QED BY <1>1, <1>3 DEF RequestsKnowTheirRow

\* A commit moves its row, as the lifecycle allows from some status the row has
\* had, and never back to where it is not started.
LEMMA CommitMoves ==
  ASSUME SessionTypeOK, RequestsKnowTheirRow, NEW c \in Clients, Commit(c)
  PROVE  LET s == request[c].session
             to == To(request[c].op)
         IN /\ s \in Sessions /\ request[c] # NoRequest
            /\ Write(s, to) /\ to \in SessionStatuses \ {"absent"}
            /\ to = "INITIALIZING" => status[s] = "absent"
            /\ \E from \in SessionStatuses : History!Move(s, from, to)
<1> DEFINE q == request[c]
           s == request[c].session
           to == To(request[c].op)
<1>1. q # NoRequest /\ q \in [op : Operations, session : Sessions] /\ q.op # "simulating"
  BY DEF Commit, NoRequest, SessionTypeOK, Operations
<1>2. KnowsItsRow(c)
  BY <1>1 DEF RequestsKnowTheirRow
<1>3. s \in Sessions /\ Write(s, to)
  BY <1>1 DEF Commit
<1>4. to \in SessionStatuses \ {"absent"} /\ (to = "INITIALIZING" => q.op = "create")
  BY <1>1 DEF To, Operations, SessionStatuses
<1>5. PICK from \in Sources(q.op) : from \in past[s]
  BY <1>1, <1>2 DEF KnowsItsRow
<1>6. <<from, to>> \in Lifecycle!Moves /\ from \in SessionStatuses
  BY <1>1, <1>5 DEF Sources, From, To, Lifecycle!Moves, Operations, SessionStatuses
<1>7. History!Move(s, from, to)
  BY <1>3, <1>5, <1>6 DEF History!Move, Write
<1> QED BY <1>1, <1>2, <1>3, <1>4, <1>6, <1>7 DEF KnowsItsRow

\* A request that ends leaves the others knowing their rows: its commit creates
\* a row that nobody else asks about, or moves one that is there.
LEMMA EndedRequest ==
  ASSUME SessionTypeOK, RequestsKnowTheirRow, NEW c \in Clients, request[c] # NoRequest,
         \A d \in Clients \ {c} : request'[d] = request[d],
         \/ request'[c] = NoRequest
         \/ request'[c] = [op |-> "simulating", session |-> request[c].session]
            /\ status'[request[c].session] # "absent",
         \/ UNCHANGED rows
         \/ \E to \in SessionStatuses \ {"absent"} : Write(request[c].session, to)
  PROVE  RequestsKnowTheirRow'
<1> USE DEF SessionTypeOK
<1> DEFINE s == request[c].session
<1>1. s \in Sessions /\ KnowsItsRow(c)
  BY DEF RequestsKnowTheirRow
<1>2. /\ \A t \in Sessions \ {s} : status'[t] = status[t]
      /\ status'[s] = status[s] \/ status'[s] # "absent"
      /\ \A t \in Sessions : past[t] \subseteq past'[t] /\ status'[t] \in past'[t]
  <2>1. CASE UNCHANGED rows
    BY <2>1 DEF rows, RequestsKnowTheirRow
  <2>2. ASSUME NEW to \in SessionStatuses \ {"absent"}, Write(s, to) PROVE <1>2
    BY <1>1, <2>2 DEF Write, RequestsKnowTheirRow
  <2> QED BY <2>1, <2>2
<1>3. ASSUME NEW d \in Clients, request'[d] # NoRequest PROVE KnowsItsRow(d)'
  <2>1. CASE d = c
    BY <2>1, <1>3 DEF KnowsItsRow
  <2>2. CASE d # c
    <3> DEFINE q == request[d]
    <3>1. request'[d] = q /\ KnowsItsRow(d) /\ q \in [op : Operations, session : Sessions]
      BY <1>3, <2>2 DEF RequestsKnowTheirRow
    <3>2. q.op # "simulating" => Sources(q.op) \cap past'[q.session] # {}
      BY <1>2, <3>1 DEF KnowsItsRow
    <3>3. CASE q.op = "create"
      <4>1. status[q.session] = "absent" /\ \A e \in Clients : request[e] = q => e = d
        BY <3>1, <3>3 DEF KnowsItsRow
      <4>2. q.session # s
        <5>1. SUFFICES ASSUME q.session = s PROVE FALSE
          OBVIOUS
        <5>2. request[c].op = "create"
          BY <1>1, <4>1, <5>1 DEF KnowsItsRow
        <5>3. request[c] \in [op : Operations, session : Sessions]
          OBVIOUS
        <5>4. request[c] = q
          BY <3>1, <3>3, <5>1, <5>2, <5>3
        <5> QED BY <2>2, <4>1, <5>4
      <4>3. status'[q.session] = "absent"
        BY <1>2, <3>1, <4>1, <4>2
      <4>4. \A e \in Clients : request'[e] = q => e = d
        BY <3>3, <4>1 DEF NoRequest
      <4> QED BY <3>1, <3>2, <3>3, <4>3, <4>4 DEF KnowsItsRow
    <3>4. CASE q.op # "create"
      <4>1. status'[q.session] # "absent"
        BY <1>2, <3>1, <3>4 DEF KnowsItsRow
      <4> QED BY <3>1, <3>2, <3>4, <4>1 DEF KnowsItsRow
    <3> QED BY <3>3, <3>4
  <2> QED BY <2>1, <2>2
<1> QED BY <1>2, <1>3 DEF RequestsKnowTheirRow

LEMMA NextRequests ==
  ASSUME SessionTypeOK, RequestsKnowTheirRow, SessionNext
  PROVE  RequestsKnowTheirRow'
<1>1. ASSUME NEW c \in Clients, NEW s \in Sessions, Create(c, s) PROVE RequestsKnowTheirRow'
  BY <1>1, AskedRequest DEF Create, Sources, Operations
<1>2. ASSUME NEW c \in Clients, NEW s \in Sessions, Simulate(c, s) PROVE RequestsKnowTheirRow'
  <2> DEFINE op == IF status[s] = "INITIALIZING" THEN "simulate" ELSE "simulating"
  <2>1. Ask(c, s, op) /\ op \in Operations /\ op # "create" /\ status[s] # "absent"
    BY <1>2 DEF Simulate, Operations
  <2>2. op # "simulating" => status[s] \in Sources(op)
    BY DEF Sources
  <2> HIDE DEF op
  <2> QED BY <2>1, <2>2, AskedRequest
<1>3. ASSUME NEW c \in Clients, NEW s \in Sessions, NEW op \in Operations, Change(c, s, op)
      PROVE  RequestsKnowTheirRow'
  <2>1. Ask(c, s, op) /\ status[s] \in Sources(op) /\ op # "create" /\ status[s] # "absent"
    BY <1>3 DEF Change, Sources, From
  <2> QED BY <2>1, AskedRequest
<1>4. ASSUME NEW c \in Clients, Commit(c) PROVE RequestsKnowTheirRow'
  <2> DEFINE q == request[c]
  <2>1. /\ q.session \in Sessions /\ q # NoRequest
        /\ Write(q.session, To(q.op)) /\ To(q.op) \in SessionStatuses \ {"absent"}
    BY <1>4, CommitMoves
  <2>2. q \in [op : Operations, session : Sessions]
    BY <2>1 DEF SessionTypeOK
  <2>3. status'[q.session] # "absent"
    BY <2>1 DEF Write, SessionTypeOK
  <2>4. /\ \A d \in Clients \ {c} : request'[d] = request[d]
        /\ \/ request'[c] = NoRequest
           \/ request'[c] = [q EXCEPT !.op = "simulating"]
    BY <1>4 DEF Commit, SessionTypeOK
  <2>5. [q EXCEPT !.op = "simulating"] = [op |-> "simulating", session |-> q.session]
    BY <2>2
  <2> QED BY <2>1, <2>3, <2>4, <2>5, EndedRequest
<1>5. ASSUME NEW c \in Clients, Rollback(c) \/ SimulationEnds(c) PROVE RequestsKnowTheirRow'
  <2>1. request[c] # NoRequest
    BY <1>5 DEF Rollback, SimulationEnds, NoRequest, Operations
  <2>2. /\ \A d \in Clients \ {c} : request'[d] = request[d]
        /\ request'[c] = NoRequest /\ UNCHANGED rows
    BY <1>5 DEF Rollback, SimulationEnds, From, SessionTypeOK
  <2> QED BY <2>1, <2>2, EndedRequest
<1> QED BY <1>1, <1>2, <1>3, <1>4, <1>5 DEF SessionNext

\* What one step of the sessions does to the rows.
LEMMA RowMoves ==
  ASSUME SessionTypeOK, RequestsKnowTheirRow, SessionNext
  PROVE  \/ UNCHANGED rows
         \/ \E s \in Sessions, from, to \in SessionStatuses :
               /\ History!Move(s, from, to)
               /\ to = "INITIALIZING" => status[s] = "absent"
               /\ to # "absent"
<1>1. ASSUME NEW c \in Clients, Rollback(c) \/ SimulationEnds(c) PROVE UNCHANGED rows
  BY <1>1 DEF Rollback, SimulationEnds, From
<1>2. ASSUME NEW c \in Clients, NEW s \in Sessions,
             Create(c, s) \/ Simulate(c, s) \/ \E op \in Operations : Change(c, s, op)
      PROVE  UNCHANGED rows
  BY <1>2 DEF Create, Simulate, Change, Ask
<1> QED BY <1>1, <1>2, CommitMoves DEF SessionNext

-----------------------------------------------------------------------------
\* What a session's step leaves alone.
LEMMA SessionStepFrame ==
  ASSUME SessionStep
  PROVE  /\ SessionNext
         /\ UNCHANGED <<log, committed, position, buffer, pc, work, loaded, stopped,
                        attempts, executed, skipped, failures>>
BY DEF SessionStep, flushed

\* TypeOK in three parts, and what the parts keep besides.
OffsetsAreSound ==
  /\ log \in Seq(Sessions \cup {None}) /\ Len(log) <= MaxRecords
  /\ committed \in -1..Len(log) /\ position \in 0..Len(log)
  /\ skipped \subseteq 1..Len(log)
  /\ buffer \subseteq 1..position

FlushIsSound ==
  /\ pc \in {"down", "idle", "flush", "execute", "commit", "recommit"}
  /\ work \subseteq Sessions /\ loaded \in work \cup {None}
  /\ LoadedIsExecuted

CountsAreSound ==
  /\ stopped \in BOOLEAN
  /\ attempts \in [Offsets -> Nat] /\ executed \in [Offsets -> Nat]
  /\ failures \in 0..MaxFailures

LEMMA SoundParts ==
  Sound <=> /\ SessionTypeOK /\ OffsetsAreSound /\ FlushIsSound /\ CountsAreSound
            /\ BufferIsSound
<1>1. TypeOK <=> /\ SessionTypeOK /\ OffsetsAreSound /\ CountsAreSound
                 /\ pc \in {"down", "idle", "flush", "execute", "commit", "recommit"}
                 /\ work \subseteq Sessions /\ loaded \in work \cup {None}
  BY Zenon DEF TypeOK, OffsetsAreSound, CountsAreSound
<1> QED BY Zenon, <1>1 DEF Sound, FlushIsSound

LEMMA SoundInit == Init => Sound
<1> SUFFICES ASSUME Init PROVE Sound
  OBVIOUS
<1> USE ConsumerAssumption
<1>1. SessionTypeOK
  BY DEF Init, SessionInit, SessionTypeOK, SessionStatuses
<1>2. OffsetsAreSound /\ BufferIsSound
  BY DEF Init, OffsetsAreSound, BufferIsSound
<1>3. FlushIsSound
  BY DEF Init, FlushIsSound, LoadedIsExecuted
<1>4. CountsAreSound
  <2>1. attempts \in [Offsets -> Nat] /\ executed \in [Offsets -> Nat]
    BY DEF Init
  <2>2. stopped \in BOOLEAN /\ failures = 0
    BY DEF Init
  <2> QED BY <2>1, <2>2 DEF CountsAreSound
<1> QED BY <1>1, <1>2, <1>3, <1>4, SoundParts

\* A flush's step: one session's signals are counted and the session is done.
LEMMA CountedIsTyped ==
  ASSUME NEW count \in [Offsets -> Nat], NEW s
  PROVE  /\ Counted(count, s) \in [Offsets -> Nat]
         /\ \A i \in Offsets :
              Counted(count, s)[i] = IF i \in Batch(s) THEN count[i] + 1 ELSE count[i]
BY DEF Counted

\* The consumer's steps leave the sessions alone.
LEMMA ConsumerFrame == ConsumerNext => UNCHANGED <<status, past, request>>
BY DEF ConsumerNext, RunStep, Publish, Start, Take, Load, GiveUp, Execute, FlushDone,
   CommitOffset, CommitFails, RecommitFails, Crash, Fall, Stop, Drain, sessionVars, rows

LEMMA BufferedAreSessions == BufferIsSound => Buffered(buffer) \subseteq Sessions
BY DEF BufferIsSound, Buffered

LEMMA SoundOffsets ==
  ASSUME OffsetsAreSound, BufferIsSound, ConsumerNext
  PROVE  OffsetsAreSound' /\ BufferIsSound'
<1> USE ConsumerAssumption
<1>0. Len(log) \in Nat
  BY DEF OffsetsAreSound
<1>1. ASSUME NEW s \in Sessions \cup {None}, Publish(s)
      PROVE  OffsetsAreSound' /\ BufferIsSound'
  <2>1. /\ log' \in Seq(Sessions \cup {None}) /\ Len(log') = Len(log) + 1
        /\ Len(log') <= MaxRecords
        /\ \A i \in 1..Len(log) : log'[i] = log[i]
    BY <1>1 DEF Publish, OffsetsAreSound
  <2>2. UNCHANGED <<committed, position, buffer, pc, skipped>>
    BY <1>1 DEF Publish
  <2>3. OffsetsAreSound'
    BY <1>0, <2>1, <2>2 DEF OffsetsAreSound
  <2>4. \A i \in buffer : i \in 1..Len(log)
    BY <1>0 DEF OffsetsAreSound
  <2> QED BY <2>1, <2>2, <2>3, <2>4 DEF BufferIsSound
<1>2. ASSUME Start PROVE OffsetsAreSound' /\ BufferIsSound'
  <2>1. UNCHANGED <<log, committed, buffer>> /\ buffer = {}
    BY <1>2 DEF Start, BufferIsSound
  <2>2. \/ committed = -1 /\ position' = Len(log) /\ skipped' = 1..Len(log)
        \/ committed # -1 /\ position' = committed /\ skipped' = skipped
    BY <1>2 DEF Start
  <2>3. position' \in 0..Len(log)
    BY <1>0, <2>1, <2>2 DEF OffsetsAreSound
  <2>4. skipped' \subseteq 1..Len(log)
    BY <1>0, <2>1, <2>2 DEF OffsetsAreSound
  <2>5. buffer' \subseteq 1..position'
    BY <1>0, <2>1, <2>2 DEF OffsetsAreSound
  <2>6. committed' \in -1..Len(log)
    BY <1>0, <2>1, <2>2 DEF OffsetsAreSound
  <2>7. log' \in Seq(Sessions \cup {None}) /\ Len(log') <= MaxRecords /\ Len(log') = Len(log)
    BY <1>0, <2>1, <2>2 DEF OffsetsAreSound
  <2>8. OffsetsAreSound'
    BY <2>3, <2>4, <2>5, <2>6, <2>7 DEF OffsetsAreSound
  <2> QED BY <2>1, <2>8 DEF BufferIsSound
<1>3. ASSUME Take PROVE OffsetsAreSound' /\ BufferIsSound'
  <2>1. /\ position' = position + 1 /\ position < Len(log) /\ pc' # "down"
        /\ \/ buffer' = buffer
           \/ log[position + 1] # None /\ buffer' = buffer \cup {position + 1}
        /\ UNCHANGED <<log, committed, skipped>>
    BY <1>3 DEF Take
  <2>2. position + 1 \in 1..Len(log) /\ log[position + 1] \in Sessions \cup {None}
    BY <1>0, <2>1 DEF OffsetsAreSound
  <2>3. \A i \in buffer : i \in 1..(position + 1)
    BY <1>0 DEF OffsetsAreSound
  <2>4. position' \in 0..Len(log) /\ position + 1 \in 1..position'
    BY <1>0, <2>1, <2>2
  <2>5. \A i \in buffer' : i \in 1..position'
    BY <2>1, <2>3, <2>4
  <2>6. OffsetsAreSound'
    BY <2>1, <2>4, <2>5 DEF OffsetsAreSound
  <2> QED BY <2>1, <2>2, <2>6 DEF BufferIsSound
<1>4. ASSUME buffer' \in {{}, buffer}, committed' \in {committed, position},
             UNCHANGED <<log, position, skipped>>, pc' = "down" => buffer' = {}
      PROVE  OffsetsAreSound' /\ BufferIsSound'
  <2>1. committed' \in -1..Len(log)
    BY <1>0, <1>4 DEF OffsetsAreSound
  <2>2. OffsetsAreSound'
    BY <1>4, <2>1 DEF OffsetsAreSound
  <2> QED BY <1>4, <2>2 DEF BufferIsSound
<1>5. ASSUME \/ \E s \in Sessions : Load(s) \/ GiveUp(s)
             \/ Execute \/ CommitOffset \/ CommitFails \/ RecommitFails \/ Crash
      PROVE  OffsetsAreSound' /\ BufferIsSound'
  <2>1. /\ buffer' \in {{}, buffer} /\ committed' \in {committed, position}
        /\ UNCHANGED <<log, position, skipped>> /\ (pc' = "down" => buffer' = {})
    BY <1>5 DEF Load, GiveUp, Execute, CommitOffset, CommitFails, RecommitFails, Crash, Fall
  <2> QED BY <1>4, <2>1
<1>6. ASSUME FlushDone \/ Drain \/ Stop PROVE OffsetsAreSound' /\ BufferIsSound'
  <2>1. /\ buffer' \in {{}, buffer} /\ committed' \in {committed, position}
        /\ UNCHANGED <<log, position, skipped>>
    BY <1>6 DEF FlushDone, Drain, Stop
  <2>2. pc' = "down" => buffer' = {}
    BY <1>6 DEF FlushDone, Drain, Stop, BufferIsSound
  <2> QED BY <1>4, <2>1, <2>2
<1> QED BY <1>1, <1>2, <1>3, <1>5, <1>6 DEF ConsumerNext, RunStep

LEMMA SoundFlush ==
  ASSUME OffsetsAreSound, FlushIsSound, CountsAreSound, BufferIsSound, ConsumerNext
  PROVE  FlushIsSound' /\ CountsAreSound'
<1> USE ConsumerAssumption
<1>1. CASE Take
  <2> DEFINE B == buffer \cup {position + 1}
  <2>1. /\ pc = "idle" /\ pc' \in {"flush", "commit"}
        /\ \/ work' = work
           \/ log[position + 1] # None /\ work' = Buffered(B)
        /\ UNCHANGED <<loaded, stopped, attempts, executed, failures>>
    BY <1>1 DEF Take, flushed
  <2>2. position + 1 \in 1..Len(log) /\ log[position + 1] \in Sessions \cup {None}
    BY <1>1 DEF Take, OffsetsAreSound
  <2>3. log[position + 1] # None => Buffered(B) \subseteq Sessions
    BY <2>2 DEF Buffered, BufferIsSound
  <2> HIDE DEF B
  <2> QED BY <2>1, <2>3 DEF FlushIsSound, LoadedIsExecuted, CountsAreSound
<1>2. ASSUME NEW s \in Sessions, GiveUp(s) \/ (Execute /\ loaded = s)
      PROVE  FlushIsSound' /\ CountsAreSound'
  <2>1. /\ attempts' = Counted(attempts, s) /\ executed' \in {executed, Counted(executed, s)}
        /\ pc' = "flush" /\ loaded' = None /\ work' = work \ {s}
        /\ UNCHANGED <<stopped, failures>>
    BY <1>2 DEF GiveUp, Execute
  <2>2. CountsAreSound'
    BY <2>1, CountedIsTyped DEF CountsAreSound
  <2> QED BY <2>1, <2>2 DEF FlushIsSound, LoadedIsExecuted
<1>3. CASE Execute
  BY <1>2, <1>3 DEF Execute, FlushIsSound, LoadedIsExecuted
<1>4. CASE RecommitFails \/ Crash
  <2>1. /\ pc' = "down" /\ work' = {} /\ loaded' = None /\ failures' = failures + 1
        /\ failures < MaxFailures /\ UNCHANGED <<stopped, attempts, executed>>
    BY <1>4 DEF RecommitFails, Crash, Fall, flushed
  <2>2. CountsAreSound'
    BY <2>1 DEF CountsAreSound
  <2> QED BY <2>1, <2>2 DEF FlushIsSound, LoadedIsExecuted
<1>5. ASSUME \/ \E s \in Sessions \cup {None} : Publish(s)
             \/ Start \/ FlushDone \/ CommitOffset \/ CommitFails \/ Drain \/ Stop
      PROVE  FlushIsSound' /\ CountsAreSound'
  <2>1. UNCHANGED <<attempts, executed, failures, loaded>> /\ stopped' \in {stopped, TRUE, FALSE}
    BY <1>5 DEF Publish, Start, FlushDone, CommitOffset, CommitFails, Drain, Stop, flushed
  <2>2. CountsAreSound'
    BY <2>1 DEF CountsAreSound
  <2>3. \/ pc' = pc
        \/ pc # "execute" /\ pc' \in {"down", "idle", "flush", "commit", "recommit"}
    BY <1>5 DEF Publish, Start, FlushDone, CommitOffset, CommitFails, Drain, Stop
  <2>4. \/ work' = work
        \/ pc = "idle" /\ work' = Buffered(buffer)
    BY <1>5 DEF Publish, Start, FlushDone, CommitOffset, CommitFails, Drain, Stop
  <2> QED BY <2>1, <2>2, <2>3, <2>4, BufferedAreSessions DEF FlushIsSound, LoadedIsExecuted
<1>6. ASSUME NEW s \in Sessions, Load(s) PROVE FlushIsSound' /\ CountsAreSound'
  BY <1>6, ConsumerAssumption DEF Load, FlushIsSound, LoadedIsExecuted, CountsAreSound, flushed
<1> QED BY <1>1, <1>2, <1>3, <1>4, <1>5, <1>6 DEF ConsumerNext, RunStep

LEMMA SoundNext == Sound /\ [Next]_vars => Sound'
<1> SUFFICES ASSUME Sound, [Next]_vars PROVE Sound'
  OBVIOUS
<1>0. /\ SessionTypeOK /\ OffsetsAreSound /\ FlushIsSound /\ CountsAreSound
      /\ BufferIsSound
  BY SoundParts
<1>1. CASE ConsumerNext
  <2>1. SessionTypeOK'
    BY <1>0, <1>1, ConsumerFrame DEF SessionTypeOK
  <2> QED BY <1>0, <1>1, <2>1, SoundOffsets, SoundFlush, SoundParts, PTL
<1>2. ASSUME UNCHANGED <<log, committed, position, buffer, pc, work, loaded, stopped,
                        attempts, executed, skipped, failures>>,
             SessionTypeOK'
      PROVE  Sound'
  BY <1>0, <1>2 DEF Sound, TypeOK, BufferIsSound, LoadedIsExecuted
<1>3. CASE SessionStep
  BY <1>0, <1>2, <1>3, SessionStepFrame, SessionTypes
<1>4. CASE UNCHANGED vars
  <2>1. SessionTypeOK'
    BY <1>0, <1>4 DEF vars, sessionVars, rows, SessionTypeOK
  <2> QED BY <1>2, <1>4, <2>1 DEF vars, flushed
<1> QED BY <1>1, <1>3, <1>4 DEF Next

\* run(), stop() and the requests keep offsets, buffers, flushes and rows where
\* the code expects them.
THEOREM TypeCorrect == Spec => []TypeOK
<1>1. Sound => TypeOK
  BY DEF Sound
<1> QED BY <1>1, SoundInit, SoundNext, PTL DEF Spec
-----------------------------------------------------------------------------
\* Requests and the rows they saw.
LEMMA RequestsInit == Init => RequestsKnowTheirRow
BY DEF Init, SessionInit, RequestsKnowTheirRow

LEMMA RequestsNext == Sound /\ RequestsKnowTheirRow /\ [Next]_vars => RequestsKnowTheirRow'
<1> SUFFICES ASSUME Sound, RequestsKnowTheirRow, [Next]_vars PROVE RequestsKnowTheirRow'
  OBVIOUS
<1>1. CASE SessionStep
  BY <1>1, SoundParts, SessionStepFrame, NextRequests
<1>2. CASE ConsumerNext \/ UNCHANGED vars
  BY <1>2, ConsumerFrame DEF vars, sessionVars, rows, RequestsKnowTheirRow, KnowsItsRow
<1> QED BY <1>1, <1>2 DEF Next

\* A step of the whole moves no row, or one.
LEMMA StepMoves ==
  ASSUME Sound, RequestsKnowTheirRow, [Next]_vars
  PROVE  \/ UNCHANGED rows
         \/ \E s \in Sessions, from, to \in SessionStatuses :
               /\ History!Move(s, from, to)
               /\ to = "INITIALIZING" => status[s] = "absent"
               /\ to # "absent"
<1>1. CASE SessionStep
  BY <1>1, SoundParts, SessionStepFrame, RowMoves
<1>2. CASE ConsumerNext \/ UNCHANGED vars
  BY <1>2, ConsumerFrame DEF vars, sessionVars, rows
<1> QED BY <1>1, <1>2 DEF Next

\* create_session, start_session, pause_session, resume_session, stop_session,
\* run_simulation and their rollbacks, by any number of clients on one session:
\* a row takes a status only when a method leads to it from one it has had.
THEOREM SessionsFollowTheirPast == Spec => FollowsItsPast
<1>1. Init => History!Init
  BY DEF Init, SessionInit, SessionStatuses, History!Init
<1>2. Sound /\ RequestsKnowTheirRow /\ [Next]_vars => [History!Next]_rows
  BY StepMoves DEF History!Next, rows
<1>3. Sound /\ RequestsKnowTheirRow /\ [Next]_vars => RequestsKnowTheirRow'
  BY RequestsNext
<1> QED BY <1>1, <1>2, <1>3, SoundInit, SoundNext, RequestsInit, PTL
        DEF Spec, FollowsItsPast, History!Spec, rows

-----------------------------------------------------------------------------
LEMMA StartedInit == Init => TradesAreStarted
BY DEF Init, TradesAreStarted

\* A started session stays started.
LEMMA StartedStays ==
  ASSUME Sound, RequestsKnowTheirRow, [Next]_vars, NEW s \in Sessions, Started(s)
  PROVE  Started(s)'
<1>1. CASE UNCHANGED rows
  BY <1>1 DEF rows, Started
<1>2. ASSUME NEW t \in Sessions, NEW from \in SessionStatuses, NEW to \in SessionStatuses,
             History!Move(t, from, to), to = "INITIALIZING" => status[t] = "absent",
             to # "absent"
      PROVE  Started(s)'
  <2>1. status \in [Sessions -> SessionStatuses] /\ status' = [status EXCEPT ![t] = to]
    BY <1>2, SoundParts DEF SessionTypeOK, History!Move
  <2>2. CASE s # t
    BY <2>1, <2>2 DEF Started
  <2>3. CASE s = t
    BY <1>2, <2>1, <2>3 DEF Started
  <2> QED BY <2>2, <2>3
<1> QED BY <1>1, <1>2, StepMoves

LEMMA StartedNext ==
  ASSUME Sound, RequestsKnowTheirRow, TradesAreStarted, [Next]_vars
  PROVE  TradesAreStarted'
<1>0. OffsetsAreSound /\ FlushIsSound /\ CountsAreSound /\ BufferIsSound
  BY SoundParts
<1>1. ASSUME NEW i \in Offsets, i <= Len(log), log[i] \in Sessions, Started(log[i])
      PROVE  i <= Len(log)' /\ log'[i] \in Sessions /\ Started(log[i])'
  <2>1. i \in 1..Len(log) /\ Len(log) \in Nat
    BY <1>0, <1>1, ConsumerAssumption DEF Offsets, OffsetsAreSound
  <2>2. \/ log' = log
        \/ \E s \in Sessions \cup {None} : log' = Append(log, s)
    BY DEF Next, SessionStep, ConsumerNext, RunStep, Publish, Start, Take, Load, GiveUp, Execute,
       FlushDone, CommitOffset, CommitFails, RecommitFails, Crash, Fall, Stop, Drain, vars
  <2>3. i <= Len(log)' /\ log'[i] = log[i]
    BY <1>0, <2>1, <2>2 DEF OffsetsAreSound
  <2>4. \A s \in Sessions : Started(s) => Started(s)'
    BY StartedStays
  <2> QED BY <1>1, <2>3, <2>4 DEF Started
<1>2. loaded' # None => Started(loaded)'
  <2>1. \/ loaded' \in {None, loaded}
        \/ \E s \in Sessions : Load(s)
    BY DEF Next, SessionStep, ConsumerNext, RunStep, Publish, Start, Take, GiveUp, Execute,
       FlushDone, CommitOffset, CommitFails, RecommitFails, Crash, Fall, Stop, Drain, vars
  <2>2. ASSUME NEW s \in Sessions, Load(s) PROVE Started(loaded)'
    BY <2>2 DEF Load, sessionVars, rows, Started
  <2>3. loaded # None => loaded \in Sessions
    BY <1>0 DEF FlushIsSound
  <2>4. ASSUME loaded' = loaded, loaded # None PROVE Started(loaded)'
    <3>1. Started(loaded) /\ loaded \in Sessions
      BY <2>3, <2>4 DEF TradesAreStarted
    <3>2. \A s \in Sessions : Started(s) => Started(s)'
      BY StartedStays
    <3> QED BY <2>4, <3>1, <3>2 DEF Started
  <2> QED BY <2>1, <2>2, <2>4
<1>3. ASSUME NEW i \in Offsets, executed'[i] > 0
      PROVE  i <= Len(log)' /\ log'[i] \in Sessions /\ Started(log[i])'
  <2>1. executed' = executed \/ Execute
    BY DEF Next, SessionStep, ConsumerNext, RunStep, Publish, Start, Take, Load, GiveUp,
       FlushDone, CommitOffset, CommitFails, RecommitFails, Crash, Fall, Stop, Drain, vars,
       flushed
  <2>2. CASE executed[i] > 0
    BY <1>1, <2>2 DEF TradesAreStarted
  <2>3. CASE Execute /\ ~(executed[i] > 0)
    <3>1. executed'[i] = IF i \in Batch(loaded) THEN executed[i] + 1 ELSE executed[i]
      BY <1>0, <2>3, CountedIsTyped DEF Execute, CountsAreSound
    <3>2. i \in buffer /\ log[i] = loaded
      BY <1>3, <2>3, <3>1 DEF Batch
    <3>3. i <= Len(log) /\ log[i] \in Sessions
      BY <1>0, <3>2, ConsumerAssumption DEF OffsetsAreSound, BufferIsSound, Offsets
    <3>4. Started(log[i])
      BY <1>0, <2>3, <3>2 DEF Execute, FlushIsSound, LoadedIsExecuted, TradesAreStarted
    <3> QED BY <1>1, <3>3, <3>4
  <2> QED BY <1>3, <2>1, <2>2, <2>3
<1> QED BY <1>2, <1>3 DEF TradesAreStarted

\* Whatever requests overlap and run between _flush_buffer's read of a session and its
\* rebalance, no signal trades for a session that was never started.
THEOREM OnlyStartedTrade == Spec => []OnlyStartedSessionsTrade
<1>1. TradesAreStarted => OnlyStartedSessionsTrade
  BY DEF TradesAreStarted, OnlyStartedSessionsTrade, Started
<1>2. Sound /\ RequestsKnowTheirRow /\ [Next]_vars => RequestsKnowTheirRow'
  BY RequestsNext
<1>3. Sound /\ RequestsKnowTheirRow /\ TradesAreStarted /\ [Next]_vars => TradesAreStarted'
  BY StartedNext
<1> QED BY <1>1, <1>2, <1>3, SoundInit, SoundNext, RequestsInit, StartedInit, PTL DEF Spec

-----------------------------------------------------------------------------
\* Attempts: what a flush has attempted it attempts again only after a fall.
LEMMA AttemptsInit == Init => AttemptsAreBounded
BY ConsumerAssumption DEF Init, AttemptsAreBounded, IdleIsCommitted

\* A step that attempts nothing and leaves nothing more to attempt.
LEMMA QuietStep ==
  ASSUME Sound, AttemptsAreBounded, UNCHANGED <<attempts, failures>>,
         \A i \in Offsets : Pending(i)' => Pending(i),
         IdleIsCommitted'
  PROVE  AttemptsAreBounded'
BY DEF AttemptsAreBounded

\* A fall counts.
LEMMA FallStep ==
  ASSUME Sound, AttemptsAreBounded, RecommitFails \/ Crash
  PROVE  AttemptsAreBounded'
<1>1. /\ attempts' = attempts /\ failures' = failures + 1 /\ pc' = "down"
  BY DEF RecommitFails, Crash, Fall, flushed
<1>2. failures \in Nat /\ attempts \in [Offsets -> Nat]
  BY SoundParts, ConsumerAssumption DEF CountsAreSound
<1> QED BY <1>1, <1>2 DEF AttemptsAreBounded, IdleIsCommitted

\* A flush deals with a session once.
LEMMA FlushStep ==
  ASSUME Sound, AttemptsAreBounded,
         NEW s \in Sessions, GiveUp(s) \/ (Execute /\ loaded = s)
  PROVE  AttemptsAreBounded'
<1>0. /\ failures \in Nat /\ attempts \in [Offsets -> Nat]
  BY SoundParts, ConsumerAssumption DEF CountsAreSound
<1>1. /\ attempts' = Counted(attempts, s)
      /\ pc \in {"flush", "execute"} /\ pc' = "flush" /\ s \in work /\ work' = work \ {s}
      /\ UNCHANGED <<failures, log, buffer, position, committed>>
  BY SoundParts DEF GiveUp, Execute, FlushIsSound, LoadedIsExecuted
<1>2. ASSUME NEW i \in Offsets
      PROVE  /\ attempts'[i] <= failures' + 1
             /\ Pending(i)' => attempts'[i] <= failures'
  <2>1. attempts'[i] = IF i \in Batch(s) THEN attempts[i] + 1 ELSE attempts[i]
    BY <1>0, <1>1, CountedIsTyped
  <2>2. CASE i \in Batch(s)
    <3>1. i \in buffer /\ log[i] = s /\ ~(i > position)
      BY <2>2, SoundParts, ConsumerAssumption DEF Batch, OffsetsAreSound
    <3>2. Pending(i) /\ ~Pending(i)'
      BY <1>1, <3>1 DEF Pending
    <3>3. attempts[i] <= failures
      BY <3>2 DEF AttemptsAreBounded
    <3> QED BY <1>0, <1>1, <2>1, <2>2, <3>2, <3>3
  <2>3. CASE i \notin Batch(s)
    <3>1. Pending(i)' => Pending(i)
      BY <1>1 DEF Pending
    <3> QED BY <1>1, <2>1, <2>3, <3>1 DEF AttemptsAreBounded
  <2> QED BY <2>2, <2>3
<1> QED BY <1>1, <1>2 DEF AttemptsAreBounded, IdleIsCommitted

LEMMA AttemptsNext == Sound /\ AttemptsAreBounded /\ [Next]_vars => AttemptsAreBounded'
<1> SUFFICES ASSUME Sound, AttemptsAreBounded, [Next]_vars PROVE AttemptsAreBounded'
  OBVIOUS
<1>0. OffsetsAreSound /\ FlushIsSound /\ CountsAreSound /\ BufferIsSound /\ IdleIsCommitted
  BY SoundParts DEF AttemptsAreBounded
<1>1. Len(log) \in Nat /\ committed \in Int /\ position \in Nat /\ Offsets \subseteq Int
  BY <1>0, ConsumerAssumption DEF OffsetsAreSound, Offsets
<1>2. ASSUME NEW s \in Sessions \cup {None}, Publish(s) PROVE AttemptsAreBounded'
  <2>0. \A i \in buffer : i \in 1..Len(log)
    BY <1>0, <1>1 DEF OffsetsAreSound
  <2>1. \A i \in buffer : log'[i] = log[i]
    BY <1>0, <1>2, <2>0 DEF Publish, OffsetsAreSound
  <2>2. UNCHANGED <<attempts, failures, pc, position, committed, buffer, work>>
    BY <1>2 DEF Publish, flushed
  <2>3. \A i \in Offsets : Pending(i)' => Pending(i)
    BY <2>1, <2>2 DEF Pending
  <2> QED BY <1>0, <2>2, <2>3, QuietStep DEF IdleIsCommitted
<1>3. CASE Start
  <2>1. /\ UNCHANGED <<attempts, failures, committed, buffer>> /\ buffer = {}
        /\ pc = "down" /\ pc' = "idle"
        /\ position' = IF committed = -1 THEN Len(log) ELSE committed
    BY <1>0, <1>3 DEF Start, flushed, BufferIsSound
  <2>2. \A i \in Offsets : Pending(i)' => Pending(i)
    BY <1>0, <1>1, <2>1 DEF Pending, OffsetsAreSound
  <2>3. IdleIsCommitted'
    BY <2>1 DEF IdleIsCommitted
  <2> QED BY <2>1, <2>2, <2>3, QuietStep
<1>4. CASE Take
  <2>1. /\ UNCHANGED <<attempts, failures, log>> /\ position' = position + 1
        /\ pc = "idle" /\ pc' \in {"commit", "flush"}
        /\ buffer' \in {buffer, buffer \cup {position + 1}}
    BY <1>4 DEF Take, flushed
  <2>2. \A i \in Offsets : Pending(i)' => Pending(i)
    BY <1>1, <2>1 DEF Pending
  <2> QED BY <2>1, <2>2, QuietStep DEF IdleIsCommitted
<1>5. ASSUME NEW s \in Sessions, Load(s) PROVE AttemptsAreBounded'
  <2>1. /\ UNCHANGED <<attempts, failures, log, position, committed, buffer, work>>
        /\ pc = "flush" /\ pc' = "execute"
    BY <1>5 DEF Load, flushed
  <2>2. \A i \in Offsets : Pending(i)' => Pending(i)
    BY <2>1 DEF Pending
  <2> QED BY <2>1, <2>2, QuietStep DEF IdleIsCommitted
<1>6. CASE FlushDone
  <2>1. /\ UNCHANGED <<attempts, failures, log, position, committed>>
        /\ buffer' = {} /\ pc = "flush"
        /\ pc' = "commit" \/ (pc' = "down" /\ committed = position)
    BY <1>6 DEF FlushDone, flushed
  <2>2. \A i \in Offsets : Pending(i)' => Pending(i)
    BY <2>1 DEF Pending
  <2> QED BY <2>1, <2>2, QuietStep DEF IdleIsCommitted
<1>7. CASE CommitOffset \/ CommitFails \/ Stop
  <2>1. /\ UNCHANGED <<attempts, failures, log, position, buffer, work>>
        /\ \/ pc' = pc /\ committed' = committed
           \/ /\ pc \in {"commit", "recommit"}
              /\ pc' = "recommit" \/ (pc' = "idle" /\ committed' = position)
    BY <1>7 DEF CommitOffset, CommitFails, Stop, flushed
  <2>2. \A i \in Offsets : Pending(i)' => Pending(i)
    BY <2>1 DEF Pending
  <2>3. IdleIsCommitted'
    BY <1>0, <2>1 DEF IdleIsCommitted
  <2> QED BY <2>1, <2>2, <2>3, QuietStep
<1>8. CASE Drain
  <2>1. /\ UNCHANGED <<attempts, failures, log, position, committed, buffer>>
        /\ pc = "idle"
        /\ (pc' = "down" /\ buffer = {}) \/ pc' = "flush"
    BY <1>8 DEF Drain, flushed
  <2>2. pc' = "down" => committed = -1 \/ committed = position
    BY <1>0, <2>1 DEF IdleIsCommitted
  <2>3. \A i \in Offsets : Pending(i)' => Pending(i)
    BY <2>1, <2>2 DEF Pending
  <2> QED BY <2>1, <2>3, QuietStep DEF IdleIsCommitted
<1>9. CASE SessionStep \/ UNCHANGED vars
  <2>1. UNCHANGED <<attempts, failures, log, position, committed, buffer, work, pc>>
    BY <1>9, SessionStepFrame DEF vars, flushed
  <2>2. \A i \in Offsets : Pending(i)' => Pending(i)
    BY <2>1 DEF Pending
  <2> QED BY <1>0, <2>1, <2>2, QuietStep DEF IdleIsCommitted
<1>10. ASSUME NEW s \in Sessions, GiveUp(s) PROVE AttemptsAreBounded'
  BY <1>10, FlushStep
<1>11. CASE Execute
  BY <1>0, <1>11, FlushStep DEF Execute, FlushIsSound, LoadedIsExecuted
<1>12. CASE Crash \/ RecommitFails
  BY <1>12, FallStep
<1> QED BY <1>2, <1>3, <1>4, <1>5, <1>6, <1>7, <1>8, <1>9, <1>10, <1>11, <1>12
        DEF Next, ConsumerNext, RunStep

\* _flush_buffer attempts a signal again only after run() was lost: one attempt,
\* and one more for each crash or commit that failed twice.
THEOREM AttemptsAreCounted == Spec => []ExecutedAgainOnlyAfterFailure
<1>1. Sound /\ AttemptsAreBounded => ExecutedAgainOnlyAfterFailure
  <2> SUFFICES ASSUME Sound, AttemptsAreBounded PROVE ExecutedAgainOnlyAfterFailure
    OBVIOUS
  <2>1. failures \in Nat /\ attempts \in [Offsets -> Nat]
    BY SoundParts, ConsumerAssumption DEF CountsAreSound
  <2> QED BY <2>1 DEF AttemptsAreBounded, ExecutedAgainOnlyAfterFailure
<1> QED BY <1>1, SoundInit, SoundNext, AttemptsInit, AttemptsNext, PTL DEF Spec
-----------------------------------------------------------------------------
(***************************************************************************)
(* What is lost                                                            *)
(***************************************************************************)
\* A set whose classes have at most n elements each has at most n elements per
\* class.
LEMMA ClassBound ==
  ASSUME NEW E, NEW S, IsFiniteSet(S), NEW n \in Nat, NEW class \in [E -> S],
         \A s \in S : IsFiniteSet({i \in E : class[i] = s})
                      /\ Cardinality({i \in E : class[i] = s}) <= n
  PROVE  IsFiniteSet(E) /\ Cardinality(E) <= Cardinality(S) * n
<1> DEFINE Class(s) == {i \in E : class[i] = s}
           T == S \X (1..n)
<1>1. \A s \in S : \E g \in [Class(s) -> 1..n] : \A i, j \in Class(s) : g[i] = g[j] => i = j
  <2> SUFFICES ASSUME NEW s \in S
               PROVE  \E g \in [Class(s) -> 1..n] :
                         \A i, j \in Class(s) : g[i] = g[j] => i = j
    OBVIOUS
  <2> DEFINE c == Cardinality(Class(s))
  <2>1. IsFiniteSet(Class(s)) /\ c <= n
    OBVIOUS
  <2> HIDE DEF Class
  <2>2. c \in Nat /\ ExistsBijection(1..c, Class(s))
    BY <2>1, FS_CardinalityType
  <2>3. ExistsBijection(Class(s), 1..c)
    BY <2>2, Fun_ExistsBijSymmetric
  <2> HIDE DEF c
  <2>4. PICK g \in [Class(s) -> 1..c] : \A i, j \in Class(s) : g[i] = g[j] => i = j
    BY <2>3 DEF ExistsBijection, Bijection, Injection, IsInjective
  <2>5. g \in [Class(s) -> 1..n]
    BY <2>1, <2>2, <2>4
  <2> QED BY <2>4, <2>5
<1> DEFINE Rank(s) == CHOOSE g \in [Class(s) -> 1..n] :
                        \A i, j \in Class(s) : g[i] = g[j] => i = j
<1>2. \A s \in S : /\ Rank(s) \in [Class(s) -> 1..n]
                   /\ \A i, j \in Class(s) : Rank(s)[i] = Rank(s)[j] => i = j
  BY <1>1
<1> DEFINE h == [i \in E |-> <<class[i], Rank(class[i])[i]>>]
<1>3. \A i \in E : class[i] \in S /\ i \in Class(class[i])
  OBVIOUS
<1> HIDE DEF Rank, Class
<1>4. h \in [E -> T]
  BY <1>2, <1>3
<1>5. ASSUME NEW i \in E, NEW j \in E, h[i] = h[j] PROVE i = j
  <2>1. class[i] = class[j] /\ Rank(class[i])[i] = Rank(class[i])[j]
    BY <1>5
  <2> QED BY <1>2, <1>3, <2>1
<1> HIDE DEF h
<1>6. h \in Injection(E, T)
  BY <1>4, <1>5 DEF Injection, IsInjective
<1>7. IsFiniteSet(1..n) /\ Cardinality(1..n) = n
  BY FS_Interval
<1>8. IsFiniteSet(T) /\ Cardinality(T) = Cardinality(S) * n
  BY <1>7, FS_Product
<1> HIDE DEF T
<1> QED BY <1>6, <1>8, FS_Injection

\* What is buffered is finite, and so is every batch.
LEMMA BatchesAreFinite ==
  ASSUME OffsetsAreSound, NEW s
  PROVE  /\ IsFiniteSet(buffer) /\ IsFiniteSet(Batch(s)) /\ IsFiniteSet(Exposed(s))
         /\ Cardinality(Batch(s)) \in Nat
         /\ Cardinality(Exposed(s)) <= Cardinality(Batch(s))
<1>1. IsFiniteSet(buffer)
  <2>1. position \in Int /\ buffer \in SUBSET (1..position)
    BY DEF OffsetsAreSound
  <2>2. IsFiniteSet(1..position)
    BY <2>1, FS_Interval
  <2> QED BY <2>1, <2>2, FS_Subset
<1>2. IsFiniteSet(Batch(s))
  BY <1>1, FS_Subset DEF Batch
<1> QED BY <1>1, <1>2, FS_Subset, FS_CardinalityType DEF Exposed

\* One fall loses at most a partial batch for each session.
LEMMA ExposureBound ==
  ASSUME OffsetsAreSound, BufferIsSound, BatchesArePartial
  PROVE  /\ IsFiniteSet({i \in buffer : i <= committed})
         /\ Cardinality({i \in buffer : i <= committed})
               <= Cardinality(Sessions) * (BatchSize - 1)
<1> DEFINE E == {i \in buffer : i <= committed}
           class == [i \in E |-> log[i]]
<1>1. class \in [E -> Sessions]
  BY DEF BufferIsSound
<1>2. ASSUME NEW s \in Sessions
      PROVE  /\ IsFiniteSet({i \in E : class[i] = s})
             /\ Cardinality({i \in E : class[i] = s}) <= BatchSize - 1
  <2>1. {i \in E : class[i] = s} = Exposed(s)
    BY DEF Exposed, Batch
  <2>2. IsFiniteSet(Exposed(s)) /\ Cardinality(Exposed(s)) \in Nat
    BY BatchesAreFinite, FS_CardinalityType
  <2>3. Cardinality(Exposed(s)) < BatchSize
    BY DEF BatchesArePartial
  <2> HIDE DEF E, class
  <2>4. Cardinality(Exposed(s)) <= BatchSize - 1
    BY <2>2, <2>3, ConsumerAssumption
  <2> QED BY <2>1, <2>2, <2>4
<1>3. BatchSize - 1 \in Nat /\ IsFiniteSet(Sessions)
  BY ConsumerAssumption
<1> HIDE DEF E, class
<1>4. IsFiniteSet(E) /\ Cardinality(E) <= Cardinality(Sessions) * (BatchSize - 1)
  BY <1>1, <1>2, <1>3, ClassBound
<1> QED BY <1>4 DEF E

LEMMA LossInit == Init => NothingSlips /\ BatchesArePartial /\ Lost = {}
<1> SUFFICES ASSUME Init PROVE NothingSlips /\ BatchesArePartial /\ Lost = {}
  OBVIOUS
<1>1. pc = "down" /\ buffer = {} /\ committed = -1
  BY DEF Init
<1>2. \A s : Batch(s) = {} /\ Exposed(s) = {}
  BY <1>1 DEF Batch, Exposed
<1> QED BY <1>1, <1>2, FS_EmptySet, ConsumerAssumption DEF NothingSlips, BatchesArePartial, Lost

\* The steps of run() that only look, and those of the sessions.
LEMMA LookingLosesNothing ==
  ASSUME Sound, NothingSlips, BatchesArePartial,
         UNCHANGED <<log, committed, position, buffer, work, attempts, skipped>>,
         \/ pc' = pc
         \/ pc = "flush" /\ pc' = "execute"
         \/ pc = "commit" /\ pc' = "recommit"
  PROVE  NothingSlips' /\ BatchesArePartial' /\ Lost' = Lost
<1>1. \A s : Batch(s)' = Batch(s) /\ Exposed(s)' = Exposed(s)
  BY DEF Batch, Exposed
<1>2. BatchesArePartial'
  BY <1>1 DEF BatchesArePartial
<1> QED BY <1>2 DEF NothingSlips, Accounted, Lost

LEMMA PublishLosesNothing ==
  ASSUME Sound, NothingSlips, BatchesArePartial, NEW s \in Sessions \cup {None}, Publish(s)
  PROVE  NothingSlips' /\ BatchesArePartial' /\ Lost' = Lost
<1>0. OffsetsAreSound /\ Len(log) \in Nat
  BY SoundParts DEF OffsetsAreSound
<1>1. UNCHANGED <<committed, position, buffer, pc, work, attempts, skipped>>
  BY DEF Publish, flushed
<1>2. \A i \in 1..Len(log) : log'[i] = log[i]
  BY <1>0 DEF Publish, OffsetsAreSound
<1>3. /\ \A i \in 1..position : log'[i] = log[i]
      /\ \A i \in 1..committed : log'[i] = log[i]
      /\ \A i \in buffer : log'[i] = log[i]
  BY <1>0, <1>2 DEF OffsetsAreSound
<1>4. \A t : Batch(t)' = Batch(t) /\ Exposed(t)' = Exposed(t)
  BY <1>1, <1>3 DEF Batch, Exposed
<1>5. BatchesArePartial'
  BY <1>1, <1>4 DEF BatchesArePartial
<1>6. NothingSlips'
  BY <1>1, <1>3 DEF NothingSlips, Accounted
<1>7. Lost' = Lost
  BY <1>1, <1>3 DEF Lost
<1> QED BY <1>5, <1>6, <1>7

LEMMA StartLosesNothing ==
  ASSUME Sound, NothingSlips, BatchesArePartial, Start
  PROVE  NothingSlips' /\ BatchesArePartial' /\ Lost' \subseteq Lost
<1>0. OffsetsAreSound /\ BufferIsSound /\ Len(log) \in Nat
  BY SoundParts DEF OffsetsAreSound
<1>1. /\ buffer = {} /\ pc' = "idle"
      /\ UNCHANGED <<log, committed, buffer, work, attempts>>
  BY <1>0 DEF Start, BufferIsSound, flushed
<1>2. \/ committed = -1 /\ position' = Len(log) /\ skipped' = 1..Len(log)
      \/ position' = committed /\ skipped' = skipped
  BY DEF Start
<1>3. \A s : Batch(s)' = {} /\ Exposed(s)' = {}
  BY <1>1 DEF Batch, Exposed
<1>4. BatchesArePartial'
  BY <1>3, FS_EmptySet, ConsumerAssumption DEF BatchesArePartial
<1>5. NothingSlips'
  BY <1>0, <1>1, <1>2 DEF NothingSlips, Accounted, OffsetsAreSound
<1>6. Lost' \subseteq Lost
  BY <1>0, <1>1, <1>2 DEF Lost, OffsetsAreSound
<1> QED BY <1>4, <1>5, <1>6

\* A taken record is not committed, so that it cannot be lost, and the batches
\* stay partial where nothing is flushed.
LEMMA TakeLosesNothing ==
  ASSUME Sound, NothingSlips, BatchesArePartial, Take
  PROVE  NothingSlips' /\ BatchesArePartial' /\ Lost' \subseteq Lost
<1>0. OffsetsAreSound /\ BufferIsSound /\ Len(log) \in Nat /\ position \in Nat /\ committed \in Int
  BY SoundParts DEF OffsetsAreSound
<1> DEFINE i == position + 1
           B == buffer \cup {i}
<1>1. /\ pc = "idle" /\ position' = i /\ i \in 1..Len(log)
      /\ UNCHANGED <<log, committed, attempts, skipped>>
  BY <1>0 DEF Take, flushed
<1>2. committed <= position /\ (committed = -1 => buffer = {})
  BY <1>0, <1>1 DEF NothingSlips
<1>3. \/ log[i] = None /\ buffer' = buffer /\ pc' = "commit"
      \/ log[i] # None /\ buffer' = B /\ pc' = "flush" /\ work' = Buffered(B)
      \/ log[i] # None /\ buffer' = B /\ pc' = "commit" /\ ~IsFull(B)
  BY DEF Take
<1>4. i \notin buffer
  BY <1>0 DEF OffsetsAreSound
<1>5. \A s : Exposed(s)' = Exposed(s)
  BY <1>0, <1>1, <1>2, <1>3 DEF Exposed, Batch
<1>6. ASSUME pc' \in {"idle", "commit", "recommit"}, NEW s \in Sessions
      PROVE  Cardinality(Batch(s)') < BatchSize
  <2>1. CASE buffer' = buffer
    <3>1. Batch(s)' = Batch(s)
      BY <1>1, <2>1 DEF Batch
    <3> QED BY <1>1, <3>1 DEF BatchesArePartial
  <2>2. CASE buffer' = B /\ ~IsFull(B)
    <3>1. Batch(s)' = {j \in B : log[j] = s}
      BY <1>1, <2>2 DEF Batch
    <3>2. IsFiniteSet(B)
      BY <1>0, BatchesAreFinite, FS_AddElement
    <3> HIDE DEF B
    <3>3. Cardinality({j \in B : log[j] = s}) \in Nat
      BY <3>2, FS_Subset, FS_CardinalityType
    <3>4. ~(Cardinality({j \in B : log[j] = s}) >= BatchSize)
      BY <2>2 DEF IsFull
    <3> QED BY <3>1, <3>3, <3>4, ConsumerAssumption
  <2> QED BY <1>3, <1>6, <2>1, <2>2
<1>7. BatchesArePartial'
  BY <1>5, <1>6 DEF BatchesArePartial
<1>8. NothingSlips'
  <2>1. \A j \in 1..position' : j > committed' => Accounted(j)'
    <3> SUFFICES ASSUME NEW j \in 1..position', j > committed' PROVE Accounted(j)'
      OBVIOUS
    <3>1. CASE j = i
      BY <1>1, <1>3, <3>1 DEF Accounted
    <3>2. CASE j # i
      <4>1. j \in 1..position /\ j > committed
        BY <1>0, <1>1, <3>2
      <4>2. Accounted(j)
        BY <1>1, <4>1 DEF NothingSlips
      <4> QED BY <1>1, <1>3, <4>2 DEF Accounted
    <3> QED BY <3>1, <3>2
  <2>2. pc' \in {"flush", "execute"} => \A j \in buffer' : log'[j] \in work'
    BY <1>1, <1>3 DEF Buffered
  <2>3. pc' # "idle"
    BY <1>3
  <2> QED BY <2>1, <2>2, <2>3 DEF NothingSlips
<1>9. Lost' \subseteq Lost
  <2>1. committed' = committed /\ buffer \subseteq buffer'
    BY <1>1, <1>3
  <2> QED BY <1>1, <2>1 DEF Lost
<1> QED BY <1>7, <1>8, <1>9

\* The signals of a session that is done with were in the flush, traded or not.
LEMMA FlushStepLosesNothing ==
  ASSUME Sound, NothingSlips, BatchesArePartial,
         NEW s \in Sessions, GiveUp(s) \/ (Execute /\ loaded = s)
  PROVE  NothingSlips' /\ BatchesArePartial' /\ Lost' \subseteq Lost
<1>0. OffsetsAreSound /\ CountsAreSound
  BY SoundParts
<1>1. /\ attempts' = Counted(attempts, s)
      /\ pc \in {"flush", "execute"} /\ pc' = "flush" /\ work' = work \ {s}
      /\ UNCHANGED <<log, buffer, position, committed, skipped>>
  BY DEF GiveUp, Execute
<1>2. 1..position \subseteq Offsets /\ buffer \subseteq Offsets /\ 1..committed \subseteq Offsets
  BY <1>0, ConsumerAssumption DEF OffsetsAreSound, Offsets
<1>3. \A i \in Offsets : /\ attempts[i] \in Nat
                         /\ attempts'[i] = IF i \in Batch(s) THEN attempts[i] + 1 ELSE attempts[i]
  BY <1>0, <1>1, CountedIsTyped DEF CountsAreSound
<1>4. \A i \in Offsets : attempts[i] > 0 => attempts'[i] > 0
  BY <1>3
<1>5. \A i \in buffer : log[i] = s => attempts'[i] > 0
  BY <1>2, <1>3 DEF Batch
<1>6. \A t : Batch(t)' = Batch(t) /\ Exposed(t)' = Exposed(t)
  BY <1>1 DEF Batch, Exposed
<1>7. BatchesArePartial'
  BY <1>1, <1>6 DEF BatchesArePartial
<1>8. NothingSlips'
  <2>1. \A i \in 1..position' : i > committed' => Accounted(i)'
    BY <1>1, <1>2, <1>4 DEF NothingSlips, Accounted
  <2>2. \A i \in buffer' : log'[i] \in work' \/ attempts'[i] > 0
    BY <1>1, <1>2, <1>4, <1>5 DEF NothingSlips
  <2> QED BY <1>1, <2>1, <2>2 DEF NothingSlips
<1>9. Lost' \subseteq Lost
  BY <1>1, <1>2, <1>3, <1>4 DEF Lost
<1> QED BY <1>7, <1>8, <1>9

\* A flush that is done has left nothing of the buffer out.
LEMMA FlushDoneLosesNothing ==
  ASSUME Sound, NothingSlips, BatchesArePartial, FlushDone
  PROVE  NothingSlips' /\ BatchesArePartial' /\ Lost' \subseteq Lost
<1>1. /\ pc = "flush" /\ work = {} /\ buffer' = {} /\ pc' \in {"down", "commit"}
      /\ UNCHANGED <<log, committed, position, attempts, skipped>>
  BY DEF FlushDone, flushed
<1>2. \A i \in buffer : attempts[i] > 0
  BY <1>1 DEF NothingSlips
<1>3. \A s : Batch(s)' = {} /\ Exposed(s)' = {}
  BY <1>1 DEF Batch, Exposed
<1>4. BatchesArePartial'
  BY <1>3, FS_EmptySet, ConsumerAssumption DEF BatchesArePartial
<1>5. NothingSlips'
  BY <1>1, <1>2 DEF NothingSlips, Accounted
<1>6. Lost' \subseteq Lost
  BY <1>1, <1>2 DEF Lost
<1> QED BY <1>4, <1>5, <1>6

\* What is committed is accounted for, in partial batches if it is buffered.
LEMMA CommitLosesNothing ==
  ASSUME Sound, NothingSlips, BatchesArePartial, CommitOffset
  PROVE  NothingSlips' /\ BatchesArePartial' /\ Lost' \subseteq Lost
<1>0. OffsetsAreSound
  BY SoundParts
<1>1. /\ pc \in {"commit", "recommit"} /\ pc' = "idle" /\ committed' = position
      /\ UNCHANGED <<log, position, buffer, attempts, skipped>>
  BY DEF CommitOffset, flushed
<1>2. ASSUME NEW s \in Sessions
      PROVE  Cardinality(Batch(s)') < BatchSize /\ Cardinality(Exposed(s)') < BatchSize
  <2>1. Batch(s)' = Batch(s)
    BY <1>1 DEF Batch
  <2>2. Exposed(s)' = Batch(s)
    <3>1. \A i \in buffer : i <= position
      BY <1>0 DEF OffsetsAreSound
    <3>2. Exposed(s)' = {i \in Batch(s) : i <= position}
      BY <1>1, <2>1 DEF Exposed
    <3> QED BY <3>1, <3>2 DEF Batch
  <2> QED BY <1>1, <2>1, <2>2 DEF BatchesArePartial
<1>3. NothingSlips'
  BY <1>0, <1>1 DEF NothingSlips, OffsetsAreSound
<1>4. \A i \in 1..position : i > committed => Accounted(i)
  BY <1>1 DEF NothingSlips
<1>5. Lost' \subseteq Lost
  <2> SUFFICES ASSUME NEW i \in Lost' PROVE i \in Lost
    OBVIOUS
  <2>1. /\ i \in 1..position /\ log[i] # None /\ attempts[i] = 0
        /\ i \notin buffer \cup skipped
    BY <1>1 DEF Lost
  <2>2. ~(i > committed)
    BY <1>4, <2>1 DEF Accounted
  <2>3. i \in 1..committed
    BY <1>0, <2>1, <2>2 DEF OffsetsAreSound
  <2> QED BY <2>1, <2>3 DEF Lost
<1> QED BY <1>2, <1>3, <1>5 DEF BatchesArePartial

\* A stopped consumer flushes what it has left.
LEMMA DrainLosesNothing ==
  ASSUME Sound, NothingSlips, BatchesArePartial, Drain
  PROVE  NothingSlips' /\ BatchesArePartial' /\ Lost' = Lost
<1>1. /\ pc = "idle" /\ pc' \in {"down", "flush"} /\ work' = Buffered(buffer)
      /\ UNCHANGED <<log, committed, position, buffer, attempts, skipped>>
  BY DEF Drain, flushed
<1>2. \A s : Batch(s)' = Batch(s) /\ Exposed(s)' = Exposed(s)
  BY <1>1 DEF Batch, Exposed
<1>3. BatchesArePartial'
  BY <1>1, <1>2 DEF BatchesArePartial
<1>4. \A i \in buffer : log[i] \in work'
  BY <1>1 DEF Buffered
<1>5. NothingSlips'
  BY <1>1, <1>4 DEF NothingSlips, Accounted
<1> QED BY <1>1, <1>3, <1>5 DEF Lost

\* A fall loses no more than was exposed.
LEMMA FallLoses ==
  ASSUME Sound, NothingSlips, BatchesArePartial, Fall
  PROVE  /\ NothingSlips' /\ BatchesArePartial'
         /\ Lost' \subseteq Lost \cup {i \in buffer : i <= committed}
<1>1. /\ pc' = "down" /\ buffer' = {}
      /\ UNCHANGED <<log, committed, position, attempts, skipped>>
  BY DEF Fall, flushed
<1>2. \A s : Batch(s)' = {} /\ Exposed(s)' = {}
  BY <1>1 DEF Batch, Exposed
<1>3. BatchesArePartial'
  BY <1>2, FS_EmptySet, ConsumerAssumption DEF BatchesArePartial
<1>4. NothingSlips'
  BY <1>1 DEF NothingSlips
<1>5. committed \in Int
  BY SoundParts DEF OffsetsAreSound
<1> QED BY <1>1, <1>3, <1>4, <1>5 DEF Lost

\* No step but a fall loses anything.
LEMMA NextLoses ==
  ASSUME Sound, NothingSlips, BatchesArePartial, [Next]_vars
  PROVE  /\ NothingSlips' /\ BatchesArePartial'
         /\ \/ Lost' \subseteq Lost /\ failures' = failures
            \/ Lost' \subseteq Lost \cup {i \in buffer : i <= committed} /\ failures' = failures + 1
<1>1. CASE \E s \in Sessions \cup {None} : Publish(s)
  BY <1>1, PublishLosesNothing DEF Publish
<1>2. CASE Start
  BY <1>2, StartLosesNothing DEF Start
<1>3. CASE Take
  BY <1>3, TakeLosesNothing DEF Take
<1>4. ASSUME NEW s \in Sessions, GiveUp(s) \/ (Execute /\ loaded = s)
      PROVE  /\ NothingSlips' /\ BatchesArePartial'
             /\ Lost' \subseteq Lost /\ failures' = failures
  BY <1>4, FlushStepLosesNothing DEF GiveUp, Execute
<1>5. CASE Execute
  <2>1. loaded \in Sessions
    BY <1>5, SoundParts DEF Execute, FlushIsSound, LoadedIsExecuted
  <2> QED BY <1>4, <1>5, <2>1
<1>6. CASE FlushDone
  BY <1>6, FlushDoneLosesNothing DEF FlushDone
<1>7. CASE CommitOffset
  BY <1>7, CommitLosesNothing DEF CommitOffset
<1>8. CASE Drain
  BY <1>8, DrainLosesNothing DEF Drain
<1>9. CASE RecommitFails \/ Crash
  BY <1>9, FallLoses DEF RecommitFails, Crash, Fall
<1>10. CASE \/ \E s \in Sessions : Load(s)
            \/ CommitFails \/ Stop \/ SessionStep \/ UNCHANGED vars
  <2>1. /\ UNCHANGED <<log, committed, position, buffer, work, attempts, skipped, failures>>
        /\ \/ pc' = pc
           \/ pc = "flush" /\ pc' = "execute"
           \/ pc = "commit" /\ pc' = "recommit"
    BY <1>10, SessionStepFrame DEF Load, CommitFails, Stop, vars, flushed
  <2> QED BY <2>1, LookingLosesNothing
<1> QED BY <1>1, <1>2, <1>3, <1>4, <1>5, <1>6, <1>7, <1>8, <1>9, <1>10
        DEF Next, ConsumerNext, RunStep

\* Committing an offset whose signal is only buffered loses signals, though
\* never more than the partial batches of one buffer per fall of run(), and none
\* by shutting an idle consumer down, by failed rebalances or failed commits.
THEOREM LossesArePartialBatches == Spec => []LossIsBounded
<1> DEFINE K == Cardinality(Sessions) * (BatchSize - 1)
           Inv == /\ NothingSlips /\ BatchesArePartial
                  /\ IsFiniteSet(Lost) /\ Cardinality(Lost) <= failures * K
<1>0. K \in Nat /\ Cardinality(Sessions) \in Nat /\ BatchSize - 1 \in Nat
  BY ConsumerAssumption, FS_CardinalityType
<1> HIDE DEF K
<1>1. Init => Inv
  <2>1. 0 * K = 0
    BY <1>0
  <2>2. Init => failures = 0
    BY DEF Init
  <2> QED BY <2>1, <2>2, LossInit, FS_EmptySet
<1>2. Sound /\ Inv /\ [Next]_vars => Inv'
  <2> SUFFICES ASSUME Sound, Inv, [Next]_vars PROVE Inv'
    OBVIOUS
  <2>1. NothingSlips /\ BatchesArePartial /\ OffsetsAreSound /\ BufferIsSound /\ failures \in Nat
    BY SoundParts, ConsumerAssumption DEF CountsAreSound
  <2>2. IsFiniteSet(Lost) /\ Cardinality(Lost) \in Nat /\ Cardinality(Lost) <= failures * K
    BY FS_CardinalityType
  <2>3. /\ NothingSlips' /\ BatchesArePartial'
        /\ \/ Lost' \subseteq Lost /\ failures' = failures
           \/ Lost' \subseteq Lost \cup {i \in buffer : i <= committed} /\ failures' = failures + 1
    BY <2>1, NextLoses
  <2>4. CASE Lost' \subseteq Lost /\ failures' = failures
    <3>1. IsFiniteSet(Lost') /\ Cardinality(Lost') <= Cardinality(Lost)
      BY <2>2, <2>4, FS_Subset
    <3>2. Cardinality(Lost') \in Nat
      BY <3>1, FS_CardinalityType
    <3>3. Cardinality(Lost') <= failures' * K
      BY <1>0, <2>1, <2>2, <2>4, <3>1, <3>2
    <3> QED BY <2>3, <3>1, <3>3
  <2>5. CASE Lost' \subseteq Lost \cup {i \in buffer : i <= committed} /\ failures' = failures + 1
    <3> DEFINE E == {i \in buffer : i <= committed}
    <3>1. IsFiniteSet(E) /\ Cardinality(E) <= K
      BY <2>1, ExposureBound DEF K
    <3> HIDE DEF E
    <3>2. Cardinality(E) \in Nat
      BY <3>1, FS_CardinalityType
    <3>3. /\ IsFiniteSet(Lost \cup E)
          /\ Cardinality(Lost \cup E) <= Cardinality(Lost) + Cardinality(E)
      <4>1. Cardinality(Lost \cap E) \in Nat
        BY <2>2, FS_Intersection, FS_CardinalityType
      <4>2. /\ IsFiniteSet(Lost \cup E)
            /\ Cardinality(Lost \cup E)
                  = Cardinality(Lost) + Cardinality(E) - Cardinality(Lost \cap E)
        BY <2>2, <3>1, FS_Union
      <4> QED BY <2>2, <3>2, <4>1, <4>2
    <3>4. /\ IsFiniteSet(Lost') /\ Cardinality(Lost') <= Cardinality(Lost \cup E)
      BY <2>5, <3>3, FS_Subset DEF E
    <3>5. Cardinality(Lost') \in Nat /\ Cardinality(Lost \cup E) \in Nat
      BY <3>3, <3>4, FS_CardinalityType
    <3>6. Cardinality(Lost') <= failures * K + K
      <4>1. failures * K \in Nat
        BY <1>0, <2>1
      <4> QED BY <1>0, <2>2, <3>1, <3>2, <3>3, <3>4, <3>5, <4>1
    <3>7. failures' * K = failures * K + K
      BY <1>0, <2>1, <2>5
    <3> QED BY <2>3, <3>4, <3>6, <3>7
  <2> QED BY <2>3, <2>4, <2>5
<1>3. Sound /\ Inv => LossIsBounded
  <2>1. ASSUME NEW a \in Nat, NEW b \in Nat, NEW c \in Nat PROVE a * (b * c) = (a * b) * c
    OBVIOUS
  <2>2. Sound => failures \in Nat
    BY SoundParts, ConsumerAssumption DEF CountsAreSound
  <2>3. Sound => failures * K = (failures * Cardinality(Sessions)) * (BatchSize - 1)
    BY <1>0, <2>1, <2>2 DEF K
  <2> QED BY <2>3 DEF LossIsBounded
<1> QED BY <1>1, <1>2, <1>3, SoundInit, SoundNext, PTL DEF Spec
=============================================================================
