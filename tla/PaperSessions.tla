---------------------------- MODULE PaperSessions ----------------------------
(***************************************************************************)
(* PaperTradingSessionManager behind the paper trading router.  A request  *)
(* selects the session, checks the status it got, changes the object and   *)
(* commits when its get_session() block ends: two steps, without a lock,   *)
(* and the UPDATE names the row by its id only, so requests on one session *)
(* that overlap overwrite each other.  The API's manager has no Kafka      *)
(* producer.                                                               *)
(***************************************************************************)
EXTENDS FiniteSets, Integers

CONSTANTS
  Sessions, StrategyOf,
  Clients, Operates   \* Operates[c]: the sessions that client c sends requests for

ASSUME OperatesAssumption == Operates \in [Clients -> SUBSET Sessions]

VARIABLES
  status,   \* [Sessions -> status column, "absent" without a row]
  past,     \* [Sessions -> statuses the row has had], history
  request   \* [Clients -> [op, session] or NoRequest]

rows == <<status, past>>
sessionVars == <<rows, request>>

NoRequest == [op |-> "none"]
SessionStatuses == {"absent", "INITIALIZING", "RUNNING", "PAUSED", "STOPPED", "COMPLETED"}
Operations == {"create", "start", "pause", "resume", "stop", "simulate", "simulating"}

SessionTypeOK ==
  /\ status \in [Sessions -> SessionStatuses]
  /\ past \in [Sessions -> SUBSET SessionStatuses]
  /\ request \in [Clients -> {NoRequest} \cup [op : Operations, session : Sessions]]

SessionInit ==
  /\ status = [s \in Sessions |-> "absent"]
  /\ past = [s \in Sessions |-> {"absent"}]
  /\ request = [c \in Clients |-> NoRequest]

\* Mutant of From: whatever has not been stopped can be stopped.
FromAny(op) ==
  CASE op = "start" -> {"INITIALIZING"}
    [] op = "pause" -> {"RUNNING"}
    [] op = "resume" -> {"PAUSED"}
    [] op = "stop" -> {"INITIALIZING", "RUNNING", "PAUSED"}

\* The statuses a method accepts; any other is answered with a 422.
From(op) ==
  CASE op = "start" -> {"INITIALIZING"}
    [] op = "pause" -> {"RUNNING"}
    [] op = "resume" -> {"PAUSED"}
    [] op = "stop" -> {"RUNNING", "PAUSED"}

To(op) ==
  CASE op = "create" -> "INITIALIZING"
    [] op \in {"start", "simulate", "resume"} -> "RUNNING"
    [] op = "pause" -> "PAUSED"
    [] op = "stop" -> "STOPPED"

Write(s, to) ==
  /\ status' = [status EXCEPT ![s] = to]
  /\ past' = [past EXCEPT ![s] = @ \cup {to}]

Ask(c, s, op) ==
  /\ request[c] = NoRequest /\ s \in Operates[c]
  /\ request' = [request EXCEPT ![c] = [op |-> op, session |-> s]]
  /\ UNCHANGED rows

\* create_session: no session of the strategy is RUNNING or PAUSED.  The id is a
\* fresh uuid, which no other request creates.
Create(c, s) ==
  /\ status[s] = "absent"
  /\ \A d \in Clients : request[d] # [op |-> "create", session |-> s]
  /\ \A t \in Sessions :
        StrategyOf[t] = StrategyOf[s] => status[t] \notin {"RUNNING", "PAUSED"}
  /\ Ask(c, s, "create")

\* start_session, pause_session, resume_session, stop_session up to the commit.
Change(c, s, op) ==
  /\ op \in {"start", "pause", "resume", "stop"}
  /\ status[s] \in From(op)
  /\ Ask(c, s, op)

\* run_simulation starts a session that is INITIALIZING in a transaction of
\* its own, and goes on with one in any other state.
Simulate(c, s) ==
  /\ status[s] # "absent"
  /\ Ask(c, s, IF status[s] = "INITIALIZING" THEN "simulate" ELSE "simulating")

Commit(c) ==
  LET q == request[c]
  IN /\ q.op \in Operations \ {"simulating"}
     /\ Write(q.session, To(q.op))
     /\ request' = [request EXCEPT ![c] =
                      IF q.op = "simulate" THEN [q EXCEPT !.op = "simulating"] ELSE NoRequest]

Rollback(c) ==
  /\ request[c].op \in Operations \ {"simulating"}
  /\ request' = [request EXCEPT ![c] = NoRequest]
  /\ UNCHANGED rows

\* engine.run has set COMPLETED on the object when stop_session reads it: the
\* ValueError rolls the whole simulation back.
SimulationEnds(c) ==
  LET q == request[c]
  IN /\ q.op = "simulating"
     /\ IF "COMPLETED" \in From("stop") THEN Write(q.session, "STOPPED") ELSE UNCHANGED rows
     /\ request' = [request EXCEPT ![c] = NoRequest]

SessionNext ==
  \E c \in Clients :
     \/ \E s \in Sessions :
           \/ Create(c, s) \/ Simulate(c, s)
           \/ \E op \in Operations : Change(c, s, op)
     \/ Commit(c) \/ Rollback(c) \/ SimulationEnds(c)

Lifecycle == INSTANCE SessionLifecycle
History == INSTANCE StatusHistory
             WITH Rows <- Sessions, Statuses <- SessionStatuses, Moves <- Lifecycle!Moves
=============================================================================
