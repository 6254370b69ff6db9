--------------------------- MODULE OrderTransitions --------------------------
(***************************************************************************)
(* OrderStateMachine.transition() as its callers drive it.  A caller holds *)
(* an ORM object it loaded earlier; transition() validates the move        *)
(* against that in-memory status, then runs an UPDATE keyed by             *)
(* client_order_id alone, commits, and only then publishes the event on    *)
(* pyhron.orders.events.  Every await between these steps lets another     *)
(* caller in, one with an object of the same order included: a fill worker *)
(* beside the timeout monitor or a risk decision.  The process may fail at *)
(* any step.                                                               *)
(***************************************************************************)
EXTENDS OrderStatuses, Naturals, FiniteSets

CONSTANTS
  Orders,        \* client_order_ids
  Callers,       \* coroutines that load an order and call transition()
  Targets,       \* the statuses each caller decides on
  MaxFailures    \* bound on failed commits, failed sends and lost processes

ASSUME OrdersAssumption == IsFiniteSet(Orders)
ASSUME TargetsAssumption == Targets \in [Callers -> SUBSET Statuses]
ASSUME MaxFailuresAssumption == MaxFailures \in Nat

VARIABLES
  status,        \* [Orders -> Statuses]: the status column
  caller,        \* [Callers -> call record]
  failures       \* failures so far

\* History, read by the properties only.
VARIABLES
  past,          \* [Orders -> SUBSET Statuses]: the statuses the row has had
  heard          \* [Orders -> SUBSET Statuses]: to_status of the events sent

vars == <<status, caller, failures, past, heard>>

Idle == [pc |-> "idle"]

Calls == [pc : {"loaded", "committed"}, order : Orders,
          seen : Statuses, target : Statuses]

TypeOK ==
  /\ status \in [Orders -> Statuses]
  /\ caller \in [Callers -> Calls \cup {Idle}]
  /\ failures \in 0..MaxFailures
  /\ past \in [Orders -> SUBSET Statuses] /\ heard \in [Orders -> SUBSET Statuses]

\* Rows are created PENDING_RISK, without an event of transition().
Init ==
  /\ status = [o \in Orders |-> "PENDING_RISK"]
  /\ caller = [c \in Callers |-> Idle]
  /\ failures = 0
  /\ past = [o \in Orders |-> {"PENDING_RISK"}] /\ heard = past

\* The UPDATE and the COMMIT of a caller.
Write(o, t) ==
  /\ status' = [status EXCEPT ![o] = t]
  /\ past' = [past EXCEPT ![o] = @ \cup {t}]

\* The caller selects the row and decides on a target status.
Load(c, o, t) ==
  /\ caller[c] = Idle
  /\ caller' = [caller EXCEPT ![c] = [pc |-> "loaded", order |-> o,
                                      seen |-> status[o], target |-> t]]
  /\ UNCHANGED <<status, failures, past, heard>>

\* The validation raises InvalidTransitionError: nothing was written.
Refuse(c) ==
  /\ caller[c].pc = "loaded"
  /\ caller[c].target \notin VALID_TRANSITIONS[caller[c].seen]
  /\ caller' = [caller EXCEPT ![c] = Idle]
  /\ UNCHANGED <<status, failures, past, heard>>

\* Mutant of Commit: the table is not consulted.
CommitUnchecked(c) ==
  /\ caller[c].pc = "loaded"
  /\ Write(caller[c].order, caller[c].target)
  /\ caller' = [caller EXCEPT ![c].pc = "committed"]
  /\ UNCHANGED <<failures, heard>>

\* The move is legal from the status in memory: UPDATE and COMMIT.
Commit(c) ==
  /\ caller[c].pc = "loaded"
  /\ caller[c].target \in VALID_TRANSITIONS[caller[c].seen]
  /\ Write(caller[c].order, caller[c].target)
  /\ caller' = [caller EXCEPT ![c].pc = "committed"]
  /\ UNCHANGED <<failures, heard>>

\* Mutant of Publish: from_status and to_status are swapped.
PublishSwapped(c) ==
  /\ caller[c].pc = "committed"
  /\ heard' = [heard EXCEPT ![caller[c].order] = @ \cup {caller[c].seen}]
  /\ caller' = [caller EXCEPT ![c] = Idle]
  /\ UNCHANGED <<status, failures, past>>

\* producer.send() succeeds.
Publish(c) ==
  /\ caller[c].pc = "committed"
  /\ heard' = [heard EXCEPT ![caller[c].order] = @ \cup {caller[c].target}]
  /\ caller' = [caller EXCEPT ![c] = Idle]
  /\ UNCHANGED <<status, failures, past>>

\* The UPDATE fails and is rolled back, send() raises ProducerError, or the
\* process dies between two steps.
Fail(c) ==
  /\ caller[c] # Idle
  /\ failures < MaxFailures
  /\ failures' = failures + 1
  /\ caller' = [caller EXCEPT ![c] = Idle]
  /\ UNCHANGED <<status, past, heard>>

Next ==
  \E c \in Callers :
    \/ \E o \in Orders, t \in Targets[c] : Load(c, o, t)
    \/ Refuse(c)
    \/ Commit(c)
    \/ Publish(c)
    \/ Fail(c)

Spec == Init /\ [][Next]_vars

-----------------------------------------------------------------------------
(***************************************************************************)
(* Properties                                                              *)
(***************************************************************************)
TableMoves == {m \in Statuses \X Statuses : m[2] \in VALID_TRANSITIONS[m[1]]}

History == INSTANCE StatusHistory WITH Rows <- Orders, Moves <- TableMoves

\* What transition() keeps of its table whoever else holds an object of the
\* order: the row takes a status only if it has had one that leads to it, so that
\* an order that never was SUBMITTED is never FILLED, and one whose risk check
\* refused it has no other way than what an earlier read allowed.
FollowsItsPast == History!Spec

\* The statuses the row has had and nobody has published or is about to publish.
Unheard ==
  {m \in Orders \X Statuses :
     /\ m[2] \in past[m[1]] \ heard[m[1]]
     /\ \A c \in Callers :
          caller[c].pc = "committed" => <<caller[c].order, caller[c].target>> # m}

\* pyhron.orders.events tells no move that was not committed, and a failure
\* between the commit and the send loses one status at most: callers that
\* overlap on an order lose none.
EventsMatchCommits ==
  /\ \A o \in Orders : heard[o] \subseteq past[o]
  /\ Cardinality(Unheard) <= failures

\* The comment above transition()'s table: "Terminal states map to an empty set --
\* no further transitions allowed."  The row of a terminal status keeps it.
TerminalIsFinal ==
  \A o \in Orders : \A t \in past[o] : VALID_TRANSITIONS[t] = {} => status[o] = t
=============================================================================
