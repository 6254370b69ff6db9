-------------------------- MODULE MCOrderTransitions -------------------------
(***************************************************************************)
(* OrderTransitions for TLC: the order service, a fill worker and the      *)
(* timeout monitor with objects of one order.                              *)
(***************************************************************************)
EXTENDS OrderTransitions

MCTargets ==
  [c \in Callers |->
     CASE c = "monitor" -> {"EXPIRED"}
       [] c = "fills"   -> {"PARTIAL_FILL", "FILLED"}
       [] c = "service" -> Statuses \ {"EXPIRED", "PARTIAL_FILL", "FILLED"}]

\* No caller cancels through transition().
MCTargetsCalled == [MCTargets EXCEPT !["service"] = @ \ {"CANCELLED"}]
=============================================================================
