---------------------------- MODULE OrderStatuses ----------------------------
(***************************************************************************)
(* The status values of an order row (OrderStatusEnum) and the transition  *)
(* table of services/order_management_system/order_state_machine.py.       *)
(* Constant-level: every module about orders takes its statuses from here. *)
(***************************************************************************)

\* OrderStatusEnum, data_platform/database_models/pyhron_order_lifecycle_record.py
Statuses == {"PENDING_RISK", "RISK_APPROVED", "RISK_REJECTED", "SUBMITTED",
             "ACKNOWLEDGED", "PARTIAL_FILL", "FILLED", "CANCELLED",
             "REJECTED", "EXPIRED"}

\* The targets transition() accepts from each status.
VALID_TRANSITIONS ==
  [s \in Statuses |->
     CASE s = "PENDING_RISK"  -> {"RISK_APPROVED", "RISK_REJECTED"}
       [] s = "RISK_APPROVED" -> {"SUBMITTED", "REJECTED", "CANCELLED"}
       [] s = "SUBMITTED"     -> {"ACKNOWLEDGED", "REJECTED"}
       [] s = "ACKNOWLEDGED"  -> {"PARTIAL_FILL", "FILLED", "CANCELLED", "EXPIRED"}
       [] s = "PARTIAL_FILL"  -> {"PARTIAL_FILL", "FILLED", "CANCELLED"}
       [] OTHER               -> {}]
=============================================================================
