---------------------------- MODULE OrderLifecycle ---------------------------
(***************************************************************************)
(* What the order management system promises about the status column of    *)
(* its order rows: it only ever moves along the transition table, so a     *)
(* terminal status is final.  The modules that model the code with its     *)
(* separate reads, commits and publications are compared with this one.    *)
(***************************************************************************)
EXTENDS OrderStatuses

CONSTANT Orders

VARIABLE status

Init == status \in [Orders -> Statuses]

Move(o, t) ==
  /\ t \in VALID_TRANSITIONS[status[o]]
  /\ status' = [status EXCEPT ![o] = t]

Next == \E o \in Orders, t \in Statuses : Move(o, t)

Spec == Init /\ [][Next]_status
=============================================================================
