---------------------------- MODULE StatusHistory ----------------------------
(***************************************************************************)
(* What is left of a table of allowed moves when writers overlap: each     *)
(* checks its move against a status it read earlier, and writes without    *)
(* looking again.  A row may then leave a final status, but it never takes *)
(* a status that no move leads to from some status it has had.  past is a  *)
(* history variable.  OrderTransitions and PaperSessions are compared with *)
(* this module.                                                            *)
(***************************************************************************)
CONSTANTS
  Rows,      \* order or session ids
  Statuses,
  Moves      \* the allowed moves, a set of pairs <<from, to>>

VARIABLES
  status,    \* [Rows -> Statuses]
  past       \* [Rows -> SUBSET Statuses]: the statuses the row has had

Init ==
  /\ status \in [Rows -> Statuses]
  /\ past = [r \in Rows |-> {status[r]}]

Move(r, from, to) ==
  /\ <<from, to>> \in Moves /\ from \in past[r]
  /\ status' = [status EXCEPT ![r] = to]
  /\ past' = [past EXCEPT ![r] = @ \cup {to}]

Next == \E r \in Rows, from, to \in Statuses : Move(r, from, to)

Spec == Init /\ [][Next]_<<status, past>>
=============================================================================
