--------------------------- MODULE SessionLifecycle --------------------------
(***************************************************************************)
(* What PaperTradingSessionManager promises about the status of a paper    *)
(* trading session: each method's docstring names the move it makes.       *)
(***************************************************************************)
CONSTANT Sessions

VARIABLE status

Moves ==
  {<<"absent", "INITIALIZING">>, <<"INITIALIZING", "RUNNING">>,
   <<"RUNNING", "PAUSED">>, <<"PAUSED", "RUNNING">>,
   <<"RUNNING", "STOPPED">>, <<"PAUSED", "STOPPED">>}

Init == status = [s \in Sessions |-> "absent"]

Next ==
  \E s \in Sessions, m \in Moves :
     status[s] = m[1] /\ status' = [status EXCEPT ![s] = m[2]]

Spec == Init /\ [][Next]_status
=============================================================================
