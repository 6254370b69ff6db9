-------------------------- MODULE MCSignalConsumer ---------------------------
(***************************************************************************)
(* SignalConsumer for TLC: clients of one session, or one client of two;   *)
(* signals also come for a session that is never created.  Batches of two  *)
(* signals.                                                                *)
(***************************************************************************)
EXTENDS SignalConsumer

CONSTANTS s1, s2

MCStrategyOf == [s \in Sessions |-> "strategy"]
MCOneSession == [c \in Clients |-> {s1}]
MCBothSessions == [c \in Clients |-> Sessions]
=============================================================================
