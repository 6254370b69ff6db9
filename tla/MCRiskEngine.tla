---------------------------- MODULE MCRiskEngine -----------------------------
(***************************************************************************)
(* RiskEngine for TLC.                                                     *)
(***************************************************************************)
EXTENDS RiskEngine
=============================================================================
