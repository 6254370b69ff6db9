---------------------- MODULE MCPositionReconciliation ----------------------
(***************************************************************************)
(* PositionReconciliation for TLC: a purchase of two shares and a sale of  *)
(* one, in two symbols of one exchange; the other exchange holds nothing.  *)
(***************************************************************************)
EXTENDS PositionReconciliation, TLC

CONSTANTS buy, sell, s1, s2

MCQuantity == (buy :> 2) @@ (sell :> 1)
MCSymbolOf == (buy :> s1) @@ (sell :> s2)
MCExchangeOf == (s1 :> "IDX") @@ (s2 :> "IDX")
=============================================================================
