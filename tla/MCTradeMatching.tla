--------------------------- MODULE MCTradeMatching ---------------------------
(***************************************************************************)
(* TradeMatching for TLC: five limit orders and a market order that sells. *)
(* Some prices cross, touch, stay apart and tie; the quantities leave both *)
(* parties partly filled.                                                  *)
(***************************************************************************)
EXTENDS TradeMatching, TLC

CONSTANTS b1, b2, b3, s1, s2, s3

MCOrders == {b1, b2, b3, s1, s2, s3}
MCPrice == (b1 :> 2) @@ (b2 :> 3) @@ (b3 :> 2) @@ (s1 :> 2) @@ (s2 :> 3) @@ (s3 :> 0)
MCQty == (b1 :> 1) @@ (b2 :> 3) @@ (b3 :> 2) @@ (s1 :> 2) @@ (s2 :> 1) @@ (s3 :> 1)
=============================================================================
