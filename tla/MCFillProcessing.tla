--------------------------- MODULE MCFillProcessing --------------------------
(***************************************************************************)
(* FillProcessing for TLC.  A buy order of three shares filled by two      *)
(* executions and a sell order of one share, with a position each.         *)
(***************************************************************************)
EXTENDS FillProcessing, TLC

CONSTANTS buy, sell, f1, f2, f3, w1, w2, k1, k2

MCOrders == {buy, sell}
MCFills == {f1, f2, f3}
MCOrderOf == (f1 :> buy) @@ (f2 :> buy) @@ (f3 :> sell)
MCFillQty == (f1 :> 1) @@ (f2 :> 2) @@ (f3 :> 1)
MCQuantity == (buy :> 3) @@ (sell :> 1)
MCKeys == {k1, k2}

\* The sell order reduces a position that exists; the buy order opens one.
TwoKeys == (buy :> k1) @@ (sell :> k2)
StartTwoKeys == (k1 :> NoRow) @@ (k2 :> 1)

BothWorkers == (w1 :> {buy, sell}) @@ (w2 :> {buy, sell})
OneWorker == w1 :> {buy, sell}
OneOrderEach == (w1 :> {buy}) @@ (w2 :> {sell})
=============================================================================
