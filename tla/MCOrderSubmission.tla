-------------------------- MODULE MCOrderSubmission --------------------------
(***************************************************************************)
(* OrderSubmission for TLC: two calls that repeat one idempotency key and  *)
(* the call of a sale that is not covered.                                 *)
(***************************************************************************)
EXTENDS OrderSubmission, TLC

CONSTANTS first, retry, short, k1, k2

MCKeyOf == (first :> k1) @@ (retry :> k1) @@ (short :> k2)
MCLots == (k1 :> 2) @@ (k2 :> 1)
=============================================================================
