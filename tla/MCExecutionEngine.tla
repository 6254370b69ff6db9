-------------------------- MODULE MCExecutionEngine -------------------------
(***************************************************************************)
(* ExecutionEngine for TLC: two orders on one connector, one at a time     *)
(* from the queue, each with a way around the queue as well.               *)
(***************************************************************************)
EXTENDS ExecutionEngine, TLC

CONSTANTS o1, o2, alpaca, ccxt

MCWanted == (o1 :> alpaca) @@ (o2 :> ccxt)
MCEntries == (o1 :> {"enqueue_order", "execute_order"})
               @@ (o2 :> {"enqueue_order", "route_order"})
=============================================================================
