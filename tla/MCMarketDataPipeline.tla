------------------------ MODULE MCMarketDataPipeline ------------------------
(***************************************************************************)
(* MarketDataPipeline for TLC: three bars, a statement, an intraday bar,   *)
(* or one bar that the database does not take.                             *)
(***************************************************************************)
EXTENDS MarketDataPipeline, TLC

CONSTANTS
  good,    \* a bar that closes at 199.6, between two tiers: rounded to 200
  high,    \* a bar that closes at its high of 499: rounded to 500
  bad,     \* a bar that cannot be read
  report,  \* a statement
  quote    \* an intraday bar without a symbol

MCFeed ==
  [k \in Kinds |-> CASE k = "eod"          -> <<good, bad, high>>
                     [] k = "fundamentals" -> <<report>>
                     [] k = "intraday"     -> <<quote>>]

MCOneFeed == [k \in Kinds |-> IF k = "eod" THEN SelectSeq(<<good, high>>, LAMBDA r : r \in Records)
                             ELSE <<>>]

Candle(open, high_, close, prev) ==
  [kind |-> "eod", defect |-> "none", open |-> open, high |-> high_, low |-> open,
   close |-> close, prev |-> prev, volume |-> 1, tradingDay |-> TRUE]

MCBar ==
  (good :> Candle(1900, 2100, 1996, 1900))
  @@ (high :> Candle(4900, 4990, 4990, 0))
  @@ (bad :> [Candle(1000, 1000, 1000, 0) EXCEPT !.defect = "uncaught"])
  @@ (report :> [kind |-> "fundamentals", defect |-> "none", close |-> 0,
                 assets |-> "positive", period |-> "past"])
  @@ (quote :> [kind |-> "intraday", defect |-> "none", named |-> FALSE, stamped |-> TRUE,
                open |-> 10, high |-> 10, low |-> 10, close |-> 10, volume |-> 1])
=============================================================================
